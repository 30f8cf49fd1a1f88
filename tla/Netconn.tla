------------------------------ MODULE Netconn ------------------------------
(***************************************************************************)
(* The sequential API of lwIP: api_lib.c (what the program's threads       *)
(* call), api_msg.c and tcpip.c (what the stack's thread does for them),   *)
(* for one TCP netconn.                                                    *)
(*                                                                         *)
(* A call puts a message, which lies on the caller's stack, into the       *)
(* mailbox of tcpip_thread and waits on op_completed of the netconn.  The  *)
(* stack's thread executes the messages and, between them, the callbacks   *)
(* of TCP; connect, write and close may be answered by a callback, and     *)
(* then current_msg points to the caller's message meanwhile.  TCP itself  *)
(* is its callbacks and its answers (module TcpConn has the protocol).     *)
(***************************************************************************)
EXTENDS Integers, Sequences, FiniteSets

CONSTANTS Threads, None,
          NonBlocking,  \* netconn_is_nonblocking
          RecvSize,     \* places of recvmbox and acceptmbox
          SndBuf,       \* TCP_SND_BUF
          Wnd,          \* TCP_WND, in packets of the peer
          Lens,         \* lengths of writes
          Shuts,        \* ways of netconn_close_shutdown
          MaxCalls,
          MaxFails      \* refusals for want of memory

VARIABLES conn,    \* the netconn with what TCP knows of it
          th,      \* the threads and their messages
          mbox,    \* the mailbox of tcpip_thread
          rest,    \* tcpip_thread is in a callback that looks at conn again
          bad,     \* assertions that failed, uses of freed memory
          odd,     \* unusual things that happened
          told, sent,   \* bytes reported as written, bytes given to TCP
          fin,     \* the peer has sent its end
          calls, fails

vars == <<conn, th, mbox, rest, bad, odd, told, sent, fin, calls, fails>>

NoConn == [alive |-> FALSE, pcb |-> "none", state |-> "NONE", current |-> None,
           write_offset |-> 0, last_err |-> "OK", recvmbox |-> <<>>, rvalid |-> FALSE,
           acceptmbox |-> <<>>, avalid |-> FALSE, nbc |-> FALSE, op |-> 0, cb |-> {},
           sndbuf |-> SndBuf, wnd |-> Wnd]
Idle == [at |-> "idle", fn |-> "none", len |-> 0, shut |-> "none", err |-> "OK", buf |-> "none"]

Init ==
  /\ conn = NoConn
  /\ th = [t \in Threads |-> Idle]
  /\ mbox = <<>> /\ rest = FALSE /\ bad = {} /\ odd = {}
  /\ told = 0 /\ sent = 0 /\ fin = FALSE /\ calls = MaxCalls /\ fails = MaxFails

Fatal(e) == e \in {"ABRT", "RST", "CLSD", "CONN", "ARG"}
\* NETCONN_SET_SAFE_ERR
SetSafeErr(c, e) == IF Fatal(c.last_err) THEN c ELSE [c EXCEPT !.last_err = e]

AllCallbacks == {"arg", "recv", "sent", "poll", "err"}

\* a state of the stack's work: the netconn, the messages, failures, byte counts
Now == [c |-> conn, th |-> th, bad |-> bad, told |-> told, sent |-> sent, fails |-> fails]

Signal(s) == [s EXCEPT !.c.op = 1]
Answer(s, t, e) == Signal([s EXCEPT !.th[t].err = e])
Assert(s, cond, what) == IF cond THEN s ELSE [s EXCEPT !.bad = @ \union {what}]

----------------------------------------------------------------------------
(* The handlers of messages.  Each gives the set of its outcomes.           *)

\* netconn_alloc and do_newconn with pcb_new
do_newconn(s, t) ==
  {Answer([s EXCEPT !.c.pcb = "new", !.c.cb = AllCallbacks], t, "OK")}
  \union (IF s.fails = 0 THEN {}
          ELSE {Answer([s EXCEPT !.fails = @ - 1], t, "MEM")})

do_bind(s, t) ==
  {Answer(s, t, IF Fatal(s.c.last_err) THEN s.c.last_err
                ELSE IF s.c.pcb = "none" THEN "VAL" ELSE "OK")}

do_getaddr(s, t) == {Answer(s, t, IF s.c.pcb = "none" THEN "CONN" ELSE "OK")}

do_connect(s, t) ==
  IF s.c.pcb = "none" THEN {Answer(s, t, "CLSD")}
  ELSE IF s.c.state # "NONE" THEN {Answer(s, t, "ISCONN")}
  ELSE IF s.c.pcb # "new" THEN {Answer([s EXCEPT !.c.cb = AllCallbacks], t, "ISCONN")}
  ELSE LET going == [s EXCEPT !.c.cb = AllCallbacks, !.c.pcb = "connecting",
                              !.c.state = "CONNECT", !.c.nbc = NonBlocking]
       IN {IF NonBlocking THEN Answer(going, t, "INPROGRESS")
           ELSE [going EXCEPT !.c.current = t]}
          \union (IF s.fails = 0 THEN {}
                  ELSE {Answer([s EXCEPT !.fails = @ - 1, !.c.cb = AllCallbacks], t, "MEM")})

do_listen(s, t) ==
  IF Fatal(s.c.last_err) THEN {Answer(s, t, s.c.last_err)}
  ELSE IF s.c.pcb = "none" \/ s.c.state # "NONE" THEN {Answer(s, t, "CONN")}
  ELSE IF s.c.pcb # "new" THEN {Answer(s, t, "MEM")}
  ELSE {Answer([s EXCEPT !.c.rvalid = FALSE, !.c.recvmbox = <<>>, !.c.avalid = TRUE,
                         !.c.state = "LISTEN", !.c.pcb = "listen", !.c.cb = {"arg", "accept"}],
               t, "OK")}

do_recv(s, t) ==
  LET credit == IF s.c.wnd + 1 > Wnd THEN Wnd ELSE s.c.wnd + 1
  IN {Answer(IF s.c.pcb = "none" THEN s ELSE [s EXCEPT !.c.wnd = credit], t, "OK")}

Least(x, y) == IF x < y THEN x ELSE y

\* the write is over: its message gets the error and the length
Written(s, t, e, n) ==
  Signal([s EXCEPT !.th[t].err = e, !.th[t].len = n, !.told = @ + n,
                   !.c.current = None, !.c.state = "NONE"])

do_writemore_early(s) ==
  LET t == s.c.current
      diff == s.th[t].len - s.c.write_offset
      len == Least(diff, s.c.sndbuf)
      ok == [s EXCEPT !.c.sndbuf = @ - len, !.sent = @ + len]
  IN IF NonBlocking /\ diff > 0 /\ len = 0 THEN {Written(s, t, "WOULDBLOCK", 0)}
     ELSE {Written([ok EXCEPT !.c.write_offset = 0], t, "OK", s.th[t].len)}

do_writemore(s) ==
  LET t == s.c.current
      diff == s.th[t].len - s.c.write_offset
      len == Least(diff, s.c.sndbuf)
      checked == Assert(Assert(s, s.c.pcb # "none", "write without pcb"), diff > 0, "write_offset < len")
      ok == [checked EXCEPT !.c.sndbuf = @ - len, !.sent = @ + len]
      offset == s.c.write_offset + len
      done == offset = s.th[t].len \/ NonBlocking
  IN IF NonBlocking /\ diff > 0 /\ len = 0 THEN {Written(checked, t, "WOULDBLOCK", 0)}
     ELSE IF s.c.pcb # "open" THEN {Written(checked, t, "CONN", 0)}
     ELSE {IF done THEN Written([ok EXCEPT !.c.write_offset = 0], t, "OK", offset)
           ELSE [ok EXCEPT !.c.write_offset = offset]}
          \union (IF s.fails = 0 THEN {}
                  ELSE LET mem == [checked EXCEPT !.fails = @ - 1]
                       IN {IF NonBlocking THEN Written(mem, t, "MEM", 0) ELSE mem})

do_write(s, t) ==
  IF Fatal(s.c.last_err) THEN {Answer(s, t, s.c.last_err)}
  ELSE IF s.c.state # "NONE" THEN {Answer(s, t, "INPROGRESS")}
  ELSE IF s.c.pcb = "none" THEN {Answer(s, t, "CONN")}
  ELSE do_writemore([Assert(s, s.c.current = None /\ s.c.write_offset = 0,
                            "already writing or closing")
                     EXCEPT !.c.state = "WRITE", !.c.current = t, !.c.write_offset = 0])

Packets(box) == Len(SelectSeq(box, LAMBDA p : p = "data"))

netconn_drain(c) ==
  [c EXCEPT !.wnd = IF c.pcb = "none" \/ ~c.rvalid THEN @ ELSE @ + Packets(c.recvmbox),
            !.recvmbox = <<>>, !.rvalid = FALSE, !.acceptmbox = <<>>, !.avalid = FALSE]

\* what tcp_close or tcp_shutdown answer
Closing(pcb, shut) ==
  CASE shut = "RDWR" -> IF pcb = "open" THEN {"OK", "MEM"} ELSE {"OK"}
    [] shut = "RD" -> {"OK"}
    [] shut = "WR" -> IF pcb = "open" THEN {"OK", "MEM"} ELSE {"CONN"}

do_close_internal(s) ==
  LET t == s.c.current
      shut == s.th[t].shut
      rx == shut \in {"RD", "RDWR"}
      tx == shut \in {"WR", "RDWR"}
      gone == (IF rx THEN {"recv", "accept"} ELSE {}) \union (IF tx THEN {"sent"} ELSE {})
      checked == Assert(s, s.c.pcb # "none" /\ s.c.state = "CLOSE", "pcb already closed")
      After(e) ==
        IF e = "OK"
        THEN Answer([checked EXCEPT !.c.current = None, !.c.state = "NONE",
                       !.c.pcb = IF shut = "RDWR" THEN "none"
                                 ELSE IF shut = "WR" THEN "finsent" ELSE @,
                       !.c.cb = IF shut = "RDWR" THEN {} ELSE @ \ gone], t, "OK")
        ELSE [checked EXCEPT !.c.cb = (@ \ gone) \union {"arg", "sent", "poll", "err"},
                             !.fails = IF e = "MEM" THEN @ - 1 ELSE @]
  IN {After(e) : e \in {x \in Closing(s.c.pcb, shut) : x # "MEM" \/ s.fails > 0}}

do_close(s, t) ==
  IF s.c.state \notin {"NONE", "LISTEN"} THEN {Answer(s, t, "INPROGRESS")}
  ELSE IF s.c.pcb = "none" THEN {Answer(s, t, "VAL")}
  ELSE IF s.th[t].shut # "RDWR" /\ s.c.state = "LISTEN" THEN {Answer(s, t, "CONN")}
  ELSE do_close_internal(
         [Assert(s, s.c.current = None /\ s.c.write_offset = 0, "already writing or closing")
          EXCEPT !.c = [IF s.th[t].shut = "WR" THEN s.c ELSE netconn_drain(s.c)
                        EXCEPT !.state = "CLOSE", !.current = t]])

do_delconn(s, t) ==
  IF s.c.state \in {"WRITE", "CLOSE"} THEN {Answer(s, t, "INPROGRESS")}
  ELSE LET checked == Assert(s, s.c.state # "CONNECT" \/ s.c.nbc, "blocking connect in progress")
           drained == [checked EXCEPT !.c = netconn_drain(s.c)]
       IN IF s.c.pcb = "none" THEN {Signal(drained)}
          ELSE do_close_internal(
                 [Assert(drained, s.c.current = None /\ s.c.write_offset = 0,
                         "already writing or closing")
                  EXCEPT !.c.state = "CLOSE", !.th[t].shut = "RDWR", !.c.current = t])

Handler(s, t) ==
  CASE s.th[t].fn = "new" -> do_newconn(s, t)
    [] s.th[t].fn = "bind" -> do_bind(s, t)
    [] s.th[t].fn = "getaddr" -> do_getaddr(s, t)
    [] s.th[t].fn = "connect" -> do_connect(s, t)
    [] s.th[t].fn = "listen" -> do_listen(s, t)
    [] s.th[t].fn = "recv" -> do_recv(s, t)
    [] s.th[t].fn = "write" -> do_write(s, t)
    [] s.th[t].fn = "close" -> do_close(s, t)
    [] s.th[t].fn = "delete" -> do_delconn(s, t)

Become(s) ==
  /\ conn' = s.c /\ th' = s.th /\ bad' = s.bad
  /\ told' = s.told /\ sent' = s.sent /\ fails' = s.fails

\* the loop of tcpip_thread, TCPIP_MSG_API
tcpip_thread ==
  /\ mbox # <<>> /\ ~rest
  /\ mbox' = Tail(mbox)
  /\ \E s \in Handler(Assert(Now, conn.alive, "message for a freed netconn"), Head(mbox)) :
       Become(s)
  /\ UNCHANGED <<rest, odd, fin, calls>>

----------------------------------------------------------------------------
(* The callbacks of TCP, executed by tcpip_thread as well                   *)

Stack == ~rest /\ conn.pcb # "none"

do_connected ==
  /\ Stack /\ conn.pcb = "connecting"
  /\ LET s == Assert(Assert(Now, conn.state = "CONNECT", "state == NETCONN_CONNECT"),
                     conn.current # None \/ conn.nbc, "current_msg or nonblocking connect")
         open == [s EXCEPT !.c.pcb = "open", !.c.cb = AllCallbacks, !.c.nbc = FALSE,
                           !.c.current = None, !.c.state = "NONE"]
     IN Become(IF conn.nbc THEN [open EXCEPT !.c = SetSafeErr(@, "OK")]
               ELSE Answer(open, conn.current, "OK"))
  /\ UNCHANGED <<mbox, rest, odd, fin, calls>>

Forgets(s, t, e) ==
  [Answer(s, t, e) EXCEPT !.c.current = None]

err_tcp(e) ==
  /\ Stack /\ conn.pcb \in {"connecting", "open", "finsent"} /\ "err" \in conn.cb
  /\ LET waits == conn.state \in {"WRITE", "CLOSE", "CONNECT"} /\ ~conn.nbc
         s == Assert(Assert(Now, waits => conn.current # None, "current_msg != NULL"),
                     ~waits => conn.current = None \/ conn.nbc, "current_msg == NULL")
         gone == [s EXCEPT !.c.pcb = "none", !.c.cb = {}, !.c.last_err = e, !.c.state = "NONE",
                           !.c.nbc = FALSE,
                           !.c.recvmbox = IF conn.rvalid /\ Len(@) < RecvSize
                                          THEN Append(@, "null") ELSE @]
     IN Become(IF waits /\ conn.current # None THEN Forgets(gone, conn.current, e) ELSE gone)
  /\ UNCHANGED <<mbox, rest, odd, fin, calls>>

\* data or, once, the end of the peer's data; a full mailbox refuses it
recv_tcp(p) ==
  /\ Stack /\ conn.pcb \in {"open", "finsent"} /\ "recv" \in conn.cb /\ ~fin
  /\ p = "data" => conn.wnd > 0
  /\ conn.rvalid => Len(conn.recvmbox) < RecvSize
  /\ fin' = (p = "null")
  /\ conn' = IF ~conn.rvalid THEN conn
             ELSE [SetSafeErr(conn, "OK") EXCEPT !.recvmbox = Append(@, p),
                                                 !.wnd = IF p = "data" THEN @ - 1 ELSE @]
  /\ UNCHANGED <<th, mbox, rest, bad, odd, told, sent, calls, fails>>

\* sent_tcp (n bytes acknowledged) and poll_tcp (n = 0)
sent_tcp(n) ==
  /\ Stack /\ conn.pcb \in {"open", "finsent"}
  /\ (IF n > 0 THEN "sent" ELSE "poll") \in conn.cb
  /\ conn.sndbuf + n <= SndBuf
  /\ n = 0 => conn.state \in {"WRITE", "CLOSE"}
  /\ LET s == [Now EXCEPT !.c.sndbuf = @ + n]
     IN \E r \in CASE conn.state = "WRITE" -> do_writemore(s)
                   [] conn.state = "CLOSE" -> do_close_internal(s)
                   [] OTHER -> {s} : Become(r)
  /\ rest' = TRUE
  /\ UNCHANGED <<mbox, odd, fin, calls>>

\* the callback looks at conn->pcb and conn->flags once more
Rest ==
  /\ rest /\ rest' = FALSE
  /\ bad' = IF conn.alive THEN bad ELSE bad \union {"callback uses a freed netconn"}
  /\ UNCHANGED <<conn, th, mbox, odd, told, sent, fin, calls, fails>>

accept_function ==
  /\ Stack /\ conn.pcb = "listen" /\ "accept" \in conn.cb
  /\ conn.avalid /\ Len(conn.acceptmbox) < RecvSize
  /\ conn' = [conn EXCEPT !.acceptmbox = Append(@, "conn")]
  /\ UNCHANGED <<th, mbox, rest, bad, odd, told, sent, fin, calls, fails>>

----------------------------------------------------------------------------
(* The threads of the program: api_lib.c                                    *)

\* calls may overlap; nobody calls with a netconn that is being deleted
Overlap(t) == IF \E u \in Threads \ {t} : th[u].at # "idle" THEN {"shared"} ELSE {}
Deleted == \E u \in Threads : th[u].fn \in {"new", "delete"}
MayCall(t) == th[t].at = "idle" /\ calls > 0 /\ ~Deleted

\* tcpip_apimsg: the error is set to ERR_VAL before, the message is posted
tcpip_apimsg(t, fn, len, shut, buf) ==
  /\ th' = [th EXCEPT ![t] = [at |-> "call", fn |-> fn, len |-> len,
                            shut |-> shut, err |-> "VAL", buf |-> buf]]
  /\ mbox' = Append(mbox, t)

Call(t) ==
  /\ MayCall(t)
  /\ calls' = calls - 1
  /\ odd' = odd \union Overlap(t)
  /\ \/ /\ ~conn.alive
        /\ tcpip_apimsg(t, "new", 0, "none", "none")
        /\ conn' = [NoConn EXCEPT !.alive = TRUE, !.rvalid = TRUE]
        /\ fin' = FALSE /\ told' = 0 /\ sent' = 0
     \/ /\ conn.alive
        /\ \/ \E fn \in {"bind", "getaddr", "connect", "listen", "delete"} :
                tcpip_apimsg(t, fn, 0, "none", "none")
           \/ \E n \in Lens : tcpip_apimsg(t, "write", n, "none", "none")
           \/ \E h \in Shuts : tcpip_apimsg(t, "close", 0, h, "none")
        /\ UNCHANGED <<conn, fin, told, sent>>
  /\ UNCHANGED <<rest, bad, fails>>

\* netconn_recv_data up to its wait for the mailbox
netconn_recv_data(t) ==
  /\ MayCall(t) /\ conn.alive
  /\ conn.rvalid /\ ~Fatal(conn.last_err)
  /\ calls' = calls - 1
  /\ odd' = odd \union Overlap(t)
  /\ th' = [th EXCEPT ![t].at = "fetch"]
  /\ UNCHANGED <<conn, mbox, rest, bad, told, sent, fin, fails>>

Fetch(t) ==
  /\ th[t].at = "fetch" /\ conn.rvalid /\ conn.recvmbox # <<>>
  /\ conn' = [conn EXCEPT !.recvmbox = Tail(@)]
  /\ tcpip_apimsg(t, "recv", 1, "none", Head(conn.recvmbox))
  /\ UNCHANGED <<rest, bad, odd, told, sent, fin, calls, fails>>

netconn_accept(t) ==
  /\ MayCall(t) /\ conn.alive
  /\ conn.avalid /\ ~Fatal(conn.last_err) /\ conn.acceptmbox # <<>>
  /\ calls' = calls - 1
  /\ conn' = [conn EXCEPT !.acceptmbox = Tail(@)]
  /\ UNCHANGED <<th, mbox, rest, bad, odd, told, sent, fin, fails>>

\* the stack still has the thread's message
Unfinished(t) == conn.current = t \/ \E i \in 1..Len(mbox) : mbox[i] = t

\* the wait for op_completed is over; what the function does then
Return(t) ==
  /\ th[t].at = "call" /\ conn.op = 1
  /\ LET fn == th[t].fn
         woken == [conn EXCEPT !.op = 0]
         e == IF fn = "recv" THEN IF th[t].buf = "null" THEN "CLSD" ELSE "OK" ELSE th[t].err
     IN /\ conn' = IF fn = "delete" \/ (fn = "new" /\ e # "OK") THEN NoConn
                   ELSE IF fn = "new" \/ (fn = "recv" /\ e = "OK") THEN woken
                   ELSE SetSafeErr(woken, e)
        /\ bad' = bad \union (IF fn = "delete" /\ (conn.pcb # "none" \/ conn.rvalid \/ conn.avalid)
                              THEN {"freed with its pcb"} ELSE {})
        /\ odd' = odd \union (IF fn = "recv" /\ e = "CLSD" THEN {"eof"} ELSE {})
                      \union (IF fn \notin {"new", "recv", "delete"} /\ Fatal(e) THEN {"early"} ELSE {})
                      \union (IF Unfinished(t) THEN {"stolen"} ELSE {})
  /\ th' = [th EXCEPT ![t] = Idle]
  /\ UNCHANGED <<mbox, rest, told, sent, fin, calls, fails>>

----------------------------------------------------------------------------

Callback ==
  \/ do_connected \/ err_tcp("RST") \/ recv_tcp("data") \/ recv_tcp("null") \/ accept_function
  \/ (\E n \in 0..1 : sent_tcp(n)) \/ Rest

\* a thread woken by another's signal leaves its message, and the stack goes on
\* with a message that is no more: nothing is said about what follows
Sane == "stolen" \notin odd

Next ==
  /\ Sane
  /\ \/ tcpip_thread \/ Callback
     \/ \E t \in Threads : \/ Call(t) \/ netconn_recv_data(t) \/ Fetch(t)
                           \/ netconn_accept(t) \/ Return(t)

\* the threads run, that of the stack through the callback it is in; nothing is
\* assumed of the network and of the timers
Fairness ==
  /\ WF_vars(Sane /\ (tcpip_thread \/ Rest))
  /\ \A t \in Threads : WF_vars(Sane /\ Return(t))

Spec == Init /\ [][Next]_vars /\ Fairness

----------------------------------------------------------------------------

TypeOK ==
  /\ conn.state \in {"NONE", "WRITE", "LISTEN", "CONNECT", "CLOSE"}
  /\ conn.pcb \in {"none", "new", "connecting", "open", "finsent", "listen"}
  /\ conn.current \in Threads \union {None}
  /\ conn.op \in 0..1 /\ conn.sndbuf \in 0..SndBuf /\ conn.wnd \in 0..Wnd
  /\ \A t \in Threads : th[t].at \in {"idle", "call", "fetch"}

Shared == "shared" \in odd

\* A call returns only when the stack is through with its message, as long as no
\* two threads call with the same netconn at the same time: then one can be woken
\* by the signal that was meant for the other, and the stack keeps a pointer into
\* the stack of a function that has returned (tcpip.c:318; api_msg.c:1017, 1359).
NoSignalStolenUnlessShared == "stolen" \in odd => Shared

\* op_completed is signalled exactly for a call that is over: no signal is left
\* behind for the next call to find.
SignalIsForACall ==
  (Sane /\ conn.op = 1) =>
     \E t \in Threads : th[t].at = "call" /\ ~Unfinished(t)

\* None of the assertions of api_msg.c fails, and the netconn is freed without
\* its pcb and used only before, unless threads share it or a close was
\* finished by a callback, which looks at the netconn after the closing thread
\* was released (api_msg.c:292-300, 322-333).
SoundUnless ==
  \/ Shared
  \/ bad \subseteq {"callback uses a freed netconn"}

\* What writes report is what TCP was given: nothing is written twice or left
\* out when a blocked write goes on in callbacks (do_writemore).
WrittenOnce == Shared \/ (conn.pcb = "open" => sent = told + conn.write_offset)

\* The window is given back exactly for what was fetched or dropped.
Held == Cardinality({t \in Threads : th[t].fn = "recv" /\ th[t].buf = "data"
                                     /\ \E i \in 1..Len(mbox) : mbox[i] = t})
WindowReturned ==
  Shared \/ (conn.pcb \in {"open", "finsent"} => conn.wnd + Packets(conn.recvmbox) + Held = Wnd)

\* An open connection refuses calls only after the end of the peer's data was
\* read or after a call that failed with an error that stays (ERR_CONN counts
\* as fatal, so a write before connecting spoils the netconn).
UsableUnlessSpoilt ==
  (conn.pcb = "open" /\ Fatal(conn.last_err)) => odd \intersect {"eof", "early", "shared"} # {}

\* Every call comes to its end as soon as the stack does not wait for the network on
\* its behalf (conn->current_msg): no message stays behind and no signal is lost,
\* as long as the netconn is not shared.
InCall == \E t \in Threads : th[t].at = "call"
Waiting == conn.current # None
CallsOver == (\A t \in Threads : th[t].at # "call") \/ Waiting \/ Shared
CallsReturn == InCall ~> CallsOver
=============================================================================
