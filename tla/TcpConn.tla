------------------------------ MODULE TcpConn ------------------------------
(***************************************************************************)
(* The life of a TCP connection of lwIP between a program that opened    *)
(* (A) and one that listens (B): the handshake of tcp_connect, tcp_listen_ *)
(* input and tcp_process, closing in its variants, reset, and the time-    *)
(* outs of tcp_slowtmr.  Both ends run this code.  The network loses,      *)
(* repeats and reorders: a segment that was sent may be delivered at any   *)
(* later moment, again, or never.  TIME_WAIT may end at any moment and     *)
(* outlives no segment: pcb->tmr is not set any more once the program has  *)
(* closed, so that the time spent in the states before counts as well.     *)
(*                                                                         *)
(* A writes up to two full segments, each of which counts as one in the    *)
(* sequence numbers, so that data can be unread when B closes, missing     *)
(* when the FIN comes, or still unsent when A closes.  How much tcp_output *)
(* may send is the smaller of the peer's window and the congestion window, *)
(* one or two segments here: their arithmetic, empty windows, delayed and  *)
(* duplicate acknowledgements are those of TcpSend and TcpRecv.  Sequence  *)
(* numbers do not wrap here.                                               *)
(***************************************************************************)
EXTENDS Integers, FiniteSets, FiniteSetsExt

CONSTANTS
    TCP_WND,        \* the receive window
    TCP_SYNMAXRTX,  \* retransmissions of a SYN before the connection is given up
    TCP_MAXRTX,     \* the same for data
    U8,             \* where the u8_t nrtx wraps
    Windows,        \* what window and congestion window may leave to tcp_output
    Writes,         \* segments A writes in one call
    Gaps,           \* what tcp_next_iss adds: the ticks of the clock
    MaxCalls,       \* bound: calls of the two programs
    MaxAccepts,     \* bound: blocks B allocates for a SYN
    NetSize,        \* bound: segments under way at a time; more are lost
    Rude            \* whether programs abort and refuse (tcp_abort)

VARIABLES
    pcb,        \* the connection block of each end (CLOSED: there is none)
    net,        \* the segments that may still arrive
    iss,        \* the static variable of tcp_next_iss, of each end
    calls,      \* calls the programs have made
    accepts,    \* blocks B has allocated
    wrote,      \* ghost: <<initial number, segments>> of what A has written
    closed,     \* ghost: <<end, initial number>> of every end that queued its FIN
    finacked,   \* ghost: <<end, initial number, whether segments were still unsent>>
                \* of every end that took its FIN for acknowledged
    top,        \* ghost: the highest number each end has used
    reached,    \* ghost: a connection began at a number used before
    eof         \* ghost: <<end, own, peer's number, bytes got>> of every EOF

vars == <<pcb, net, iss, calls, accepts, wrote, closed, finacked, top, reached, eof>>

Ends == {"A", "B"}
Peer(e) == IF e = "A" THEN "B" ELSE "A"

\* no block; iss is the number of the own SYN, irs that of the peer's
Closed == [state |-> "CLOSED", iss |-> 0, irs |-> 0, snd_nxt |-> 0, snd_lbb |-> 0, lastack |-> 0,
           rcv_nxt |-> 0, unsent |-> {}, unacked |-> {}, rxclosed |-> FALSE, nrtx |-> 0,
           unread |-> 0, ooseq |-> {}]

\* tcp_alloc
tcp_alloc(n) == [Closed EXCEPT !.iss = n, !.snd_nxt = n, !.snd_lbb = n, !.lastack = n]

\* tcp_pcb_purge
tcp_pcb_purge(p) == [p EXCEPT !.unsent = {}, !.unacked = {}, !.ooseq = {}]

\* tcp_next_iss: the ticks of the clock are added at every call
tcp_next_iss(e, g) == iss[e] + g

(***************************************************************************)
(* Segments.  len counts data only; tcplen counts SYN and FIN as well.     *)
(***************************************************************************)
Seg(e, seq, ackno, flags, len) ==
    [from |-> e, seq |-> seq, ackno |-> ackno, flags |-> flags, len |-> len]

tcplen(m) == m.len + (IF m.flags \cap {"SYN", "FIN"} # {} THEN 1 ELSE 0)

tcp_send_empty_ack(e, p) == Seg(e, p.snd_nxt, p.rcv_nxt, {"ACK"}, 0)

tcp_rst(e, seqno, ackno) == Seg(e, seqno, ackno, {"RST", "ACK"}, 0)

\* tcp_enqueue_flags, tcp_write: one segment more at the end of unsent; its
\* acknowledgement is filled in when it is sent
Enqueued(e, p, flags, len) ==
    LET m == Seg(e, p.snd_lbb, 0, flags, len)
    IN  [p EXCEPT !.unsent = @ \cup {m}, !.snd_lbb = @ + tcplen(m)]

\* tcp_send_fin: the FIN goes into the last unsent segment if there is one
tcp_send_fin(e, p) ==
    LET last == {m \in p.unsent : \A u \in p.unsent : u.seq <= m.seq}
    IN  IF \E m \in last : m.flags \cap {"SYN", "FIN"} = {}
        THEN [p EXCEPT !.unsent = (@ \ last) \cup {[m EXCEPT !.flags = @ \cup {"FIN"}] : m \in last}]
        ELSE Enqueued(e, p, {"FIN"}, 0)

(***************************************************************************)
(* A result is the new block, what was sent, and TF_ACK_NOW.               *)
(***************************************************************************)
Res(p, out, ack) == [pcb |-> p, out |-> out, ack |-> ack]

\* tcp_output: what fits goes from unsent to unacked; if nothing does, an
\* acknowledgement that is due goes alone
tcp_output(e, r, w) ==
    LET p  == r.pcb
        go == {m \in p.unsent : m.seq - p.lastack + m.len <= w}
        ack == IF p.state = "SYN_SENT" THEN {} ELSE {"ACK"}
        q  == [p EXCEPT !.unsent = @ \ go, !.unacked = @ \cup go,
                        !.snd_nxt = Max({@} \cup {m.seq + tcplen(m) : m \in go})]
        sent == {[m EXCEPT !.ackno = p.rcv_nxt, !.flags = @ \cup ack] : m \in go}
    IN  Res(q, r.out \cup (IF go = {} /\ r.ack THEN {tcp_send_empty_ack(e, p)} ELSE sent), FALSE)

Outputs(e, r) == {tcp_output(e, r, w) : w \in Windows}

\* tcp_rexmit_rto, tcp_rexmit: what was sent is unsent again
Rexmit(p) ==
    [p EXCEPT !.unsent = @ \cup p.unacked, !.unacked = {}, !.nrtx = (@ + 1) % U8]

\* tcp_abandon: the block goes; the peer is told unless the connection was
\* in TIME_WAIT
tcp_abandon(e, p, reset) ==
    Res(Closed, IF reset /\ p.state # "TIME_WAIT"
                THEN {tcp_rst(e, p.snd_nxt, p.rcv_nxt)} ELSE {}, FALSE)

\* tcp_listen_input
tcp_listen_input(e, m, g) ==
    LET new == [tcp_alloc(tcp_next_iss(e, g)) EXCEPT
                  !.state = "SYN_RCVD", !.irs = m.seq, !.rcv_nxt = m.seq + 1]
    IN  CASE "RST" \in m.flags -> Res(Closed, {}, FALSE)
          [] {"RST", "ACK"} \cap m.flags = {"ACK"} ->
               Res(Closed, {tcp_rst(e, m.ackno, m.seq + tcplen(m))}, FALSE)
          [] {"RST", "ACK", "SYN"} \cap m.flags = {"SYN"} ->
               Res(Enqueued(e, new, {"SYN"}, 0), {}, FALSE)
          [] OTHER -> Res(Closed, {}, FALSE)

\* tcp_timewait_input
tcp_timewait_input(e, p, m) ==
    LET inwnd == m.seq \in p.rcv_nxt .. p.rcv_nxt + TCP_WND - p.unread
    IN  CASE "RST" \in m.flags -> Res(p, {}, FALSE)
          [] "SYN" \in m.flags /\ inwnd ->
               Res(p, {tcp_rst(e, m.ackno, m.seq + tcplen(m))}, FALSE)
          [] OTHER -> Res(p, {}, tcplen(m) > 0)

\* tcp_receive, its first half: the acknowledgement.  A segment that was
\* sent and is unsent again may be acknowledged as well.
Acked(p, m) ==
    LET q == [p EXCEPT !.lastack = m.ackno, !.nrtx = 0,
                       !.unacked = {u \in @ : u.seq + tcplen(u) > m.ackno}]
    IN  IF "ACK" \notin m.flags THEN p
        ELSE [IF m.ackno \in p.lastack + 1 .. p.snd_nxt THEN q ELSE p EXCEPT
                !.unsent = {u \in @ : m.ackno \notin u.seq + tcplen(u) .. p.snd_nxt}]

\* segments of ooseq that have become the next ones
RECURSIVE Absorbed(_)
Absorbed(p) ==
    LET next == {s \in p.ooseq : s.seq <= p.rcv_nxt}
        s == CHOOSE x \in next : \A y \in next : x.seq <= y.seq
        edge == Max({p.rcv_nxt, s.seq + s.len})
        q == [p EXCEPT !.ooseq = @ \ {s}, !.unread = @ + edge - p.rcv_nxt, !.rcv_nxt = edge]
    IN  CASE next = {} -> [pcb |-> p, fin |-> FALSE]
          [] next # {} /\ s.fin -> [pcb |-> [q EXCEPT !.rcv_nxt = @ + 1], fin |-> TRUE]
          [] OTHER -> Absorbed(q)

\* a segment that comes too early: the first of two with the same number
\* stays unless the other has more data, and nothing follows a FIN
tcp_oos_insert(q, m) ==
    LET fin == "FIN" \in m.flags
    IN  IF \E s \in q : \/ s.seq = m.seq /\ s.len >= m.len
                        \/ s.seq < m.seq /\ s.fin THEN q
        ELSE {s \in q : s.seq # m.seq /\ (fin => s.seq < m.seq)}
               \cup {[seq |-> m.seq, len |-> m.len, fin |-> fin]}

\* its second half: data and FIN, the next ones or too early; an end that
\* has had the FIN takes nothing more
Taken(p, m) ==
    LET ignored == [pcb |-> p, fin |-> FALSE, data |-> FALSE]
        new == m.seq + m.len - p.rcv_nxt
        got == [p EXCEPT !.rcv_nxt = @ + new, !.unread = @ + new]
        all == IF "FIN" \in m.flags
               THEN [pcb |-> [got EXCEPT !.rcv_nxt = @ + 1, !.ooseq = {}], fin |-> TRUE]
               ELSE Absorbed(got)
    IN  CASE \/ tcplen(m) = 0 \/ "SYN" \in m.flags
             \/ p.state \in {"CLOSE_WAIT", "CLOSING", "LAST_ACK"} -> ignored
          [] OTHER ->
               IF m.seq <= p.rcv_nxt /\ m.seq + tcplen(m) > p.rcv_nxt
               THEN [pcb |-> all.pcb, fin |-> all.fin, data |-> all.pcb.unread > p.unread]
               ELSE IF m.seq \in p.rcv_nxt .. p.rcv_nxt + TCP_WND - p.unread - 1
               THEN [ignored EXCEPT !.pcb.ooseq = tcp_oos_insert(@, m)]
               ELSE ignored

\* tcp_process, where a reset is accepted
Resets(p, m) ==
    /\ "RST" \in m.flags
    /\ IF p.state = "SYN_SENT" THEN m.ackno = p.snd_nxt
       ELSE m.seq \in p.rcv_nxt .. p.rcv_nxt + TCP_WND - p.unread


\* the state after data and FIN have been taken.  all: this segment
\* acknowledges everything sent, which is taken for the FIN as well
NextState(s, fin, all) ==
    CASE s \in {"SYN_RCVD", "ESTABLISHED"} -> IF fin THEN "CLOSE_WAIT" ELSE "ESTABLISHED"
      [] s = "FIN_WAIT_1" -> IF fin THEN (IF all THEN "TIME_WAIT" ELSE "CLOSING")
                             ELSE IF all THEN "FIN_WAIT_2" ELSE s
      [] s = "FIN_WAIT_2" -> IF fin THEN "TIME_WAIT" ELSE s
      [] s = "CLOSING"    -> IF all THEN "TIME_WAIT" ELSE s
      [] s = "LAST_ACK"   -> IF all THEN "CLOSED" ELSE s
      [] OTHER -> s

\* tcp_process for a synchronised connection, and what tcp_input does with
\* its flags: data for an end that reads no more aborts the connection.
\* The acceptance of a new connection may be refused by the program.
Synchronised(e, p, m, refuse) ==
    LET t == Taken(Acked(p, m), m)
        s == NextState(p.state, t.fin, "ACK" \in m.flags /\ m.ackno = p.snd_nxt)
        r == [t.pcb EXCEPT !.state = s]
    IN  IF p.state = "SYN_RCVD" /\ refuse THEN tcp_abandon(e, p, TRUE)
        ELSE IF s = "CLOSED" THEN Res(Closed, {}, FALSE)
        ELSE IF t.data /\ p.rxclosed THEN tcp_abandon(e, r, TRUE)
        ELSE Res(IF s = "TIME_WAIT" THEN tcp_pcb_purge(r) ELSE r, {}, tcplen(m) > 0)

\* tcp_process
tcp_process(e, p, m, refuse) ==
    LET reset == Res(p, {tcp_rst(e, m.ackno, m.seq + tcplen(m))}, FALSE)
        ignored == Res(p, {}, FALSE)
        opened == [p EXCEPT !.state = "ESTABLISHED", !.irs = m.seq, !.rcv_nxt = m.seq + 1,
                            !.lastack = m.ackno, !.unacked = {}]
    IN  IF "RST" \in m.flags THEN (IF Resets(p, m) THEN Res(Closed, {}, FALSE) ELSE ignored)
        ELSE IF "SYN" \in m.flags /\ p.state \notin {"SYN_SENT", "SYN_RCVD"}
        THEN Res(p, {}, TRUE)
        ELSE CASE p.state = "SYN_SENT" ->
                    IF {"SYN", "ACK"} \subseteq m.flags /\ m.ackno = p.iss + 1
                    THEN Res(opened, {}, TRUE)
                    ELSE IF "ACK" \in m.flags THEN reset ELSE ignored
               [] p.state = "SYN_RCVD" ->
                    IF "ACK" \in m.flags
                    THEN IF m.ackno \in p.lastack + 1 .. p.snd_nxt
                         THEN Synchronised(e, p, m, refuse) ELSE reset
                    ELSE IF "SYN" \in m.flags /\ m.seq = p.rcv_nxt - 1
                    THEN Res(Rexmit(p), {}, FALSE) ELSE ignored
               [] OTHER -> Synchronised(e, p, m, FALSE)

\* tcp_input: the block of the connection, the listening one, or neither
tcp_input(e, m, g, refuse) ==
    LET p == pcb[e]
    IN  CASE p.state = "CLOSED" /\ e = "B" -> tcp_listen_input(e, m, g)
          [] p.state = "CLOSED" /\ e = "A" ->
               Res(Closed, IF "RST" \in m.flags THEN {}
                           ELSE {tcp_rst(e, m.ackno, m.seq + tcplen(m))}, FALSE)
          [] p.state = "TIME_WAIT" -> tcp_timewait_input(e, p, m)
          [] OTHER -> tcp_process(e, p, m, refuse)

\* the network keeps what it can of the old and the new segments
Carry(have, out) ==
    LET all == have \cup out
    IN  net' \in IF Cardinality(all) <= NetSize THEN {all} ELSE kSubset(NetSize, all)

Apply(e, r) == pcb' = [pcb EXCEPT ![e] = r.pcb] /\ Carry(net, r.out)

\* ghosts: the program is told of the end of the stream; the own FIN is taken
\* for acknowledged
Ended(p, q) == /\ q.state \in {"CLOSE_WAIT", "CLOSING", "TIME_WAIT"}
               /\ p.state \in {"SYN_RCVD", "ESTABLISHED", "FIN_WAIT_1", "FIN_WAIT_2"}
FinAcked(p, q, m) ==
    /\ "RST" \notin m.flags
    /\ \/ p.state = "FIN_WAIT_1" /\ q.state \in {"FIN_WAIT_2", "TIME_WAIT"}
       \/ p.state = "CLOSING" /\ q.state = "TIME_WAIT"
       \/ p.state = "LAST_ACK" /\ q.state = "CLOSED"

\* A segment arrives: tcp_input ends with tcp_output.
Deliver(m) ==
    LET e == Peer(m.from)
        p == pcb[e]
    IN  \E g \in Gaps, refuse \in (IF Rude THEN BOOLEAN ELSE {FALSE}) :
        \E r \in Outputs(e, tcp_input(e, m, g, refuse)) :
          LET q == r.pcb
              new == p.state = "CLOSED" /\ q.state = "SYN_RCVD"
          IN  /\ new => accepts < MaxAccepts
              /\ pcb' = [pcb EXCEPT ![e] = q]
              /\ Carry(net \ {m}, r.out) \/ Carry(net, r.out)
              /\ iss' = IF new THEN [iss EXCEPT ![e] = q.iss] ELSE iss
              /\ accepts' = IF new THEN accepts + 1 ELSE accepts
              /\ eof' = IF Ended(p, q)
                        THEN eof \cup {<<e, q.iss, q.irs, q.rcv_nxt - q.irs - 2>>} ELSE eof
              /\ finacked' = IF FinAcked(p, q, m)
                             THEN finacked \cup {<<e, p.iss, Acked(p, m).unsent # {}>>} ELSE finacked
              /\ UNCHANGED <<calls, wrote, closed>>

(***************************************************************************)
(* The programs.                                                           *)
(***************************************************************************)
Call == calls < MaxCalls /\ calls' = calls + 1

\* tcp_connect, from the port of the connection before: bound, not chosen
tcp_connect(g) ==
    /\ pcb["A"].state = "CLOSED" /\ Call
    /\ LET n == tcp_next_iss("A", g)
           p == Enqueued("A", [tcp_alloc(n) EXCEPT !.state = "SYN_SENT"], {"SYN"}, 0)
       IN  /\ \E r \in Outputs("A", Res(p, {}, FALSE)) : Apply("A", r)
           /\ iss' = [iss EXCEPT !["A"] = n]
    /\ UNCHANGED <<accepts, wrote, closed, finacked, eof>>

Written(p, n) == IF n = 1 THEN Enqueued("A", p, {}, 1)
                 ELSE Enqueued("A", Enqueued("A", p, {}, 1), {}, 1)

\* tcp_write and tcp_output of n full segments
tcp_write(n) ==
    LET p == pcb["A"]
    IN  /\ p.state \in {"ESTABLISHED", "CLOSE_WAIT"} /\ Call
        /\ \A x \in wrote : x[1] # p.iss
        /\ \E r \in Outputs("A", Res(Written(p, n), {}, FALSE)) : Apply("A", r)
        /\ wrote' = wrote \cup {<<p.iss, n>>}
        /\ UNCHANGED <<iss, accepts, closed, finacked, eof>>

\* tcp_recved: the program has read, too little for a window update
tcp_recved(e) ==
    /\ pcb[e].unread > 0
    /\ pcb' = [pcb EXCEPT ![e].unread = 0]
    /\ UNCHANGED <<net, iss, calls, accepts, wrote, closed, finacked, eof>>

\* tcp_close_shutdown with rst_on_unacked_data
tcp_close_shutdown(e, p, rst) ==
    LET q == tcp_send_fin(e, p)
    IN  IF rst /\ p.state \in {"ESTABLISHED", "CLOSE_WAIT"} /\ p.unread > 0
        THEN Res(IF p.state = "ESTABLISHED"
                 THEN [tcp_pcb_purge(p) EXCEPT !.state = "TIME_WAIT"]
                 ELSE Closed, {tcp_rst(e, p.snd_nxt, p.rcv_nxt)}, FALSE)
        ELSE CASE p.state = "SYN_SENT" -> Res(Closed, {}, FALSE)
               [] p.state \in {"SYN_RCVD", "ESTABLISHED"} ->
                    Res([q EXCEPT !.state = "FIN_WAIT_1"], {}, FALSE)
               [] p.state = "CLOSE_WAIT" -> Res([q EXCEPT !.state = "LAST_ACK"], {}, FALSE)
               [] OTHER -> Res(p, {}, FALSE)

Shut(e, r) ==
    /\ \E o \in Outputs(e, r) : Apply(e, o)
    /\ closed' = IF r.pcb.state \in {"FIN_WAIT_1", "LAST_ACK"}
                 THEN closed \cup {<<e, pcb[e].iss>>} ELSE closed
    /\ UNCHANGED <<iss, accepts, wrote, finacked, eof>>

\* the program has the block from tcp_connect or from its accept callback
Held(e) == pcb[e].state \notin {"CLOSED", "SYN_RCVD"}

\* tcp_close: nothing more is received, the direction to the peer ends
tcp_close(e) ==
    /\ Held(e) /\ ~pcb[e].rxclosed /\ Call
    /\ Shut(e, tcp_close_shutdown(e, [pcb[e] EXCEPT !.rxclosed = TRUE], TRUE))

\* tcp_shutdown of the sending direction
tcp_shutdown(e) ==
    /\ pcb[e].state \in {"ESTABLISHED", "CLOSE_WAIT"} /\ ~pcb[e].rxclosed /\ Call
    /\ Shut(e, tcp_close_shutdown(e, pcb[e], FALSE))

\* tcp_abort
tcp_abort(e) ==
    /\ Rude /\ Held(e) /\ ~pcb[e].rxclosed /\ Call
    /\ Apply(e, tcp_abandon(e, pcb[e], TRUE))
    /\ UNCHANGED <<iss, accepts, wrote, closed, finacked, eof>>

(***************************************************************************)
(* tcp_slowtmr.                                                            *)
(***************************************************************************)
\* nothing was acknowledged in time: once more, or the end
Retransmit(e) ==
    LET p == pcb[e]
        max == IF p.state = "SYN_SENT" THEN TCP_SYNMAXRTX ELSE TCP_MAXRTX
    IN  /\ \/ p.nrtx \in {max, TCP_MAXRTX} /\ Apply(e, Res(Closed, {}, FALSE))
           \/ /\ p.nrtx \notin {max, TCP_MAXRTX} /\ p.unacked # {}
              /\ \E r \in Outputs(e, Res(Rexmit(p), {}, FALSE)) : Apply(e, r)
        /\ UNCHANGED <<iss, calls, accepts, wrote, closed, finacked, eof>>

\* states that end by themselves; FIN_WAIT_2 only if the program has closed
TimesOut(p) ==
    \/ p.state \in {"SYN_RCVD", "LAST_ACK", "TIME_WAIT"}
    \/ p.state = "FIN_WAIT_2" /\ p.rxclosed

Expire(e) ==
    /\ TimesOut(pcb[e])
    /\ Apply(e, Res(Closed, {}, FALSE))
    /\ UNCHANGED <<iss, calls, accepts, wrote, closed, finacked, eof>>

Init ==
    /\ pcb = [e \in Ends |-> Closed]
    /\ net = {}
    /\ iss = [e \in Ends |-> IF e = "A" THEN 100 ELSE 200]
    /\ calls = 0 /\ accepts = 0
    /\ wrote = {} /\ closed = {} /\ finacked = {} /\ eof = {}
    /\ top = iss /\ reached = FALSE

Timers(e) == Retransmit(e) \/ Expire(e)

Track ==
    /\ top' = [e \in Ends |-> Max({top[e], pcb'[e].snd_nxt})]
    /\ reached' = (reached \/ \E e \in Ends : iss'[e] # iss[e] /\ iss'[e] < top[e])

Steps ==
    \/ \E m \in net : Deliver(m)
    \/ \E g \in Gaps : tcp_connect(g)
    \/ \E n \in Writes : tcp_write(n)
    \/ \E e \in Ends : tcp_recved(e) \/ tcp_close(e) \/ tcp_shutdown(e) \/ tcp_abort(e)
    \/ \E e \in Ends : Timers(e)

Next == Steps /\ Track

Spec == Init /\ [][Next]_vars

----------------------------------------------------------------------------
States == {"CLOSED", "SYN_SENT", "SYN_RCVD", "ESTABLISHED", "FIN_WAIT_1", "FIN_WAIT_2",
           "CLOSE_WAIT", "CLOSING", "LAST_ACK", "TIME_WAIT"}

Live(p) == p.state \notin {"CLOSED", "SYN_SENT", "SYN_RCVD", "TIME_WAIT"}

(***************************************************************************)
(* tcp_process: two ends that both take the connection for established are *)
(* ends of the same connection, whatever old segments arrive: each knows   *)
(* the initial number of the other.  The exception: tcp_next_iss adds only *)
(* the ticks of the clock, so a connection may begin at a number that an   *)
(* earlier one has used, and an old acknowledgement then fits its SYN.     *)
(***************************************************************************)
SameConnectionUnlessReached ==
    ~reached /\ Live(pcb["A"]) /\ Live(pcb["B"]) =>
        pcb["A"].irs = pcb["B"].iss /\ pcb["B"].irs = pcb["A"].iss

(***************************************************************************)
(* tcp_process, tcp_receive: an end is told of the end of the stream only  *)
(* if the peer has closed that connection, and after all it wrote, with    *)
(* the same exception.                                                     *)
(***************************************************************************)
EofIsRealUnlessReached ==
    ~reached => \A x \in eof :
        /\ <<Peer(x[1]), x[3]>> \in closed
        /\ x[1] = "B" => x[4] = SumSet({w[2] : w \in {v \in wrote : v[1] = x[3]}})

(***************************************************************************)
(* tcp_process: an end that takes its FIN for acknowledged, and waits only *)
(* for the peer's FIN or for nothing any more, is right: the peer has had  *)
(* the whole stream and was told of its end.  There is one exception, and  *)
(* it costs data: FIN_WAIT_1, CLOSING and LAST_ACK compare the             *)
(* acknowledgement with snd_nxt, which does not count what tcp_output has  *)
(* not sent yet, the FIN included.                                         *)
(***************************************************************************)
FinAckedUnlessUnsent ==
    \A x \in finacked : x[3] \/ \E y \in eof : y[1] = Peer(x[1]) /\ y[3] = x[2]

(***************************************************************************)
(* tcp_slowtmr: the block of a connection that its program has closed is   *)
(* never left to the peer alone: either a segment is under way whose       *)
(* retransmissions run out, or its state ends by itself.                   *)
(***************************************************************************)
ClosedHasTimer ==
    \A e \in Ends : pcb[e].rxclosed => pcb[e].unacked # {} \/ TimesOut(pcb[e])
============================================================================
