------------------------------ MODULE TcpPcbs ------------------------------
(***************************************************************************)
(* The connection blocks of lwIP: the pool they come from, the four lists  *)
(* they are kept in (tcp_impl.h), the ports they own, and the timers that  *)
(* walk the list of active connections while the callbacks they call back  *)
(* may open, close and abort connections.  What the connections say to     *)
(* their peers is the matter of TcpConn.                                   *)
(*                                                                         *)
(* There is one local address.  A program binds a block once, and after    *)
(* tcp_abort in the callback of that block returns ERR_ABRT, as the        *)
(* comment on tcp_abort demands; a callback that has tcp_new kill its own  *)
(* connection returns ERR_OK.  The error callback of a connection that is  *)
(* aborted makes no calls.                                                 *)
(***************************************************************************)
EXTENDS Integers, Sequences, SequencesExt

CONSTANTS
    MEMP_NUM_TCP_PCB,   \* size of the pool of blocks
    Prios,              \* priorities of connections
    Started,            \* TCP_LOCAL_PORT_RANGE_START
    Ended,              \* TCP_LOCAL_PORT_RANGE_END
    WellKnown,          \* a port a program binds by number
    Wrap,               \* tcp_timer_ctr counts modulo this (256 in the code)
    MSL2,               \* ticks a block stays in TIME_WAIT
    Accepted,           \* how many connections were accepted before, at port WellKnown
    MaxCalls,           \* bound: calls of the programs
    MaxInputs,          \* bound: segments
    MaxTicks            \* bound: rounds of the timers

VARIABLES
    block,      \* the blocks of the pool
    bound, active, tw,  \* three lists, of block numbers
    listen,     \* ports of the listening blocks, in the order of their list
    tcp_port,   \* the last port that was chosen
    ticks,      \* tcp_ticks
    ctr,        \* tcp_timer_ctr
    changed,    \* tcp_active_pcbs_changed
    tm,         \* what the stack is doing: a timer, a segment or nothing
    calls, inputs, rounds,  \* calls, segments and rounds of the timers so far
    odd         \* ghost: "boundabort", "lostport", "closedunread", "killedself", "cutoff":
                \* see the properties

vars == <<block, bound, active, tw, listen, tcp_port, ticks, ctr, changed, tm, calls, inputs, rounds, odd>>

lists == <<bound, active, tw>>
Ids == 1 .. MEMP_NUM_TCP_PCB
None == 0

Free == [st |-> "FREE", port |-> 0, prio |-> 0, tmr |-> 0, last |-> 0, held |-> FALSE, new |-> TRUE]

Idle == [at |-> "idle", pcb |-> None, prev |-> None, next |-> None, abrt |-> FALSE,
         killed |-> FALSE, restarted |-> FALSE]

IsActive(i) == block[i].st \notin {"FREE", "CLOSED", "TIME_WAIT"}

\* what follows a block in a list
NextIn(list, i) ==
    LET k == CHOOSE k \in 1 .. Len(list) : list[k] = i
    IN  IF k = Len(list) THEN None ELSE list[k + 1]

FirstOf(list) == IF list = <<>> THEN None ELSE list[1]

\* TCP_RMV: no effect on a list that does not hold the block
TCP_RMV(list, i) == SelectSeq(list, LAMBDA j : j # i)

\* tcp_input moves the block of a segment to the front
ToFront(list, i) == <<i>> \o TCP_RMV(list, i)

(***************************************************************************)
(* Ports.                                                                  *)
(***************************************************************************)
PortsInUse == {block[i].port : i \in ToSet(bound) \cup ToSet(active) \cup ToSet(tw)}
              \cup ToSet(listen)

\* tcp_new_port: the next port that no list holds, 0 after a whole round
RECURSIVE TryPort(_, _)
TryPort(last, n) ==
    LET p == IF last = Ended THEN Started ELSE last + 1
    IN  IF p \notin PortsInUse THEN [port |-> p, last |-> p]
        ELSE IF n + 1 > Ended - Started THEN [port |-> 0, last |-> p]
        ELSE TryPort(p, n + 1)

tcp_new_port == TryPort(tcp_port, 0)

(***************************************************************************)
(* Blocks.                                                                 *)
(***************************************************************************)
\* tcp_kill_timewait and tcp_kill_prio: the last of the longest inactive; a
\* lower priority on the way lowers the bound
Oldest(i, j) == ticks - block[i].tmr >= ticks - block[j].tmr

tcp_kill_timewait ==
    FoldLeft(LAMBDA v, i : IF v = None \/ Oldest(i, v) THEN i ELSE v, None, tw)

tcp_kill_prio(prio) ==
    FoldLeft(LAMBDA v, i : IF /\ block[i].prio <= prio
                              /\ v = None \/ (block[i].prio <= block[v].prio /\ Oldest(i, v))
                           THEN i ELSE v, None, active)

\* tcp_alloc: the block to take, and the connection that goes for it
tcp_alloc(prio) ==
    LET free == {i \in Ids : block[i].st = "FREE"}
    IN  IF free # {} THEN [id |-> CHOOSE i \in free : \A j \in free : i <= j, kill |-> FALSE]
        ELSE IF tw # <<>> THEN [id |-> tcp_kill_timewait, kill |-> TRUE]
        ELSE [id |-> tcp_kill_prio(prio), kill |-> TRUE]

NewBlock(st, port, prio) ==
    [st |-> st, port |-> port, prio |-> prio, tmr |-> ticks, last |-> ctr, held |-> TRUE,
     new |-> TRUE]

\* the mutated form: a timer is not told of a connection that was removed
TCP_RMV_ACTIVE_silent(i) == active' = TCP_RMV(active, i) /\ UNCHANGED changed

\* the list of active connections is changed: the timers start again
TCP_REG_ACTIVE(a, i) == active' = <<i>> \o a /\ changed' = TRUE
TCP_RMV_ACTIVE(i)    == active' = TCP_RMV(active, i) /\ changed' = TRUE

\* the stack runs program code: between segments and ticks, or in a callback
Callbacks == {"slow_err", "slow_poll", "fast_recv", "in_recv", "in_err"}
Program == tm.at \in {"idle"} \cup Callbacks /\ calls < MaxCalls /\ calls' = calls + 1

\* the callback that runs is that of block i
Calling(i) == tm.at \in Callbacks /\ tm.pcb = i /\ ~tm.killed

(***************************************************************************)
(* The calls of programs.                                                  *)
(***************************************************************************)
\* tcp_new
tcp_new(prio) ==
    LET r == tcp_alloc(prio)
        own == r.kill /\ Calling(r.id)
    IN  /\ Program /\ r.id # None
        /\ block' = [block EXCEPT ![r.id] = NewBlock("CLOSED", 0, prio)]
        /\ tw' = TCP_RMV(tw, r.id)
        /\ IF r.kill /\ tw = <<>> THEN TCP_RMV_ACTIVE(r.id) ELSE UNCHANGED <<active, changed>>
        /\ tm' = IF own THEN [tm EXCEPT !.killed = TRUE] ELSE tm
        /\ odd' = IF own THEN odd \cup {"killedself"} ELSE odd
        /\ UNCHANGED <<bound, listen, tcp_port, ticks, ctr, inputs, rounds>>

Unbound(i) == block[i].st = "CLOSED" /\ block[i].held /\ block[i].port = 0

\* tcp_bind: to a port by number unless it is in use, or to a new one
tcp_bind(i, port) ==
    LET n == tcp_new_port
        p == IF port = 0 THEN n.port ELSE port
    IN  /\ Program /\ Unbound(i)
        /\ p # 0 /\ p \notin PortsInUse
        /\ block' = [block EXCEPT ![i].port = p]
        /\ bound' = <<i>> \o bound
        /\ tcp_port' = IF port = 0 THEN n.last ELSE tcp_port
        /\ UNCHANGED <<active, tw, listen, ticks, ctr, changed, tm, inputs, rounds, odd>>

\* tcp_listen_with_backlog: a smaller block takes the place of this one
tcp_listen(i) ==
    /\ Program /\ block[i].st = "CLOSED" /\ block[i].held /\ i \in ToSet(bound)
    /\ listen' = <<block[i].port>> \o listen
    /\ bound' = TCP_RMV(bound, i)
    /\ block' = [block EXCEPT ![i] = Free]
    /\ UNCHANGED <<active, tw, tcp_port, ticks, ctr, changed, tm, inputs, rounds, odd>>

\* tcp_connect: without memory for the SYN (ok = FALSE) the block stays
\* closed, and keeps the port it was given
tcp_connect(i, ok) ==
    LET n == tcp_new_port
        given == block[i].port = 0
        p == IF given THEN n.port ELSE block[i].port
    IN  /\ Program /\ block[i].st = "CLOSED" /\ block[i].held /\ p # 0
        /\ tcp_port' = IF given THEN n.last ELSE tcp_port
        /\ block' = [block EXCEPT ![i].port = p, ![i].st = IF ok THEN "SYN_SENT" ELSE @]
        /\ IF ok THEN bound' = TCP_RMV(bound, i) /\ TCP_REG_ACTIVE(active, i)
                 ELSE UNCHANGED <<bound, active, changed>>
        /\ odd' = IF ~ok /\ given THEN odd \cup {"lostport"} ELSE odd
        /\ UNCHANGED <<tw, listen, ticks, ctr, tm, inputs, rounds>>

\* tcp_close and tcp_close_shutdown.  unread: data the program has not read; ok: there
\* is memory for the FIN, else the connection stays as it is
tcp_close(i, unread, ok) ==
    LET st == block[i].st
        reset == unread /\ st \in {"ESTABLISHED", "CLOSE_WAIT"}
        frees == st \in {"CLOSED", "SYN_SENT"} \/ (reset /\ st = "CLOSE_WAIT")
    IN  /\ Program /\ block[i].held /\ st \notin {"FREE", "TIME_WAIT"}
        /\ IF st = "SYN_SENT" \/ reset THEN TCP_RMV_ACTIVE(i) ELSE UNCHANGED <<active, changed>>
        /\ bound' = IF st = "CLOSED" THEN TCP_RMV(bound, i) ELSE bound
        /\ tw' = IF reset /\ st = "ESTABLISHED" THEN <<i>> \o tw ELSE tw
        /\ block' = [block EXCEPT ![i] =
                        IF frees THEN Free
                        ELSE IF reset THEN [@ EXCEPT !.held = FALSE, !.st = "TIME_WAIT"]
                        ELSE IF ok THEN [@ EXCEPT !.held = FALSE, !.st = "CLOSING"]
                        ELSE @]
        /\ odd' = IF reset /\ frees /\ Calling(i) THEN odd \cup {"closedunread"} ELSE odd
        /\ UNCHANGED <<listen, tcp_port, ticks, ctr, tm, inputs, rounds>>

\* tcp_close of a block that listens, which is of another pool
tcp_close_listen(port) ==
    /\ Program /\ port \in ToSet(listen)
    /\ listen' = TCP_RMV(listen, port)
    /\ UNCHANGED <<block, lists, tcp_port, ticks, ctr, changed, tm, inputs, rounds, odd>>

\* tcp_abort: the block is taken off the active list, whichever holds it
tcp_abort(i) ==
    /\ Program /\ block[i].held /\ block[i].st \notin {"FREE", "TIME_WAIT"}
    /\ TCP_RMV_ACTIVE(i)
    /\ block' = [block EXCEPT ![i] = Free]
    /\ odd' = IF i \in ToSet(bound) THEN odd \cup {"boundabort"} ELSE odd
    /\ tm' = IF Calling(i) THEN [tm EXCEPT !.abrt = TRUE] ELSE tm
    /\ UNCHANGED <<bound, tw, listen, tcp_port, ticks, ctr, inputs, rounds>>

(***************************************************************************)
(* tcp_input.                                                              *)
(***************************************************************************)
Segment == inputs < MaxInputs /\ inputs' = inputs + 1

Arrive(i) ==
    /\ tm = Idle /\ i \in ToSet(active) /\ Segment
    /\ active' = ToFront(active, i)
    /\ UNCHANGED <<bound, listen, tcp_port, ticks, ctr, changed, calls, rounds, odd>>

\* data, with or without FIN, goes to the receive callback
InputData(i, fin) ==
    /\ Arrive(i) /\ block[i].st = "ESTABLISHED"
    /\ block' = [block EXCEPT ![i].tmr = ticks, ![i].st = IF fin THEN "CLOSE_WAIT" ELSE @]
    /\ tm' = [Idle EXCEPT !.at = "in_recv", !.pcb = i]
    /\ UNCHANGED tw

\* back from the callback: unless it aborted, the block is used again
Gone == ~tm.abrt /\ (tm.killed \/ block[tm.pcb].st = "FREE")

InputReturn ==
    /\ tm.at = "in_recv"
    /\ tm' = IF Gone THEN [tm EXCEPT !.at = "usedfree"] ELSE Idle
    /\ UNCHANGED <<block, lists, listen, tcp_port, ticks, ctr, changed, calls, inputs, rounds, odd>>

\* the handshake completes; or both sides are done and the block waits
InputState(i) ==
    /\ tm = Idle
    /\ \/ /\ block[i].st = "SYN_SENT" /\ Arrive(i)
          /\ block' = [block EXCEPT ![i].st = "ESTABLISHED", ![i].tmr = ticks]
          /\ UNCHANGED <<tm, tw>>
       \/ /\ block[i].st = "CLOSING" /\ i \in ToSet(active) /\ TCP_RMV_ACTIVE(i) /\ Segment
          /\ block' = [block EXCEPT ![i].st = "TIME_WAIT", ![i].tmr = ticks]
          /\ tw' = <<i>> \o tw
          /\ UNCHANGED <<bound, listen, tcp_port, ticks, ctr, tm, calls, rounds, odd>>

\* a reset: the program is told first, then the block is removed
InputReset(i) ==
    /\ Arrive(i)
    /\ tm' = [Idle EXCEPT !.at = "in_err", !.pcb = i]
    /\ block' = [block EXCEPT ![i].held = FALSE]
    /\ UNCHANGED tw

ResetReturn ==
    /\ tm.at = "in_err"
    /\ tm' = IF Gone THEN [tm EXCEPT !.at = "usedfree"] ELSE Idle
    /\ active' = TCP_RMV(active, tm.pcb)
    /\ block' = [block EXCEPT ![tm.pcb] = IF Gone THEN @ ELSE Free]
    /\ UNCHANGED <<bound, tw, listen, tcp_port, ticks, ctr, changed, calls, inputs, rounds, odd>>

\* tcp_listen_input: a new connection, at the port that listens
InputSyn(prio) ==
    LET r == tcp_alloc(prio)
        l == Len(listen)
    IN  /\ tm = Idle /\ l > 0 /\ r.id # None /\ Segment
        /\ block' = [block EXCEPT ![r.id] = NewBlock("ESTABLISHED", listen[l], prio)]
        /\ listen' = <<listen[l]>> \o SubSeq(listen, 1, l - 1)
        /\ tw' = TCP_RMV(tw, r.id)
        /\ TCP_REG_ACTIVE(TCP_RMV(active, r.id), r.id)
        /\ UNCHANGED <<bound, tcp_port, ticks, ctr, tm, calls, rounds, odd>>

(***************************************************************************)
(* tcp_slowtmr.                                                            *)
(***************************************************************************)
Calm == UNCHANGED <<bound, tw, listen, tcp_port, ticks, ctr, calls, inputs, rounds>>
Quiet == Calm /\ UNCHANGED odd

slowtmr ==
    /\ tm = Idle /\ rounds < MaxTicks
    /\ rounds' = rounds + 1 /\ ticks' = ticks + 1 /\ ctr' = (ctr + 1) % Wrap
    /\ tm' = [Idle EXCEPT !.at = "slow", !.pcb = FirstOf(active)]
    /\ UNCHANGED <<block, lists, listen, tcp_port, changed, calls, inputs, odd>>

\* a block that was handled in this round: passed over, and prev stays
SlowSkip ==
    /\ tm.at = "slow" /\ tm.pcb # None /\ block[tm.pcb].last = ctr
    /\ tm' = [tm EXCEPT !.pcb = NextIn(active, tm.pcb),
                        !.restarted = @ \/ block[tm.pcb].new]
    /\ UNCHANGED <<block, active, changed>> /\ Quiet

Handled(i) == [block EXCEPT ![i].last = ctr, ![i].new = FALSE]

\* prev->next = pcb->next: what is between the two, passed over, goes as well
Unlinked(prev, i) ==
    LET at(j) == CHOOSE k \in 1 .. Len(active) : active[k] = j
        kept == IF prev = None THEN 0 ELSE at(prev)
    IN  SubSeq(active, 1, kept) \o SubSeq(active, at(i) + 1, Len(active))

\* too many retransmissions, or too long in its state: out of the list, by
\* way of prev, and the program is told
SlowRemove ==
    LET i == tm.pcb
        n == NextIn(active, i)
        right == IF tm.prev = None THEN FirstOf(active) = i ELSE FirstOf(active) # i
    IN  /\ tm.at = "slow" /\ i # None /\ block[i].last # ctr
        /\ IF right
           THEN /\ active' = Unlinked(tm.prev, i)
                /\ odd' = IF Len(active') < Len(active) - 1 THEN odd \cup {"cutoff"} ELSE odd
                /\ block' = [block EXCEPT ![i] = Free]
                /\ changed' = FALSE
                /\ tm' = [tm EXCEPT !.at = "slow_err", !.pcb = None, !.next = n]
           ELSE /\ tm' = [tm EXCEPT !.at = "panic"]
                /\ UNCHANGED <<block, active, changed, odd>>
        /\ Calm

\* otherwise it is polled
SlowPoll ==
    LET i == tm.pcb
    IN  /\ tm.at = "slow" /\ i # None /\ block[i].last # ctr
        /\ block' = Handled(i)
        /\ changed' = FALSE
        /\ tm' = [tm EXCEPT !.at = "slow_poll", !.prev = i, !.next = NextIn(active, i)]
        /\ UNCHANGED active /\ Quiet

\* back from a callback: from the start if the list has changed, else on; a
\* polled block is used once more
SlowReturn ==
    /\ tm.at \in {"slow_err", "slow_poll"}
    /\ tm' = IF changed
             THEN [tm EXCEPT !.at = "slow", !.pcb = FirstOf(active), !.prev = None,
                             !.next = None, !.abrt = FALSE, !.killed = FALSE, !.restarted = TRUE]
             ELSE IF tm.at = "slow_poll" /\ Gone
             THEN [tm EXCEPT !.at = "usedfree"]
             ELSE [tm EXCEPT !.at = "slow", !.pcb = tm.next, !.next = None]
    /\ UNCHANGED <<block, active, changed>> /\ Quiet

\* the end of the list; then the blocks in TIME_WAIT
SlowEnd ==
    LET over == {i \in ToSet(tw) : ticks - block[i].tmr > MSL2}
    IN  /\ tm.at = "slow" /\ tm.pcb = None
        /\ tw' = SelectSeq(tw, LAMBDA i : i \notin over)
        /\ block' = [i \in Ids |-> IF i \in over THEN Free ELSE block[i]]
        /\ tm' = Idle
        /\ UNCHANGED <<bound, active, listen, tcp_port, ticks, ctr, changed, calls, inputs, rounds, odd>>

(***************************************************************************)
(* tcp_fasttmr.                                                            *)
(***************************************************************************)
fasttmr ==
    /\ tm = Idle /\ rounds < MaxTicks
    /\ rounds' = rounds + 1 /\ ctr' = (ctr + 1) % Wrap
    /\ tm' = [Idle EXCEPT !.at = "fast", !.pcb = FirstOf(active)]
    /\ UNCHANGED <<block, lists, listen, tcp_port, ticks, changed, calls, inputs, odd>>

\* a block that was not handled yet: its delayed acknowledgement, and the data
\* that its program refused before
FastBlock(refused) ==
    LET i == tm.pcb
        n == NextIn(active, i)
    IN  /\ tm.at = "fast" /\ i # None /\ block[i].last # ctr
        /\ refused => block[i].st \in {"ESTABLISHED", "CLOSE_WAIT"}
        /\ block' = Handled(i)
        /\ changed' = IF refused THEN FALSE ELSE changed
        /\ tm' = IF refused THEN [tm EXCEPT !.at = "fast_recv", !.next = n]
                            ELSE [tm EXCEPT !.pcb = n]
        /\ UNCHANGED active /\ Quiet

\* tcp_process_refused_data uses the block after the callback
FastReturn ==
    /\ tm.at = "fast_recv"
    /\ tm' = IF Gone THEN [tm EXCEPT !.at = "usedfree"]
             ELSE IF changed
             THEN [tm EXCEPT !.at = "fast", !.pcb = FirstOf(active), !.next = None,
                             !.abrt = FALSE, !.killed = FALSE, !.restarted = TRUE]
             ELSE [tm EXCEPT !.at = "fast", !.pcb = tm.next, !.next = None]
    /\ UNCHANGED <<block, active, changed>> /\ Quiet

FastEnd ==
    /\ tm.at = "fast" /\ tm.pcb = None
    /\ tm' = Idle
    /\ UNCHANGED <<block, active, changed>> /\ Quiet

Init ==
    /\ \E n \in Accepted :
         /\ active = [k \in 1 .. n |-> n + 1 - k]
         /\ block = [i \in Ids |-> IF i > n THEN Free
                                  ELSE [st |-> "ESTABLISHED", port |-> WellKnown, prio |-> 1,
                                        tmr |-> 0, last |-> 0, held |-> TRUE, new |-> TRUE]]
    /\ bound = <<>> /\ tw = <<>> /\ listen = <<WellKnown>>
    /\ tcp_port = Started
    /\ ticks = 0 /\ ctr = 0 /\ changed = FALSE
    /\ tm = Idle
    /\ calls = 0 /\ inputs = 0 /\ rounds = 0 /\ odd = {}

Calls ==
    \/ \E p \in Prios : tcp_new(p)
    \/ \E i \in Ids : \/ \E p \in {0, WellKnown} : tcp_bind(i, p)
                      \/ tcp_listen(i)
                      \/ \E ok \in BOOLEAN : tcp_connect(i, ok)
                      \/ \E unread, ok \in BOOLEAN : tcp_close(i, unread, ok)
                      \/ tcp_abort(i)
    \/ \E p \in ToSet(listen) : tcp_close_listen(p)

Inputs ==
    \/ \E i \in Ids : \/ \E fin \in BOOLEAN : InputData(i, fin)
                      \/ InputState(i) \/ InputReset(i)
    \/ InputReturn \/ ResetReturn
    \/ \E p \in Prios : InputSyn(p)

Timer ==
    \/ slowtmr \/ SlowSkip \/ SlowRemove \/ SlowPoll \/ SlowReturn \/ SlowEnd
    \/ fasttmr \/ (\E refused \in BOOLEAN : FastBlock(refused)) \/ FastReturn \/ FastEnd

Next == Calls \/ Inputs \/ Timer

Spec == Init /\ [][Next]_vars

----------------------------------------------------------------------------
Distinct(s) == \A j, k \in 1 .. Len(s) : s[j] = s[k] => j = k

(***************************************************************************)
(* tcp_impl.h, the rules of the lists: a block is in the list of its state *)
(* and in no other; freed blocks are in none.  A block that is aborted     *)
(* while bound stays in the list of bound blocks.  A block that the slow   *)
(* timer passed over falls off the list when a later one is removed: its   *)
(* connection is never looked at again.                                    *)
(***************************************************************************)
ListsSaneUnless ==
    /\ Distinct(active) /\ Distinct(tw)
    /\ \A i \in Ids : /\ i \in ToSet(active) => IsActive(i)
                      /\ IsActive(i) /\ "cutoff" \notin odd => i \in ToSet(active)
                      /\ i \in ToSet(tw) <=> block[i].st = "TIME_WAIT"
                      /\ "boundabort" \notin odd =>
                            (i \in ToSet(bound) => block[i].st = "CLOSED" /\ block[i].port # 0)

(***************************************************************************)
(* tcp_bind, tcp_new_port, tcp_connect: two blocks have the same port only *)
(* if it is the port of a listener.  A connect that found no memory for    *)
(* its SYN leaves a port in no list, which is then given to another block. *)
(***************************************************************************)
PortsDistinctUnlessLost ==
    odd = {} => \A i, j \in ToSet(bound) \cup ToSet(active) \cup ToSet(tw) :
        i # j /\ block[i].port = block[j].port =>
            \E k \in {i, j} : block[k].st # "CLOSED"

(***************************************************************************)
(* tcp_slowtmr, tcp_fasttmr: the walk over the active list, whatever the   *)
(* callbacks do, stands on a block of the list; and when it ends every     *)
(* active connection has been handled in this round.                       *)
(***************************************************************************)
WalkOnTheList ==
    /\ tm.at \in {"slow", "fast"} /\ tm.pcb # None => tm.pcb \in ToSet(active)
    /\ tm.at \in {"slow", "fast"} /\ tm.pcb = None =>
            \A i \in ToSet(active) : block[i].last = ctr

(***************************************************************************)
(* tcp_slowtmr: the assertions about prev hold unless a block was passed   *)
(* over: after a restart, or one whose last_timer is a wrapped-around tick *)
(* of before it became active.  (prev is not moved past it.)               *)
(***************************************************************************)
PrevRightUnlessSkipped == tm.at = "panic" => tm.restarted

(***************************************************************************)
(* tcp_fasttmr: the loop moves on unless the block was passed over in the  *)
(* same sense: then it stays at that block for ever.                       *)
(***************************************************************************)
FastMovesUnlessSkipped ==
    tm.at = "fast" /\ tm.pcb # None =>
        block[tm.pcb].last # ctr \/ tm.restarted \/ block[tm.pcb].new

(***************************************************************************)
(* tcp_input, tcp_process_refused_data, tcp_slowtmr: after a callback the  *)
(* block is used only if it still is one.  The exceptions: the callback    *)
(* closed it with data unread after the peer's FIN; the callback opened a  *)
(* connection for which this very block was killed.                        *)
(***************************************************************************)
NotUsedWhenFreeUnless == tm.at = "usedfree" => odd \cap {"closedunread", "killedself"} # {}
============================================================================
