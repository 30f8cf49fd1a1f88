------------------------------- MODULE Timers -------------------------------
(***************************************************************************)
(* The timeouts of lwIP (core/timers.c, NO_SYS): a list in which every     *)
(* entry counts from the one before it, the first one from                 *)
(* timeouts_last_time.  Handlers arm themselves again; that of TCP does so *)
(* only while there are connections, and tcp_timer_needed starts it again. *)
(* Time is a 32-bit counter that wraps around.                             *)
(***************************************************************************)
EXTENDS Integers, Sequences

CONSTANTS
  Periodic,            \* handlers such as arp_timer that arm themselves again
  TCP, APP,            \* tcpip_tcp_timer; a handler of the application, fires once
  Interval(_),         \* their times
  MEMP_NUM_SYS_TIMEOUT,
  Wrap,                \* 2^32
  MaxPcbs

Handlers == Periodic \union {TCP, APP}

VARIABLES
  next_timeout,              \* the list
  timeouts_last_time, now,
  diff,                      \* of the running sys_check_timeouts, or NoCheck
  tcpip_tcp_timer_active,
  pcbs,                      \* how many are in tcp_active_pcbs and tcp_tw_pcbs
  rem                        \* ghost: what is left for every handler, or Off

vars == <<next_timeout, timeouts_last_time, now, diff, tcpip_tcp_timer_active, pcbs, rem>>

NoCheck == -1
Off == -1

RECURSIVE SumTo(_, _)
SumTo(l, i) == IF i = 0 THEN 0 ELSE l[i].time + SumTo(l, i - 1)

Least(S) == CHOOSE i \in S : \A j \in S : i <= j
-----------------------------------------------------------------------------
\* Mutant: the entry behind the new one keeps counting from its old predecessor.
TimeoutKeepsNext(l, h, msecs) ==
  LET at == {i \in 1..Len(l) : SumTo(l, i) > msecs}
      k == IF at = {} THEN Len(l) + 1 ELSE Least(at)
  IN SubSeq(l, 1, k - 1) \o <<[h |-> h, time |-> msecs - SumTo(l, k - 1)]>> \o SubSeq(l, k, Len(l))

\* sys_timeout: the walk subtracts the times it passes and stops before the first
\* entry that is due later.
sys_timeout(l, h, msecs) ==
  LET at == {i \in 1..Len(l) : SumTo(l, i) > msecs}
      k == IF at = {} THEN Len(l) + 1 ELSE Least(at)
      own == msecs - SumTo(l, k - 1)
  IN SubSeq(l, 1, k - 1) \o <<[h |-> h, time |-> own]>>
       \o [i \in 1..(Len(l) - k + 1) |->
             IF i = 1 THEN [l[k] EXCEPT !.time = @ - own] ELSE l[k + i - 1]]

\* sys_untimeout: the first entry of the handler goes, the next one takes its time over.
sys_untimeout(l, h) ==
  LET at == {i \in 1..Len(l) : l[i].h = h}
      k == Least(at)
  IN IF at = {} THEN l
     ELSE SubSeq(l, 1, k - 1)
            \o [i \in 1..(Len(l) - k) |->
                  IF i = 1 THEN [l[k + 1] EXCEPT !.time = @ + l[k].time] ELSE l[k + i]]

RECURSIVE ArmAll(_, _)
ArmAll(l, hs) ==
  IF hs = {} THEN l
  ELSE LET h == CHOOSE h \in hs : TRUE IN ArmAll(sys_timeout(l, h, Interval(h)), hs \ {h})

\* sys_timeouts_init
Init ==
  /\ next_timeout = ArmAll(<<>>, Periodic)
  /\ timeouts_last_time = 0 /\ now = 0 /\ diff = NoCheck
  /\ tcpip_tcp_timer_active = FALSE /\ pcbs = 0
  /\ rem = [h \in Handlers |-> IF h \in Periodic THEN Interval(h) ELSE Off]

Room(l) == Len(l) < MEMP_NUM_SYS_TIMEOUT
-----------------------------------------------------------------------------
\* The application sets and cancels its timeout outside of handlers.
AppTimeout ==
  /\ diff = NoCheck /\ rem[APP] = Off /\ Room(next_timeout)
  /\ next_timeout' = sys_timeout(next_timeout, APP, Interval(APP))
  /\ rem' = [rem EXCEPT ![APP] = Interval(APP)]
  /\ UNCHANGED <<timeouts_last_time, now, diff, tcpip_tcp_timer_active, pcbs>>

AppUntimeout ==
  /\ diff = NoCheck /\ rem[APP] # Off
  /\ next_timeout' = sys_untimeout(next_timeout, APP)
  /\ rem' = [rem EXCEPT ![APP] = Off]
  /\ UNCHANGED <<timeouts_last_time, now, diff, tcpip_tcp_timer_active, pcbs>>

NeededTest == ~tcpip_tcp_timer_active

\* A connection is registered (TCP_REG), which calls tcp_timer_needed.
PcbAdded ==
  /\ diff = NoCheck /\ pcbs < MaxPcbs /\ Room(next_timeout)
  /\ pcbs' = pcbs + 1
  /\ tcpip_tcp_timer_active' = TRUE
  /\ IF NeededTest
     THEN /\ next_timeout' = sys_timeout(next_timeout, TCP, Interval(TCP))
          /\ rem' = [rem EXCEPT ![TCP] = Interval(TCP)]
     ELSE UNCHANGED <<next_timeout, rem>>
  /\ UNCHANGED <<timeouts_last_time, now, diff>>

PcbRemoved ==
  /\ diff = NoCheck /\ pcbs > 0
  /\ pcbs' = pcbs - 1
  /\ UNCHANGED <<next_timeout, timeouts_last_time, now, diff, tcpip_tcp_timer_active, rem>>
-----------------------------------------------------------------------------
\* sys_check_timeouts is called before the clock has gone round once.
Since == (now - timeouts_last_time) % Wrap

Tick ==
  /\ diff = NoCheck /\ Since < Wrap - 1
  /\ now' = (now + 1) % Wrap
  /\ UNCHANGED <<next_timeout, timeouts_last_time, diff, tcpip_tcp_timer_active, pcbs, rem>>

\* sys_check_timeouts; the loop is left at once if nothing is due.
CheckStart ==
  /\ diff = NoCheck /\ next_timeout # <<>>
  /\ diff' = Since
  /\ UNCHANGED <<next_timeout, timeouts_last_time, now, tcpip_tcp_timer_active, pcbs, rem>>

\* What is armed again after the handler of a timeout has run, and how many
\* connections tcp_tmr leaves.
Rearms(h, left) == h \in Periodic \/ (h = TCP /\ left > 0)

\* One turn of the loop with the call of the handler.
Fire ==
  /\ diff # NoCheck /\ next_timeout # <<>> /\ next_timeout[1].time <= diff
  /\ LET t == next_timeout[1]
         left == [h \in Handlers |-> IF h = t.h \/ rem[h] = Off THEN Off ELSE rem[h] - t.time]
     IN /\ timeouts_last_time' = now
        /\ diff' = diff - t.time
        /\ pcbs' \in (IF t.h = TCP THEN 0..pcbs ELSE {pcbs})
        /\ next_timeout' = IF Rearms(t.h, pcbs') THEN sys_timeout(Tail(next_timeout), t.h, Interval(t.h))
                           ELSE Tail(next_timeout)
        /\ rem' = IF Rearms(t.h, pcbs') THEN [left EXCEPT ![t.h] = Interval(t.h)] ELSE left
        /\ tcpip_tcp_timer_active' = IF t.h = TCP /\ pcbs' = 0 THEN FALSE ELSE tcpip_tcp_timer_active
  /\ UNCHANGED now

CheckEnd ==
  /\ diff # NoCheck
  /\ next_timeout # <<>> => next_timeout[1].time > diff
  /\ diff' = NoCheck
  /\ UNCHANGED <<next_timeout, timeouts_last_time, now, tcpip_tcp_timer_active, pcbs, rem>>

Check == CheckStart \/ Fire \/ CheckEnd
Next == AppTimeout \/ AppUntimeout \/ PcbAdded \/ PcbRemoved \/ Tick \/ Check

\* Time passes, and the main loop of a system without threads calls sys_check_timeouts.
Spec == Init /\ [][Next]_vars
-----------------------------------------------------------------------------
\* The list is the set of running timeouts: in whatever order they were set, fired
\* and cancelled, the times up to an entry add up to what is left of its own time.
DeltasAddUp ==
  /\ \A i \in 1..Len(next_timeout) : SumTo(next_timeout, i) = rem[next_timeout[i].h]
  /\ \A h \in Handlers : rem[h] # Off => \E i \in 1..Len(next_timeout) : next_timeout[i].h = h

\* While there are connections, tcp_tmr is scheduled, and never twice: neither the last
\* connection going nor a new one coming around the run of the handler upsets that.
TcpTimerOnce ==
  LET n == {i \in 1..Len(next_timeout) : next_timeout[i].h = TCP}
  IN /\ \A i, j \in n : i = j
     /\ pcbs > 0 => n # {}
=============================================================================
