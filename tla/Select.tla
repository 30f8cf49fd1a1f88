------------------------------ MODULE Select -------------------------------
(***************************************************************************)
(* lwip_select and event_callback of sockets.c: threads that wait for      *)
(* sockets, and the thread of the stack that reports events to them.       *)
(*                                                                         *)
(* Both sides work in short protected sections (SYS_ARCH_PROTECT), and     *)
(* each section is a step: a select looks at one socket after the other,   *)
(* links itself into select_cb_list, counts itself at every socket, looks  *)
(* again, sleeps, and takes everything back; event_callback leaves the     *)
(* section after every entry of the list and starts again when             *)
(* select_cb_ctr shows that the list has changed.                          *)
(***************************************************************************)
EXTENDS Integers, Sequences, FiniteSets, SequencesExt

CONSTANTS Threads, None,
          NUM_SOCKETS,
          Waited,      \* the sockets a thread selects for reading
          Closes,      \* sockets may be closed and opened by another thread
          Timeouts,    \* a select may have a timeout
          MaxEvents, MaxSelects

Socks == 1..NUM_SOCKETS

VARIABLES sock,          \* conn, rcvevent and select_waiting of each socket
          select_cb_list, select_cb_ctr,
          th,            \* where each thread's select stands
          walk,          \* event_callback: the socket, the entry, the counter it saw
          events, selects, bad, odd

vars == <<sock, select_cb_list, select_cb_ctr, th, walk, events, selects, bad, odd>>

Resting == [at |-> "idle", i |-> 0, found |-> {}, sem |-> 0, signalled |-> FALSE, ready |-> {}]
NoWalk == [s |-> 0, scb |-> None, ctr |-> 0]

Init ==
  /\ sock = [s \in Socks |-> [conn |-> TRUE, rcvevent |-> 0, select_waiting |-> 0]]
  /\ select_cb_list = <<>> /\ select_cb_ctr = 0
  /\ th = [t \in Threads |-> Resting]
  /\ walk = NoWalk
  /\ events = 0 /\ selects = 0 /\ bad = {} /\ odd = {}

----------------------------------------------------------------------------
(* lwip_select *)

\* the next socket of the loop after i that is in the set, or 0
NextSock(t, i) == IF \E s \in Waited[t] : s > i
                  THEN CHOOSE s \in Waited[t] : s > i /\ \A u \in Waited[t] : u > i => s <= u
                  ELSE 0

First(t) == NextSock(t, 0)
At(t, place, i, found) == [th EXCEPT ![t].at = place, ![t].i = i, ![t].found = found]

lwip_select(t) ==
  /\ th[t].at = "idle" /\ selects < MaxSelects
  /\ selects' = selects + 1
  /\ th' = [th EXCEPT ![t] = [Resting EXCEPT !.at = "scan1", !.i = First(t)]]
  /\ UNCHANGED <<sock, select_cb_list, select_cb_ctr, walk, events, bad, odd>>

\* what follows a look at the sockets that found the set f
AfterScan(t, place, f) ==
  CASE place = "scan1" -> IF f # {} THEN At(t, "return", 0, f) ELSE At(t, "link", 0, {})
    [] place = "scan2" -> IF f # {} THEN At(t, "less", First(t), f) ELSE At(t, "wait", 0, {})
    [] place = "scan3" -> At(t, "return", 0, f)

lwip_selscan(t) ==
  /\ th[t].at \in {"scan1", "scan2", "scan3"}
  /\ LET i == th[t].i
         f == IF sock[i].conn /\ sock[i].rcvevent > 0 THEN th[t].found \union {i} ELSE th[t].found
         n == NextSock(t, i)
     IN th' = IF n = 0 THEN AfterScan(t, th[t].at, f) ELSE At(t, th[t].at, n, f)
  /\ UNCHANGED <<sock, select_cb_list, select_cb_ctr, walk, events, selects, bad, odd>>

\* the entry is put in front of the list
Link(t) ==
  /\ th[t].at = "link"
  /\ select_cb_list' = <<t>> \o select_cb_list
  /\ select_cb_ctr' = select_cb_ctr + 1
  /\ th' = At(t, "more", First(t), {})
  /\ UNCHANGED <<sock, walk, events, selects, bad, odd>>

\* select_waiting of one socket, up or down; the assertions on it
Count(t, place, d, after) ==
  /\ th[t].at = place
  /\ LET i == th[t].i
         n == NextSock(t, i)
     IN /\ sock' = IF sock[i].conn THEN [sock EXCEPT ![i].select_waiting = @ + d] ELSE sock
        /\ bad' = IF ~sock[i].conn \/ sock[i].select_waiting + d < 0
                  THEN bad \union {"socket closed under select"} ELSE bad
        /\ th' = IF n = 0 THEN after ELSE At(t, place, n, th[t].found)
  /\ UNCHANGED <<select_cb_list, select_cb_ctr, walk, events, selects, odd>>

Register(t) == Count(t, "more", 1, At(t, "scan2", First(t), {}))
Unregister(t) == Count(t, "less", -1, At(t, "unlink", 0, th[t].found))

\* sys_arch_sem_wait, and its giving up
Wait(t) ==
  /\ th[t].at = "wait" /\ th[t].sem = 1
  /\ th' = [At(t, "less", First(t), {}) EXCEPT ![t].sem = 0]
  /\ UNCHANGED <<sock, select_cb_list, select_cb_ctr, walk, events, selects, bad, odd>>

TimedOut(t) ==
  /\ Timeouts /\ th[t].at = "wait"
  /\ th' = [At(t, "less", First(t), {}) EXCEPT ![t].ready = {0}]
  /\ UNCHANGED <<sock, select_cb_list, select_cb_ctr, walk, events, selects, bad, odd>>

Unlink(t) ==
  /\ th[t].at = "unlink"
  /\ select_cb_list' = SelectSeq(select_cb_list, LAMBDA u : u # t)
  /\ select_cb_ctr' = select_cb_ctr + 1
  /\ th' = IF th[t].ready = {0} THEN At(t, "return", 0, {}) ELSE At(t, "scan3", First(t), {})
  /\ UNCHANGED <<sock, walk, events, selects, bad, odd>>

Return(t) ==
  /\ th[t].at = "return"
  /\ th' = [th EXCEPT ![t] = [Resting EXCEPT !.ready = th[t].found]]
  /\ UNCHANGED <<sock, select_cb_list, select_cb_ctr, walk, events, selects, bad, odd>>

----------------------------------------------------------------------------
(* event_callback, in the thread of the stack *)

FirstEntry == IF select_cb_list = <<>> THEN None ELSE Head(select_cb_list)
After(t) == LET k == CHOOSE k \in 1..Len(select_cb_list) : select_cb_list[k] = t
            IN IF k = Len(select_cb_list) THEN None ELSE select_cb_list[k + 1]

\* an entry is signalled once, if the socket is ready and in its set
Signalled(s, t, rcv) ==
  IF ~th[t].signalled /\ rcv > 0 /\ s \in Waited[t]
  THEN [th EXCEPT ![t].signalled = TRUE, ![t].sem = 1] ELSE th

\* the walk is at entry e: it is handled, and the section is left
Visit(s, e, rcv) ==
  IF e = None THEN th' = th /\ walk' = NoWalk
  ELSE th' = Signalled(s, e, rcv) /\ walk' = [s |-> s, scb |-> e, ctr |-> select_cb_ctr]

event_callback(s, d) ==
  /\ walk = NoWalk /\ sock[s].conn
  /\ events < MaxEvents \/ d < 0
  /\ d < 0 => sock[s].rcvevent > 0
  /\ events' = IF d > 0 THEN events + 1 ELSE events
  /\ sock' = [sock EXCEPT ![s].rcvevent = @ + d]
  /\ IF sock[s].select_waiting = 0 THEN th' = th /\ walk' = walk
     ELSE Visit(s, FirstEntry, sock[s].rcvevent + d)
  /\ UNCHANGED <<select_cb_list, select_cb_ctr, selects, bad, odd>>

again ==
  /\ walk # NoWalk
  /\ IF walk.ctr # select_cb_ctr THEN Visit(walk.s, FirstEntry, sock[walk.s].rcvevent)
     ELSE Visit(walk.s, After(walk.scb), sock[walk.s].rcvevent)
  /\ UNCHANGED <<sock, select_cb_list, select_cb_ctr, events, selects, bad, odd>>

\* lwip_close and, in the same place, lwip_socket (alloc_socket) by a thread
\* that does not select; the stack reports events while the socket is there
lwip_close(s) ==
  /\ Closes /\ walk = NoWalk /\ sock[s].conn
  /\ sock' = [sock EXCEPT ![s].conn = FALSE]
  /\ odd' = IF \E t \in Threads : th[t].at # "idle" /\ s \in Waited[t]
            THEN odd \union {"closed"} ELSE odd
  /\ UNCHANGED <<select_cb_list, select_cb_ctr, th, walk, events, selects, bad>>

alloc_socket(s) ==
  /\ Closes /\ ~sock[s].conn
  /\ \A u \in Socks : u < s => sock[u].conn
  /\ sock' = [sock EXCEPT ![s] = [conn |-> TRUE, rcvevent |-> 0, select_waiting |-> 0]]
  /\ UNCHANGED <<select_cb_list, select_cb_ctr, th, walk, events, selects, bad, odd>>

----------------------------------------------------------------------------

Selecting(t) == lwip_selscan(t) \/ Link(t) \/ Register(t) \/ Unregister(t) \/ Unlink(t) \/ Return(t)

\* a program selects sockets that are open; a failed assertion stops the system
Steps ==
  \/ \E t \in Threads : \/ Selecting(t) \/ Wait(t) \/ TimedOut(t)
                        \/ (\A s \in Waited[t] : sock[s].conn) /\ lwip_select(t)
  \/ \E s \in Socks : \/ event_callback(s, 1) \/ event_callback(s, -1)
                      \/ lwip_close(s) \/ alloc_socket(s)
  \/ again

Next == bad = {} /\ Steps

Fairness ==
  /\ WF_vars(bad = {} /\ again)
  /\ \A t \in Threads : WF_vars(bad = {} /\ (Selecting(t) \/ Wait(t)))

Spec == Init /\ [][Next]_vars /\ Fairness

----------------------------------------------------------------------------

TypeOK ==
  /\ \A s \in Socks : sock[s].rcvevent \in 0..MaxEvents
                      /\ sock[s].select_waiting \in -1..Cardinality(Threads)
  /\ ToSet(select_cb_list) \subseteq Threads
  /\ \A t \in Threads : th[t].sem \in 0..1 /\ th[t].i \in 0..NUM_SOCKETS
  /\ walk.scb \in Threads \union {None}

\* A thread sleeps beside a socket that has something for it only while the
\* stack is on its way to it: no event falls between the second look of
\* lwip_select and its sleep (sockets.c:1159-1181 against 1309-1358).
OnItsWay(t) ==
  /\ walk.s \in Waited[t]
  /\ walk.ctr # select_cb_ctr \/ walk.scb = None \/ th[t].signalled
     \/ \E j, k \in 1..Len(select_cb_list) :
          j < k /\ select_cb_list[j] = walk.scb /\ select_cb_list[k] = t
NoMissedEventUnlessClosed ==
  \/ odd # {}
  \/ \A t \in Threads :
       (th[t].at = "wait" /\ th[t].sem = 0) =>
          (\A s \in Waited[t] : sock[s].rcvevent = 0) \/ OnItsWay(t)

\* A socket counts exactly the selects that have registered at it, and the
\* assertions of lwip_select hold, unless a socket is closed under a select.
Registered(t, s) ==
  /\ s \in Waited[t]
  /\ \/ th[t].at \in {"scan2", "wait"}
     \/ th[t].at = "more" /\ s < th[t].i
     \/ th[t].at = "less" /\ s >= th[t].i
CountedUnlessClosed ==
  \/ odd # {}
  \/ /\ bad = {}
     /\ \A s \in Socks :
          sock[s].select_waiting = Cardinality({t \in Threads : Registered(t, s)})

\* event_callback continues from an entry only while it is in the list: it never
\* follows the link of a select that has returned.
WalksTheList ==
  (walk # NoWalk /\ walk.ctr = select_cb_ctr) => walk.scb \in ToSet(select_cb_list)

\* A select that sleeps beside a ready socket returns (or the socket is emptied
\* again before it looks).
Sleeps == \E t \in Threads : th[t].at = "wait" /\ \E s \in Waited[t] : sock[s].rcvevent > 0
Woken == ~Sleeps \/ odd # {}
=============================================================================
