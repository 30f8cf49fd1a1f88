-------------------------------- MODULE Igmp --------------------------------
(***************************************************************************)
(* Multicast group membership of lwIP (core/ipv4/igmp.c, an option that    *)
(* this build leaves out): joins and leaves of one group by the program,   *)
(* queries and the reports of other hosts on every interface, the timers   *)
(* of the reports, and a pool of entries that may run out.                 *)
(***************************************************************************)
EXTENDS Integers, Sequences, SequencesExt

CONSTANTS
    Netifs,          \* netif_list, a sequence
    PoolSize,        \* MEMP_NUM_IGMP_GROUP
    MaxResps,        \* response times of queries, at least 2
    JOIN_TMR,        \* IGMP_JOIN_DELAYING_MEMBER_TMR
    MaxUse,          \* bound: joins of an interface
    MaxCalls         \* bound: joins, leaves, and events of the interfaces

VARIABLES
    list,            \* igmp_group_list
    joins,           \* ghost: what the program has joined and not left
    asked,           \* ghost: interfaces on which the group was asked for, unanswered
    other,           \* ghost: interfaces where another host reported after this one
    calls,
    odd              \* ghost: what the properties except

vars == <<list, joins, asked, other, calls, odd>>

All == "allsystems"
Grp == "group"
Ifs == {Netifs[k] : k \in 1 .. Len(Netifs)}

\* igmp_lookfor_group: the place in the list, 0 if there is none
igmp_lookfor_group(l, n, g) ==
    LET at == {k \in 1 .. Len(l) : l[k].netif = n /\ l[k].addr = g}
    IN  IF at = {} THEN 0 ELSE CHOOSE k \in at : \A j \in at : k <= j

\* igmp_lookup_group: a new one goes to the front; <<>> if the pool is empty
Fresh(n, g) == [netif |-> n, addr |-> g, timer |-> 0, state |-> "NON_MEMBER", last |-> FALSE, use |-> 0]
igmp_lookup_group(l, n, g) ==
    CASE igmp_lookfor_group(l, n, g) # 0 -> <<l>>
      [] igmp_lookfor_group(l, n, g) = 0 /\ Len(l) < PoolSize -> << <<Fresh(n, g)>> \o l >>
      [] OTHER -> <<>>

\* igmp_start_timer: the times it may choose
igmp_start_timer(max) == 1 .. max - 1

\* igmp_delaying_member, with the time t if a timer is started
Starts(e, maxresp) ==
    \/ e.state = "IDLE"
    \/ e.state = "DELAYING" /\ (e.timer = 0 \/ maxresp < e.timer)
igmp_delaying_member(e, maxresp, t) ==
    IF Starts(e, maxresp) THEN [e EXCEPT !.timer = t, !.state = "DELAYING"] ELSE e

\* igmp_send of a report marks this host as the last reporter, if there is memory
Reported(e, ok) == IF ok THEN [e EXCEPT !.last = TRUE] ELSE e

(***************************************************************************)
(* Interfaces.                                                             *)
(***************************************************************************)
\* igmp_start
igmp_start(n) ==
    LET r == igmp_lookup_group(list, n, All)
    IN  /\ igmp_lookfor_group(list, n, All) = 0
        /\ IF r = <<>> THEN UNCHANGED list
           ELSE list' = [r[1] EXCEPT ![igmp_lookfor_group(r[1], n, All)] =
                           [@ EXCEPT !.state = "IDLE", !.use = @ + 1]]
        /\ UNCHANGED <<joins, asked, other, odd>>

\* igmp_stop: every group of the interface
igmp_stop(n) ==
    /\ list' = SelectSeq(list, LAMBDA e : e.netif # n)
    /\ joins' = [joins EXCEPT ![n] = 0]
    /\ asked' = asked \ {n} /\ other' = other \ {n}
    /\ UNCHANGED odd

\* igmp_report_groups: the interface or its link came up
igmp_report_groups(n) ==
    /\ \E t \in igmp_start_timer(JOIN_TMR) :
         list' = [k \in DOMAIN list |->
                    IF list[k].netif = n THEN igmp_delaying_member(list[k], JOIN_TMR, t) ELSE list[k]]
    /\ UNCHANGED <<joins, asked, other, odd>>

(***************************************************************************)
(* igmp_joingroup, igmp_leavegroup: on one interface or on all.            *)
(***************************************************************************)
\* the loop of igmp_joingroup over the interfaces ns, with the timer t; stops
\* where the pool is empty
RECURSIVE JoinLoop(_, _, _, _)
JoinLoop(l, ns, t, ok) ==
    IF ns = <<>> THEN [list |-> l, mem |-> TRUE, done |-> {}]
    ELSE LET n == Head(ns)
             r == igmp_lookup_group(l, n, Grp)
             k == igmp_lookfor_group(r[1], n, Grp)
             e == r[1][k]
             j == IF e.state # "NON_MEMBER" THEN e
                  ELSE [Reported(e, ok) EXCEPT !.timer = t, !.state = "DELAYING"]
             rest == JoinLoop([r[1] EXCEPT ![k] = [j EXCEPT !.use = @ + 1]], Tail(ns), t, ok)
         IN  IF r = <<>> THEN [list |-> l, mem |-> FALSE, done |-> {}]
             ELSE [rest EXCEPT !.done = @ \cup {n}]

\* a call for one interface or for all of them
Chosen(ifs) == SelectSeq(Netifs, LAMBDA n : n \in ifs)

igmp_joingroup(ifs, ok) ==
    \E t \in igmp_start_timer(JOIN_TMR) :
        LET r == JoinLoop(list, Chosen(ifs), t, ok)
        IN  /\ \A n \in ifs : joins[n] < MaxUse
            /\ list' = r.list
            /\ joins' = IF r.mem THEN [n \in Ifs |-> IF n \in ifs THEN joins[n] + 1 ELSE joins[n]]
                        ELSE joins
            /\ odd' = IF ~r.mem /\ r.done # {} THEN odd \cup {"partial"} ELSE odd
            /\ other' = other \ {n \in r.done : ok /\ igmp_lookfor_group(list, n, Grp) = 0}
            /\ UNCHANGED asked

\* mutated: the entry goes with the first leave
Left_at_once(l, n) ==
    LET k == igmp_lookfor_group(l, n, Grp)
    IN  IF k = 0 THEN l ELSE RemoveAt(l, k)

\* igmp_leavegroup: the last one goes, and tells the routers if it was the
\* last to report
Left(l, n) ==
    LET k == igmp_lookfor_group(l, n, Grp)
    IN  CASE k = 0 -> l
          [] k # 0 /\ l[k].use <= 1 -> RemoveAt(l, k)
          [] OTHER -> [l EXCEPT ![k].use = @ - 1]

igmp_leavegroup(ifs) ==
    LET l == FoldLeft(LAMBDA x, n : Left(x, n), list, Chosen(ifs))
    IN  /\ \A n \in ifs : joins[n] > 0
        /\ list' = l
        /\ joins' = [n \in Ifs |-> IF n \in ifs THEN joins[n] - 1 ELSE joins[n]]
        /\ asked' = {n \in asked : igmp_lookfor_group(l, n, Grp) # 0}
        /\ other' = {n \in other : igmp_lookfor_group(l, n, Grp) # 0}
        /\ UNCHANGED odd

(***************************************************************************)
(* igmp_input and igmp_tmr.                                                *)
(***************************************************************************)
\* a query for all groups (general) or for this one, sent to all systems or to
\* the group.  Without an entry for the destination it is dropped
Query(n, general, dest, maxresp) ==
    LET g == igmp_lookfor_group(list, n, Grp)
        heard == igmp_lookfor_group(list, n, dest) # 0
    IN  /\ g # 0
        /\ general => dest = All
        /\ \E t \in igmp_start_timer(maxresp) :
             list' = IF heard THEN [list EXCEPT ![g] = igmp_delaying_member(@, maxresp, t)] ELSE list
        /\ asked' = asked \cup {n}
        /\ odd' = IF heard THEN odd ELSE odd \cup {"deaf"}
        /\ UNCHANGED <<joins, other>>

\* the report of another host
Report(n) ==
    LET g == igmp_lookfor_group(list, n, Grp)
    IN  /\ g # 0
        /\ list' = IF list[g].state = "DELAYING"
                   THEN [list EXCEPT ![g] = [@ EXCEPT !.timer = 0, !.state = "IDLE", !.last = FALSE]]
                   ELSE list
        /\ asked' = asked \ {n} /\ other' = other \cup {n}
        /\ UNCHANGED <<joins, odd>>

\* igmp_tmr, igmp_timeout: a timer that ends sends a report, if it may and there is memory
Ends(e) == e.timer = 1 /\ e.state = "DELAYING"
igmp_tmr(ok) ==
    LET who == {list[k].netif : k \in {j \in DOMAIN list : Ends(list[j]) /\ list[j].addr = Grp}}
    IN  /\ \E k \in DOMAIN list : list[k].timer > 0
        /\ list' = [k \in DOMAIN list |->
                      IF list[k].timer = 0 THEN list[k]
                      ELSE [(IF Ends(list[k]) THEN Reported(list[k], ok) ELSE list[k])
                              EXCEPT !.timer = @ - 1]]
        /\ asked' = IF ok THEN asked \ who ELSE asked
        /\ other' = IF ok THEN other \ who ELSE other
        /\ odd' = IF ~ok /\ who \cap asked # {} THEN odd \cup {"nomem"} ELSE odd
        /\ UNCHANGED joins

Init ==
    /\ list = [k \in 1 .. Len(Netifs) |-> [Fresh(Netifs[k], All) EXCEPT !.state = "IDLE", !.use = 1]]
    /\ joins = [n \in Ifs |-> 0] /\ asked = {} /\ other = {}
    /\ calls = 0 /\ odd = {}

Call ==
    \/ \E n \in Ifs : igmp_start(n) \/ igmp_stop(n) \/ igmp_report_groups(n)
    \/ \E ifs \in {Ifs} \cup {{n} : n \in Ifs} :
         igmp_leavegroup(ifs) \/ \E ok \in BOOLEAN : igmp_joingroup(ifs, ok)

Event ==
    \/ \E n \in Ifs : Report(n)
    \/ \E n \in Ifs, general \in BOOLEAN, dest \in {All, Grp}, m \in MaxResps : Query(n, general, dest, m)
    \/ \E ok \in BOOLEAN : igmp_tmr(ok)

Next == (calls < MaxCalls /\ Call /\ calls' = calls + 1) \/ (Event /\ UNCHANGED calls)

Spec == Init /\ [][Next]_vars

----------------------------------------------------------------------------
(***************************************************************************)
(* igmp_joingroup, igmp_leavegroup: the entry of the group on an interface *)
(* counts the joins the program has not taken back, and is there only as   *)
(* long, unless a join of all interfaces found no memory after the first.  *)
(***************************************************************************)
CountsJoinsUnlessPartial ==
    \/ "partial" \in odd
    \/ \A n \in Ifs :
         LET k == igmp_lookfor_group(list, n, Grp)
         IN  IF k = 0 THEN joins[n] = 0 ELSE list[k].use = joins[n]

(***************************************************************************)
(* igmp_delaying_member: while a query is unanswered a report is pending,  *)
(* however queries, the reports of others, joins and leaves follow each    *)
(* other.  The exceptions are a query that was not heard, since the entry  *)
(* of all systems got no memory, and a report that got none.               *)
(***************************************************************************)
AnswerPendingUnless ==
    \/ {"deaf", "nomem"} \cap odd # {}
    \/ \A n \in asked : LET k == igmp_lookfor_group(list, n, Grp)
                        IN  k # 0 /\ list[k].timer > 0 /\ list[k].state = "DELAYING"

(***************************************************************************)
(* igmp_input, igmp_send: the host that tells the routers of its leave is  *)
(* the last that reported the group.                                       *)
(***************************************************************************)
LastReporter == \A k \in DOMAIN list : list[k].addr = Grp /\ list[k].last => list[k].netif \notin other
============================================================================
