------------------------------- MODULE IpFrag -------------------------------
(***************************************************************************)
(* Fragmentation and reassembly of IP datagrams (core/ipv4/ip_frag.c): a   *)
(* host that sends datagrams larger than the MTU, a router with a smaller  *)
(* MTU that fragments fragments again, and the host that reassembles them. *)
(* Between them fragments are reordered, duplicated and lost: a fragment   *)
(* that was sent may arrive at any time, any number of times or never.     *)
(*                                                                         *)
(* Lengths are those of the data behind the IP header.  Every fragment is  *)
(* one pbuf, as the driver delivers them.  ip_reass_tmr is an action,      *)
(* although nothing calls sys_check_timeouts in this build.                *)
(***************************************************************************)
EXTENDS Integers, Sequences, FiniteSets

CONSTANTS
  Datagrams,             \* 1..n, in the order of sending
  LengthOf(_),           \* their lengths
  Unit,                  \* bytes per unit of the fragment offset (8 in IP)
  MtuOf(_),              \* mtu of the interface they leave by, without the header
  RouterMtu,             \* and of the router's
  Ids,                   \* number of different ip_id
  IP_REASS_MAX_PBUFS, MEMP_NUM_REASSDATA, IP_REASS_MAXAGE

VARIABLES
  tx,                    \* the datagram that ip_frag is working on
  unsent,                \* datagrams not sent yet
  net,                   \* fragments on their way
  reassdatagrams,        \* the list of struct ip_reassdata, head first
  ip_reass_pbufcount,
  got,                   \* what the last ip_reass returned: NULL or a packet
  panic                  \* the assertion that stopped the system, or "none"

rx == <<reassdatagrams, ip_reass_pbufcount, got, panic>>
vars == <<tx, unsent, net, rx>>

Idle == [of |-> 0, id |-> 0, ofo |-> 0, omf |-> FALSE, left |-> 0, mtu |-> 0]
NULL == [new |-> 0, frags |-> <<>>]

Init ==
  /\ tx = Idle /\ unsent = Datagrams /\ net = {}
  /\ reassdatagrams = <<>> /\ ip_reass_pbufcount = 0 /\ got = NULL /\ panic = "none"
-----------------------------------------------------------------------------
\* ip_output_if hands a datagram that is too long to ip_frag.
SendDatagram(d) ==
  /\ panic = "none" /\ tx = Idle /\ d \in unsent /\ \A e \in unsent : d <= e
  /\ LengthOf(d) > MtuOf(d)
  /\ unsent' = unsent \ {d}
  /\ tx' = [of |-> d, id |-> d % Ids, ofo |-> 0, omf |-> FALSE, left |-> LengthOf(d), mtu |-> MtuOf(d)]
  /\ UNCHANGED <<net, rx>>

\* ip_forward in the router does the same with a fragment.
Forward(f) ==
  /\ panic = "none" /\ tx = Idle /\ f \in net /\ f.len > RouterMtu
  /\ tx' = [of |-> f.of, id |-> f.id, ofo |-> f.off, omf |-> f.mf, left |-> f.len, mtu |-> RouterMtu]
  /\ UNCHANGED <<unsent, net, rx>>

\* One turn of the loop of ip_frag.
Last(t) == t.left <= t.mtu
Cop(t) == IF Last(t) THEN t.left ELSE (t.mtu \div Unit) * Unit

Fragment(t) ==
  [of |-> t.of, id |-> t.id, off |-> t.ofo, len |-> Cop(t), mf |-> t.omf \/ ~Last(t)]

FragStep ==
  /\ panic = "none" /\ tx # Idle
  /\ net' = net \union {Fragment(tx)}
  /\ tx' = IF Last(tx) THEN Idle
           ELSE [tx EXCEPT !.left = @ - Cop(tx), !.ofo = @ + tx.mtu \div Unit]
  /\ UNCHANGED <<unsent, rx>>

\* No pbuf for the header: the rest of the datagram is not sent.
FragFails ==
  /\ panic = "none" /\ tx # Idle
  /\ tx' = Idle
  /\ UNCHANGED <<unsent, net, rx>>
-----------------------------------------------------------------------------
RemoveEntry(list, i) == SubSeq(list, 1, i - 1) \o SubSeq(list, i + 1, Len(list))

\* ip_reass_remove_oldest_datagram: other datagrams are dropped until enough pbufs
\* are free.  prev is the last entry that has a successor, whichever is the oldest;
\* ip_reass_free_complete_datagram asserts that it is the oldest's predecessor.
Oldest(list, others) ==
  CHOOSE i \in others : \A j \in others :
    list[i].timer < list[j].timer \/ (list[i].timer = list[j].timer /\ i >= j)

\* Mutant: the datagram the fragment belongs to may go as well.
RemoveOldestAny(list, id, freed, needed) ==
  IF list = <<>> THEN [list |-> list, freed |-> 0, panic |-> "none"]
  ELSE [list |-> SubSeq(list, 1, Len(list) - 1), freed |-> Len(list[Len(list)].frags), panic |-> "none"]

RECURSIVE ip_reass_remove_oldest_datagram(_, _, _, _)
ip_reass_remove_oldest_datagram(list, id, freed, needed) ==
  LET others == {i \in DOMAIN list : list[i].id # id}
      oldest == Oldest(list, others)
      now == freed + Len(list[oldest].frags)
      rest == RemoveEntry(list, oldest)
  IN IF others = {} THEN [list |-> list, freed |-> freed, panic |-> "none"]
     ELSE IF Len(list) > 1 /\ oldest # Len(list)
     THEN [list |-> list, freed |-> freed, panic |-> "prev->next == ipr"]
     ELSE IF now < needed /\ Cardinality(others) > 1 THEN ip_reass_remove_oldest_datagram(rest, id, now, needed)
     ELSE [list |-> rest, freed |-> now, panic |-> "none"]

\* ip_reass_enqueue_new_datagram: the entry goes to the head of the list.
NewEntry(f) ==
  [id |-> f.id, off |-> f.off, timer |-> IP_REASS_MAXAGE, frags |-> <<>>, last |-> FALSE, len |-> 0]

ip_reass_enqueue_new_datagram(list, f) ==
  LET room == IF Len(list) < MEMP_NUM_REASSDATA
              THEN [list |-> list, freed |-> 0, panic |-> "none"]
              ELSE ip_reass_remove_oldest_datagram(list, f.id, 0, 1)
      ok == room.panic = "none" /\ Len(room.list) < MEMP_NUM_REASSDATA
  IN [room EXCEPT !.list = IF ok THEN <<NewEntry(f)>> \o room.list ELSE room.list]
-----------------------------------------------------------------------------
\* ip_reass_chain_frag_into_datagram_and_validate: where the walk stops, whether the
\* fragment is linked in, and whether the datagram then counts as complete.
Stop(frags, f) ==
  LET hit == {i \in DOMAIN frags : f.start < frags[i].end}
  IN IF hit = {} THEN Len(frags) + 1 ELSE CHOOSE i \in hit : \A j \in hit : i <= j

Rejected(frags, f) ==
  LET k == Stop(frags, f)
  IN /\ k <= Len(frags)
     /\ \/ f.start >= frags[k].start
        \/ k > 1 /\ f.end > frags[k].start

Link(frags, f) ==
  LET k == Stop(frags, f)
  IN SubSeq(frags, 1, k - 1) \o <<f>> \o SubSeq(frags, k, Len(frags))

Adjacent(frags, i) == frags[i].end = frags[i + 1].start

\* The new fragment is frags[k].  What lies between it and its predecessor is only
\* compared if it was appended.
Valid(frags, k) ==
  /\ frags[1].start = 0
  /\ \A i \in 1..(Len(frags) - 1) : i # k - 1 \/ k = Len(frags) => Adjacent(frags, i)

\* What ip_reass does with entry i of a list once the fragment counts (count includes it).
Reassemble(list, count, i, f) ==
  LET new == [of |-> f.of, start |-> f.off * Unit, end |-> f.off * Unit + f.len]
      entry == [list[i] EXCEPT !.off = IF f.off = 0 THEN 0 ELSE @,
                               !.last = @ \/ ~f.mf,
                               !.len = IF f.mf THEN @ ELSE new.end]
      k == Stop(entry.frags, new)
      frags == Link(entry.frags, new)
      stays == [list EXCEPT ![i] = [entry EXCEPT !.frags = frags]]
  IN IF Rejected(entry.frags, new)
     THEN [list |-> [list EXCEPT ![i] = entry], count |-> count - 1, got |-> NULL, panic |-> "none"]
     ELSE IF ~entry.last \/ ~Valid(frags, k)
     THEN [list |-> stays, count |-> count, got |-> NULL, panic |-> "none"]
     ELSE IF Len(frags) = 1
     THEN [list |-> stays, count |-> count, got |-> NULL, panic |-> "sanity check"]
     ELSE IF frags[Len(frags)].end # entry.len
     THEN [list |-> stays, count |-> count, got |-> NULL, panic |-> "datagram end!=datagram len"]
     ELSE [list |-> RemoveEntry(list, i), count |-> count - Len(frags),
           got |-> [new |-> k, frags |-> frags], panic |-> "none"]

-----------------------------------------------------------------------------
Set(list, count, what, why) ==
  /\ reassdatagrams' = list /\ ip_reass_pbufcount' = count /\ got' = what /\ panic' = why

\* ip_reass
ip_reass(f) ==
  LET full == ip_reass_pbufcount + 1 > IP_REASS_MAX_PBUFS
      room == IF full THEN ip_reass_remove_oldest_datagram(reassdatagrams, f.id, 0, 1)
              ELSE [list |-> reassdatagrams, freed |-> 0, panic |-> "none"]
      count == ip_reass_pbufcount - room.freed
      found == {i \in DOMAIN room.list : room.list[i].id = f.id}
      grown == ip_reass_enqueue_new_datagram(room.list, f)
      list == IF found = {} THEN grown.list ELSE room.list
      freed == IF found = {} THEN grown.freed ELSE 0
      mine == {i \in DOMAIN list : list[i].id = f.id}
      r == Reassemble(list, count - freed + 1, CHOOSE i \in mine : TRUE, f)
  IN IF room.panic # "none" THEN Set(room.list, count, NULL, room.panic)
     ELSE IF full /\ (room.freed = 0 \/ count + 1 > IP_REASS_MAX_PBUFS)
     THEN Set(room.list, count, NULL, "none")
     ELSE IF found = {} /\ grown.panic # "none" THEN Set(list, count - freed, NULL, grown.panic)
     ELSE IF mine = {} THEN Set(list, count - freed, NULL, "none")
     ELSE Set(r.list, r.count, r.got, r.panic)

\* A fragment arrives at the host.
Receive(f) ==
  /\ panic = "none" /\ f \in net
  /\ ip_reass(f)
  /\ UNCHANGED <<tx, unsent, net>>

\* ip_reass_tmr: the timers of the list count down, entries at 0 go.  A datagram that
\* goes is unlinked from its real predecessor here.
ip_reass_tmr ==
  /\ panic = "none" /\ reassdatagrams # <<>>
  /\ LET alive == SelectSeq(reassdatagrams, LAMBDA e : e.timer > 0)
         gone == {i \in DOMAIN reassdatagrams : reassdatagrams[i].timer = 0}
         RECURSIVE Pbufs(_)
         Pbufs(s) == IF s = {} THEN 0
                     ELSE LET i == CHOOSE i \in s : TRUE
                          IN Len(reassdatagrams[i].frags) + Pbufs(s \ {i})
     IN Set([i \in DOMAIN alive |-> [alive[i] EXCEPT !.timer = @ - 1]],
            ip_reass_pbufcount - Pbufs(gone), NULL, "none")
  /\ UNCHANGED <<tx, unsent, net>>

Next ==
  \/ \E d \in Datagrams : SendDatagram(d)
  \/ \E f \in net : Forward(f) \/ Receive(f)
  \/ FragStep \/ FragFails \/ ip_reass_tmr

Spec == Init /\ [][Next]_vars
-----------------------------------------------------------------------------
RECURSIVE Queued(_)
Queued(list) == IF list = <<>> THEN 0 ELSE Len(Head(list).frags) + Queued(Tail(list))

\* ip_reass_pbufcount, which decides when fragments are refused and datagrams dropped,
\* is the number of pbufs in the list and within its limit, whatever was refused,
\* dropped, completed or timed out on the way.
CountRight ==
  panic = "none" =>
    /\ ip_reass_pbufcount = Queued(reassdatagrams)
    /\ ip_reass_pbufcount <= IP_REASS_MAX_PBUFS

Frags == got.frags
Whole(of) == Frags[1].start = 0 /\ Frags[Len(Frags)].end = LengthOf(of)

\* A datagram that ip_reass returns has the length that was sent and no hole, except
\* right before the fragment that completed it; without the reuse of an ip_id all of
\* its data belong to one datagram.
CompleteUnlessHoleBefore ==
  got # NULL =>
    /\ \E i \in DOMAIN Frags : Whole(Frags[i].of)
    /\ \A i \in 1..(Len(Frags) - 1) : Adjacent(Frags, i) \/ i = got.new - 1
    /\ Cardinality(Datagrams) <= Ids => \A i \in DOMAIN Frags : Frags[i].of = Frags[1].of

\* To make room for a fragment ip_reass drops other datagrams only: what has arrived
\* of the fragment's own datagram is kept or returned.
Arrived(list, id) ==
  UNION {{list[i].frags[k] : k \in DOMAIN list[i].frags} : i \in {i \in DOMAIN list : list[i].id = id}}
KeepsOwnDatagramStep ==
  ip_reass_pbufcount' <= ip_reass_pbufcount /\ got' = NULL =>
    \A f \in net : Receive(f) =>
      Arrived(reassdatagrams, f.id) \subseteq Arrived(reassdatagrams', f.id)
=============================================================================
