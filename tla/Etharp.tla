------------------------------- MODULE Etharp -------------------------------
(***************************************************************************)
(* Address resolution of lwIP (netif/etharp.c) on one interface, with the  *)
(* options of the build: no ARP_QUEUEING, so that a pending entry holds    *)
(* one packet, no static entries, one hint (etharp_cached_entry).          *)
(*                                                                         *)
(* Addresses are those of neighbours: other destinations are mapped to     *)
(* the gateway, broadcast and multicast need no resolution.  A packet is   *)
(* its next hop and a number; a queued packet is a copy in the heap, and   *)
(* the heap may refuse.                                                    *)
(***************************************************************************)
EXTENDS Naturals, FiniteSets

CONSTANTS
  ARP_TABLE_SIZE,
  ARP_MAXAGE, ARP_MAXPENDING, ARP_AGE_REREQUEST_USED,
  Ips, Macs,    \* neighbours, and the hardware addresses they may have
  NoIp, NoMac,
  HeapSize,     \* pbufs that the heap can hold
  MaxSends      \* bound on packets

VARIABLES
  arp_table,             \* entries: [state, ip, mac, ctime, q, netif]
  etharp_cached_entry,
  heap,                  \* PBUF_RAM in use
  sent,                  \* the frame of the last step: [ip, mac, n], or none
  count,                 \* packets given to etharp_output so far
  learnt                 \* ghost: the last address taken for every neighbour

vars == <<arp_table, etharp_cached_entry, heap, sent, count, learnt>>

Entries == 0 .. ARP_TABLE_SIZE - 1
Empty == [state |-> "EMPTY", ip |-> NoIp, mac |-> NoMac, ctime |-> 0, q |-> 0, netif |-> FALSE]

\* etharp_free_entry leaves the interface, which only an answer records
\* (without LWIP_DEBUG)
Freed(e) == [Empty EXCEPT !.netif = e.netif]
Stable(e) == e.state \in {"STABLE", "REREQUESTING"}
NoFrame == [ip |-> NoIp, mac |-> NoMac, n |-> 0]
Frame(ip, mac, n) == [ip |-> ip, mac |-> mac, n |-> n]
InUse(table) == Cardinality({i \in Entries : table[i].q # 0})

Init ==
  /\ arp_table = [i \in Entries |-> Empty]
  /\ etharp_cached_entry = 0
  /\ heap = 0 /\ sent = NoFrame /\ count = 0
  /\ learnt = [ip \in Ips |-> NoMac]
-----------------------------------------------------------------------------
(* etharp_find_entry *)

Find(ip) == {i \in Entries : arp_table[i].state # "EMPTY" /\ arp_table[i].ip = ip}
EmptyOnes == {i \in Entries : arp_table[i].state = "EMPTY"}

\* The oldest entry of a kind; of several the last one.
Oldest(S) ==
  CHOOSE i \in S : \A j \in S : \/ arp_table[j].ctime < arp_table[i].ctime
                                \/ arp_table[j].ctime = arp_table[i].ctime /\ j <= i
StableOnes == {i \in Entries : Stable(arp_table[i])}
PendingOnes == {i \in Entries : arp_table[i].state = "PENDING" /\ arp_table[i].q = 0}

\* What is recycled: stable entries first, pending ones with a packet last.
Victim ==
  IF StableOnes # {} THEN Oldest(StableOnes)
  ELSE IF PendingOnes # {} THEN Oldest(PendingOnes) ELSE Oldest(Entries)

\* The table is searched from its start.
First(S) == CHOOSE i \in S : \A j \in S : i <= j

\* The entry for ip with ETHARP_FLAG_TRY_HARD: found, empty, or recycled.
EntryFor(ip) ==
  LET found == Find(ip)
      empty == EmptyOnes
  IN IF found # {} THEN First(found) ELSE IF empty # {} THEN First(empty) ELSE Victim

\* That entry afterwards; etharp_free_entry frees the packet of a recycled one.
Found(ip) ==
  LET found == Find(ip) IN
  IF found # {} THEN arp_table[First(found)] ELSE [Freed(arp_table[EntryFor(ip)]) EXCEPT !.ip = ip]
-----------------------------------------------------------------------------
\* etharp_tmr: every entry gets older; the old and the unanswered ones go.
Aged(e) ==
  LET f == [e EXCEPT !.ctime = @ + 1] IN
  IF e.state = "EMPTY" THEN e
  ELSE IF f.ctime >= ARP_MAXAGE \/ (f.state = "PENDING" /\ f.ctime >= ARP_MAXPENDING) THEN Freed(e)
  ELSE IF f.state = "REREQUESTING" THEN [f EXCEPT !.state = "STABLE"] ELSE f

etharp_tmr ==
  /\ arp_table' = [i \in Entries |-> Aged(arp_table[i])]
  /\ heap' = InUse(arp_table')
  /\ sent' = NoFrame
  /\ UNCHANGED <<etharp_cached_entry, count, learnt>>

\* etharp_update_arp_entry: the address is known now, and the packet that waited
\* for it is sent and freed.
etharp_update_arp_entry(ip, mac, hard) ==
  LET i == EntryFor(ip) IN
  IF ~hard /\ Find(ip) = {} THEN sent' = NoFrame /\ UNCHANGED <<arp_table, heap, learnt>>
  ELSE /\ arp_table' = [arp_table EXCEPT ![i] =
                          [state |-> "STABLE", ip |-> ip, mac |-> mac, ctime |-> 0, q |-> 0, netif |-> TRUE]]
       /\ sent' = LET n == Found(ip).q IN IF n # 0 THEN Frame(ip, mac, n) ELSE NoFrame
       /\ heap' = InUse(arp_table')
       /\ learnt' = [learnt EXCEPT ![ip] = mac]

\* etharp_arp_input: requests and replies for us may take an entry, others only
\* refresh one.  (The reply to a request for us reuses the pbuf.)
etharp_arp_input(ip, mac, for_us) ==
  /\ etharp_update_arp_entry(ip, mac, for_us)
  /\ UNCHANGED <<etharp_cached_entry, count>>

\* etharp_request may fail for want of memory.
Requested == heap < HeapSize

\* etharp_query with a packet: known now, or asked for and the copy of the packet
\* kept in the place of an older one, as far as there is memory.
etharp_query(ip, n) ==
  LET i == EntryFor(ip)
      f == Found(ip)
      e == IF f.state = "EMPTY" THEN [f EXCEPT !.state = "PENDING"] ELSE f
      others == InUse([arp_table EXCEPT ![i] = e])
  IN IF Stable(e)
     THEN /\ sent' = Frame(ip, e.mac, n) /\ etharp_cached_entry' = i
          /\ UNCHANGED <<arp_table, heap>>
     ELSE /\ arp_table' = [arp_table EXCEPT ![i] = IF others < HeapSize THEN [e EXCEPT !.q = n] ELSE e]
          /\ heap' = InUse(arp_table')
          /\ sent' = NoFrame
          /\ UNCHANGED etharp_cached_entry

\* etharp_output_to_arp_index: an entry that is about to expire is asked for again.
Output(i, n) ==
  /\ arp_table' = IF arp_table[i].state = "STABLE" /\ arp_table[i].ctime >= ARP_AGE_REREQUEST_USED
                     /\ Requested
                  THEN [arp_table EXCEPT ![i].state = "REREQUESTING"] ELSE arp_table
  /\ sent' = Frame(arp_table[i].ip, arp_table[i].mac, n)
  /\ etharp_cached_entry' = i
  /\ UNCHANGED heap

Hint(ip) == Stable(arp_table[etharp_cached_entry]) /\ arp_table[etharp_cached_entry].ip = ip

\* etharp_output: the hint, else the table, else a query.
etharp_output(ip) ==
  /\ count < MaxSends
  /\ count' = count + 1
  /\ LET known == {i \in Entries : Stable(arp_table[i]) /\ arp_table[i].ip = ip} IN
     IF Hint(ip) THEN Output(etharp_cached_entry, count')
     ELSE IF known # {} THEN Output(First(known), count')
     ELSE etharp_query(ip, count')
  /\ UNCHANGED learnt

\* etharp_cleanup_netif: the pending entries in places that no answer was ever
\* written to stay, and the packets in them.
etharp_cleanup_netif ==
  /\ arp_table' = [i \in Entries |-> IF arp_table[i].netif THEN Freed(arp_table[i]) ELSE arp_table[i]]
  /\ heap' = InUse(arp_table') /\ sent' = NoFrame
  /\ UNCHANGED <<etharp_cached_entry, count, learnt>>

Next ==
  \/ etharp_tmr \/ etharp_cleanup_netif
  \/ \E ip \in Ips : etharp_output(ip)
  \/ \E ip \in Ips, mac \in Macs, for_us \in BOOLEAN : etharp_arp_input(ip, mac, for_us)

Spec == Init /\ [][Next]_vars
-----------------------------------------------------------------------------
\* No neighbour has two entries, so that no lookup finds an outdated one.
OneEntryEach ==
  \A i, j \in Entries :
    arp_table[i].state # "EMPTY" /\ arp_table[j].state # "EMPTY" /\ arp_table[i].ip = arp_table[j].ip
      => i = j

\* A packet waits only in a pending entry and is numbered there once: what
\* etharp_find_entry asserts of stable entries.
WaitsOnlyPending ==
  /\ \A i \in Entries : arp_table[i].q # 0 => arp_table[i].state = "PENDING"
  /\ heap = InUse(arp_table) /\ heap <= HeapSize

\* A frame leaves for the address learnt last for its next hop, whether it was
\* found through the hint, the table or an answer to a query, and however
\* entries were recycled in between.
SentToLatest == sent # NoFrame => sent.mac = learnt[sent.ip] /\ sent.mac # NoMac

\* A recycled entry costs a waiting packet only if every entry holds one.
DropsWaitingLastStep ==
  \A i \in Entries :
    (arp_table[i].q # 0 /\ arp_table'[i].ip \notin {NoIp, arp_table[i].ip})
      => \A j \in Entries : arp_table[j].q # 0
=============================================================================
