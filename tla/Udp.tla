-------------------------------- MODULE Udp ---------------------------------
(***************************************************************************)
(* UDP sockets of lwIP (core/udp.c): the list of bound pcbs, the search    *)
(* for a free local port, and which pcb gets a datagram.  udp_input moves  *)
(* the pcb it finds to the front of the list.                              *)
(***************************************************************************)
EXTENDS Integers, Sequences

CONSTANTS
  Pcbs,              \* elements of MEMP_UDP_PCB
  Netifs,            \* local addresses, one per interface
  Remotes,           \* addresses of other hosts
  Peers,             \* those that programs connect to
  ANY, BROADCAST,    \* IPADDR_ANY; the broadcast address of the interface at hand
  Ports,             \* local ports that programs ask for, without 0
  RemotePorts,
  UDP_LOCAL_PORT_RANGE_START, UDP_LOCAL_PORT_RANGE_END

VARIABLES
  used,                   \* pcbs that udp_new has handed out
  pcb,                    \* struct udp_pcb
  udp_pcbs,               \* the list, head first
  udp_port,
  spoilt                  \* ghost: pcbs whose bind failed half way

vars == <<used, pcb, udp_pcbs, udp_port, spoilt>>

Fresh == [local_ip |-> ANY, local_port |-> 0, remote_ip |-> ANY, remote_port |-> 0, connected |-> FALSE]
Listed == {udp_pcbs[i] : i \in 1..Len(udp_pcbs)}
Without(list, p) == SelectSeq(list, LAMBDA q : q # p)
Packets == [src : Remotes, sport : RemotePorts, dst : Netifs \union {BROADCAST}, dport : Ports, inp : Netifs]

Init ==
  /\ used = {} /\ pcb = [p \in Pcbs |-> Fresh] /\ udp_pcbs = <<>>
  /\ udp_port = UDP_LOCAL_PORT_RANGE_START /\ spoilt = {}

udp_new(p) ==
  /\ p \notin used
  /\ used' = used \union {p}
  /\ pcb' = [pcb EXCEPT ![p] = Fresh]
  /\ UNCHANGED <<udp_pcbs, udp_port, spoilt>>

\* The memory goes back to the pool; what it holds is not looked at: cleared here.
udp_remove(p) ==
  /\ p \in used
  /\ used' = used \ {p}
  /\ pcb' = [pcb EXCEPT ![p] = Fresh]
  /\ udp_pcbs' = Without(udp_pcbs, p)
  /\ spoilt' = spoilt \ {p}
  /\ UNCHANGED udp_port
-----------------------------------------------------------------------------
RangeSize == UDP_LOCAL_PORT_RANGE_END - UDP_LOCAL_PORT_RANGE_START
NextPort(q) == IF q = UDP_LOCAL_PORT_RANGE_END THEN UDP_LOCAL_PORT_RANGE_START ELSE q + 1
Taken(q) == \E p \in Listed : pcb[p].local_port = q

\* udp_new_port, with the value of the static udp_port and the count of failures.
RECURSIVE udp_new_port(_, _)
udp_new_port(q, n) ==
  IF ~Taken(NextPort(q)) THEN [port |-> NextPort(q), last |-> NextPort(q)]
  ELSE IF n + 1 > RangeSize THEN [port |-> 0, last |-> NextPort(q)]
  ELSE udp_new_port(NextPort(q), n + 1)

Clash(p, ip, port) ==
  \E q \in Listed \ {p} :
    pcb[q].local_port = port /\ (pcb[q].local_ip = ANY \/ ip = ANY \/ pcb[q].local_ip = ip)

Link(p) == IF p \in Listed THEN udp_pcbs ELSE <<p>> \o udp_pcbs

\* udp_bind: what it makes of the state.  The address is set before a port is found.
Bind(p, ip, port) ==
  LET new == udp_new_port(udp_port, 0)
      got == IF port = 0 THEN new.port ELSE port
  IN IF Clash(p, ip, port)
     THEN [ok |-> FALSE, pcb |-> pcb[p], list |-> udp_pcbs, port |-> udp_port]
     ELSE [ok |-> got # 0,
           pcb |-> [pcb[p] EXCEPT !.local_ip = ip, !.local_port = IF got = 0 THEN @ ELSE got],
           list |-> IF got = 0 THEN udp_pcbs ELSE Link(p),
           port |-> IF port = 0 THEN new.last ELSE udp_port]

udp_bind(p, ip, port) ==
  /\ p \in used
  /\ LET b == Bind(p, ip, port)
     IN /\ pcb' = [pcb EXCEPT ![p] = b.pcb]
        /\ udp_pcbs' = b.list /\ udp_port' = b.port
        /\ spoilt' = IF b.ok THEN spoilt \ {p}
                     ELSE IF b.pcb # pcb[p] THEN spoilt \union {p} ELSE spoilt
  /\ UNCHANGED used

\* What udp_connect and udp_sendto do first for a pcb without a port.
Bound(p) ==
  IF pcb[p].local_port # 0 THEN [ok |-> TRUE, pcb |-> pcb[p], list |-> udp_pcbs, port |-> udp_port]
  ELSE Bind(p, pcb[p].local_ip, 0)

udp_connect(p, ip, port) ==
  /\ p \in used
  /\ LET b == Bound(p)
     IN /\ pcb' = [pcb EXCEPT ![p] = IF ~b.ok THEN b.pcb
                                     ELSE [b.pcb EXCEPT !.remote_ip = ip, !.remote_port = port, !.connected = TRUE]]
        /\ udp_pcbs' = b.list /\ udp_port' = b.port
  /\ UNCHANGED <<used, spoilt>>

udp_disconnect(p) ==
  /\ p \in used
  /\ pcb' = [pcb EXCEPT ![p].remote_ip = ANY, ![p].remote_port = 0, ![p].connected = FALSE]
  /\ UNCHANGED <<used, udp_pcbs, udp_port, spoilt>>

\* udp_sendto; what is sent is in module Ip.
udp_sendto(p) ==
  /\ p \in used
  /\ LET b == Bound(p)
     IN /\ pcb' = [pcb EXCEPT ![p] = b.pcb]
        /\ udp_pcbs' = b.list /\ udp_port' = b.port
  /\ UNCHANGED <<used, spoilt>>
-----------------------------------------------------------------------------
LocalMatch(p, k) ==
  LET broadcast == k.dst = BROADCAST
      r == pcb[p]
  IN /\ r.local_port = k.dport
     /\ \/ r.local_ip = ANY
        \/ r.local_ip = k.dst
        \/ broadcast /\ r.local_ip = k.inp

RemoteMatch(p, k) == pcb[p].remote_port = k.sport /\ pcb[p].remote_ip \in {ANY, k.src}

FirstOf(list, P(_)) ==
  LET at == {i \in 1..Len(list) : P(list[i])}
  IN IF at = {} THEN 0 ELSE list[CHOOSE i \in at : \A j \in at : i <= j]

\* Mutant: the first socket with the port gets it, whomever it is connected to.
SearchFirst(k) == [hit |-> 0, else |-> FirstOf(udp_pcbs, LAMBDA p : LocalMatch(p, k))]

\* The loop of udp_input: a pcb connected to the sender, or else the first open one.
Search(k) ==
  [hit |-> FirstOf(udp_pcbs, LAMBDA p : LocalMatch(p, k) /\ RemoteMatch(p, k)),
   else |-> FirstOf(udp_pcbs, LAMBDA p : LocalMatch(p, k) /\ ~pcb[p].connected)]

Chosen(k) == LET s == Search(k) IN IF s.hit # 0 THEN s.hit ELSE s.else

udp_input(k) ==
  LET hit == Search(k).hit
  IN /\ udp_pcbs' = IF hit # 0 THEN <<hit>> \o Without(udp_pcbs, hit) ELSE udp_pcbs
     /\ UNCHANGED <<used, pcb, udp_port, spoilt>>

Next ==
  \/ \E p \in Pcbs :
       \/ udp_new(p) \/ udp_remove(p) \/ udp_disconnect(p) \/ udp_sendto(p)
       \/ \E ip \in Netifs \union {ANY}, port \in Ports \union {0} : udp_bind(p, ip, port)
       \/ \E ip \in Peers, port \in RemotePorts : udp_connect(p, ip, port)
  \/ \E k \in Packets : udp_input(k)

Spec == Init /\ [][Next]_vars
-----------------------------------------------------------------------------
\* The list holds every pcb once, only pcbs in use, and all of them that have a port,
\* through every order of bind, bind again, connect, remove and move to the front.
ListIsBound ==
  /\ \A i, j \in 1..Len(udp_pcbs) : udp_pcbs[i] = udp_pcbs[j] => i = j
  /\ Listed = {p \in used : pcb[p].local_port # 0}

\* No two pcbs own the same address and port, except after a bind to port 0 that found
\* no free port: udp_bind has changed the address by then, and the pcb keeps its old port.
OneOwnerUnlessSpoilt ==
  \A p, q \in Listed \ spoilt :
    p # q /\ pcb[p].local_port = pcb[q].local_port =>
      ANY \notin {pcb[p].local_ip, pcb[q].local_ip} /\ pcb[p].local_ip # pcb[q].local_ip

\* The search for a port fails only if every port of the range is taken, wherever the
\* last search ended.
FailsOnlyWhenFull ==
  udp_new_port(udp_port, 0).port = 0
    => \A q \in UDP_LOCAL_PORT_RANGE_START..UDP_LOCAL_PORT_RANGE_END : Taken(q)

\* A datagram goes to a socket connected to its sender if there is one, never to a socket
\* connected to somebody else, and it is turned away only if no socket may have it.
DeliveredRight ==
  \A k \in Packets :
    LET may == {p \in Listed : LocalMatch(p, k) /\ (RemoteMatch(p, k) \/ ~pcb[p].connected)}
        to == Chosen(k)
    IN /\ to = 0 <=> may = {}
       /\ to # 0 => to \in may
       /\ (\E p \in may : pcb[p].connected) => pcb[to].connected
=============================================================================
