-------------------------------- MODULE Netif -------------------------------
(***************************************************************************)
(* Network interfaces of lwIP (core/netif.c): the list of interfaces, its  *)
(* default, their numbers and addresses with the connections bound to      *)
(* them, and the queue of packets an interface sends to itself.            *)
(*                                                                         *)
(* A packet is a chain of buffers; the queue links all of them.  Delivery  *)
(* of a packet may send another to the same interface, as an answer does.  *)
(***************************************************************************)
EXTENDS Integers, Sequences, SequencesExt

CONSTANTS
    Netifs, Addrs, NoAddr, NoNetif,
    NumWrap,       \* netif_num counts modulo this (2^8)
    MaxPbufs,      \* LWIP_LOOPBACK_MAX_PBUFS, 0 for no limit
    CntWrap,       \* loop_cnt_current counts modulo this (2^8)
    MaxLoop,       \* bound: packets sent to themselves
    MaxCalls       \* bound: other calls

VARIABLES
    list,          \* netif_list
    default,       \* netif_default
    netif_num, num,
    addr, up,
    conns,         \* local addresses of active TCP connections
    queue,         \* loop_first .. loop_last: the packet and size of every buffer
    cnt,           \* loop_cnt_current
    got,           \* packets passed to ip_input, in order
    sent, calls,
    odd            \* ghost: what the properties except

vars == <<list, default, netif_num, num, addr, up, conns, queue, cnt, got, sent, calls, odd>>

Listed == ToSet(list)

(***************************************************************************)
(* Interfaces and addresses.                                               *)
(***************************************************************************)
\* netif_set_ipaddr: connections from the old address are aborted
Conns(n, a) == IF a = addr[n] THEN conns ELSE conns \ {addr[n]}

\* netif_add: it takes a number even if its init function fails
netif_add(n, a, ok) ==
    /\ n \notin Listed
    /\ num' = [num EXCEPT ![n] = netif_num]
    /\ netif_num' = (netif_num + 1) % NumWrap
    /\ odd' = IF netif_num + 1 = NumWrap THEN odd \cup {"wrapped"} ELSE odd
    /\ addr' = [addr EXCEPT ![n] = a] /\ up' = up \ {n}
    /\ list' = IF ok THEN <<n>> \o list ELSE list
    /\ queue' = [queue EXCEPT ![n] = <<>>] /\ cnt' = [cnt EXCEPT ![n] = 0]
    /\ UNCHANGED <<default, conns, got, sent>>

\* netif_remove: connections from its address stay
netif_remove(n) ==
    /\ n \in Listed
    /\ up' = up \ {n}
    /\ list' = SelectSeq(list, LAMBDA m : m # n)
    /\ default' = IF default = n THEN NoNetif ELSE default
    /\ odd' = IF addr[n] \in conns THEN odd \cup {"removed"} ELSE odd
    /\ UNCHANGED <<netif_num, num, addr, conns, queue, cnt, got, sent>>

netif_set_ipaddr(n, a) ==
    /\ n \in Listed
    /\ conns' = Conns(n, a)
    /\ addr' = [addr EXCEPT ![n] = a]
    /\ UNCHANGED <<list, default, netif_num, num, up, queue, cnt, got, sent, odd>>

netif_set_default(n) ==
    /\ n \in Listed /\ default' = n
    /\ UNCHANGED <<list, netif_num, num, addr, up, conns, queue, cnt, got, sent, odd>>

netif_set_up(n) ==
    /\ n \in Listed \ up /\ up' = up \cup {n}
    /\ UNCHANGED <<list, default, netif_num, num, addr, conns, queue, cnt, got, sent, odd>>

netif_set_down(n) ==
    /\ n \in up /\ up' = up \ {n}
    /\ UNCHANGED <<list, default, netif_num, num, addr, conns, queue, cnt, got, sent, odd>>

\* a connection is made through an interface that is up
Connect(n) ==
    /\ n \in up /\ n \in Listed /\ addr[n] # NoAddr /\ conns' = conns \cup {addr[n]}
    /\ UNCHANGED <<list, default, netif_num, num, addr, up, queue, cnt, got, sent, odd>>

\* netif_find: the first in the list that has the number
Found(k) == {i \in 1 .. Len(list) : num[list[i]] = k}
netif_find(k) ==
    IF Found(k) = {} THEN NoNetif ELSE list[CHOOSE i \in Found(k) : \A j \in Found(k) : i <= j]

(***************************************************************************)
(* Packets of an interface to itself.                                      *)
(***************************************************************************)
Buffers(p, clen) == [i \in 1 .. clen |-> [packet |-> p, last |-> i = clen]]

\* netif_loop_output of a packet with clen buffers: refused over the limit
Fits(c, clen) == MaxPbufs = 0 \/ c + clen <= MaxPbufs
Output(q, c, p, clen) ==
    IF Fits(c, clen) THEN [queue |-> q \o Buffers(p, clen), cnt |-> (c + clen) % CntWrap]
    ELSE [queue |-> q, cnt |-> c]

netif_loop_output(n, clen) ==
    LET r == Output(queue[n], cnt[n], sent + 1, clen)
    IN  /\ n \in Listed /\ sent < MaxLoop
        /\ sent' = sent + 1
        /\ queue' = [queue EXCEPT ![n] = r.queue] /\ cnt' = [cnt EXCEPT ![n] = r.cnt]
        /\ UNCHANGED <<list, default, netif_num, num, addr, up, conns, got, odd>>

\* mutated: the packet ends with its first buffer
InEnd_first(q) == IF q = <<>> THEN 0 ELSE 1

\* netif_poll, one turn of the loop: the buffers up to the last of the packet,
\* while the count goes down by all that are linked behind
InEnd(q) == CHOOSE i \in 1 .. Len(q) : q[i].last /\ \A j \in 1 .. i - 1 : ~q[j].last

netif_poll(n, answers) ==
    LET q == queue[n]
        rest == SubSeq(q, InEnd(q) + 1, Len(q))
        c == (cnt[n] - Len(q)) % CntWrap
        r == IF answers THEN Output(rest, c, sent + 1, 1) ELSE [queue |-> rest, cnt |-> c]
    IN  /\ n \in Listed /\ q # <<>>
        /\ answers => sent < MaxLoop
        /\ sent' = IF answers THEN sent + 1 ELSE sent
        /\ got' = [got EXCEPT ![n] = Append(@, [packet |-> q[1].packet, clen |-> InEnd(q)])]
        /\ queue' = [queue EXCEPT ![n] = r.queue] /\ cnt' = [cnt EXCEPT ![n] = r.cnt]
        /\ odd' = IF MaxPbufs # 0 /\ rest # <<>> THEN odd \cup {"counted"} ELSE odd
        /\ UNCHANGED <<list, default, netif_num, num, addr, up, conns>>

Init ==
    /\ list = <<>> /\ default = NoNetif /\ netif_num = 0
    /\ num = [n \in Netifs |-> 0] /\ addr = [n \in Netifs |-> NoAddr] /\ up = {}
    /\ conns = {}
    /\ queue = [n \in Netifs |-> <<>>] /\ cnt = [n \in Netifs |-> 0]
    /\ got = [n \in Netifs |-> <<>>]
    /\ sent = 0 /\ calls = 0 /\ odd = {}

Call(n) ==
    \/ \E a \in Addrs : netif_set_ipaddr(n, a) \/ \E ok \in BOOLEAN : netif_add(n, a, ok)
    \/ netif_remove(n) \/ netif_set_default(n) \/ netif_set_up(n) \/ netif_set_down(n) \/ Connect(n)

Loop(n) ==
    \/ \E clen \in {1, 2} : netif_loop_output(n, clen)
    \/ \E answers \in BOOLEAN : netif_poll(n, answers)

Next ==
    \E n \in Netifs :
        \/ calls < MaxCalls /\ Call(n) /\ calls' = calls + 1
        \/ Loop(n) /\ UNCHANGED calls

Spec == Init /\ [][Next]_vars

----------------------------------------------------------------------------
(***************************************************************************)
(* netif_remove, netif_set_default: the default is an interface of the     *)
(* list, and netif_find returns the one interface that has the number,     *)
(* unless more interfaces were added than netif_num can count.             *)
(***************************************************************************)
FindsOneUnlessWrapped ==
    /\ default \in Listed \cup {NoNetif}
    /\ "wrapped" \in odd \/ \A n \in Listed : netif_find(num[n]) = n

(***************************************************************************)
(* netif_set_ipaddr: a connection has an address that some interface has,  *)
(* unless its interface was removed under it.                              *)
(***************************************************************************)
ConnsHaveAddressUnlessRemoved ==
    "removed" \in odd \/ \A a \in conns : \E n \in Listed : addr[n] = a

(***************************************************************************)
(* netif_loop_output, netif_poll: packets arrive whole and in the order in *)
(* which they were sent, also those sent while one is being delivered.     *)
(***************************************************************************)
LoopInOrder ==
    \A n \in Netifs : \A i, j \in DOMAIN got[n] :
        i < j => got[n][i].packet < got[n][j].packet

(***************************************************************************)
(* netif_poll: the count is that of the buffers in the queue, unless a     *)
(* packet was taken while others were queued behind it (pbuf_clen counts   *)
(* those too, and later the count wraps below zero).                       *)
(***************************************************************************)
CountRightUnless ==
    "counted" \in odd \/ MaxPbufs = 0 \/ \A n \in Netifs : cnt[n] = Len(queue[n])
============================================================================
