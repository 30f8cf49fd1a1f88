------------------------------ MODULE Netbuf -------------------------------
(***************************************************************************)
(* Datagrams between the stack and a program: the netbufs of netbuf.c,     *)
(* recv_udp and recv_raw of api_msg.c, and the datagram side of the        *)
(* sockets, lwip_recvfrom, lwip_sendto and lwip_close.                     *)
(*                                                                         *)
(* A netbuf owns a packet p, a chain of pbufs, and has a cursor ptr into   *)
(* it.  It belongs to the program, waits in the mailbox of the connection, *)
(* or is the datagram the socket keeps after a peek (lastdata).            *)
(***************************************************************************)
EXTENDS Integers, Sequences, FiniteSets, SequencesExt

CONSTANTS Netbufs,     \* MEMP_NETBUF
          Pbufs, Null, BoxSize, MaxDatagrams, MaxCalls

VARIABLES pool,        \* free netbufs
          free,        \* free pbufs
          p, ptr,      \* of every netbuf: its packet, its cursor
          app,         \* netbufs the program holds
          recvmbox, valid, lastdata,
          local,       \* the pbuf of the netbuf on the stack of lwip_sendto
          no, got,     \* number of a netbuf's datagram; the last one given away
          arrived, calls, odd

vars == <<pool, free, p, ptr, app, recvmbox, valid, lastdata, local, no, got, arrived, calls, odd>>

Init ==
  /\ pool = Netbufs /\ free = Pbufs
  /\ p = [b \in Netbufs |-> <<>>] /\ ptr = [b \in Netbufs |-> Null]
  /\ app = {} /\ recvmbox = <<>> /\ valid = TRUE /\ lastdata = Null /\ local = Null
  /\ no = [b \in Netbufs |-> 0] /\ got = 0 /\ arrived = 0 /\ calls = 0 /\ odd = {}

Held(b) == ToSet(p[b])

----------------------------------------------------------------------------
(* The stack *)

\* memp_malloc, the packet, and sys_mbox_trypost: or nothing is kept
Posts(packet) ==
  /\ arrived' = arrived + 1
  /\ \/ /\ pool # {} /\ valid /\ Len(recvmbox) < BoxSize
        /\ \E b \in {CHOOSE b \in pool : TRUE} :
             /\ pool' = pool \ {b}
             /\ p' = [p EXCEPT ![b] = packet]
             /\ ptr' = [ptr EXCEPT ![b] = packet[1]]
             /\ no' = [no EXCEPT ![b] = arrived + 1]
             /\ recvmbox' = Append(recvmbox, b)
        /\ free' = free \ ToSet(packet)
     \/ /\ pool = {} \/ ~valid \/ Len(recvmbox) >= BoxSize
        /\ UNCHANGED <<pool, p, ptr, no, recvmbox, free>>

\* some k pbufs of the free ones
Some(k) == SetToSeq(CHOOSE q \in SUBSET free : Cardinality(q) = k)

\* the packet itself is handed on
recv_udp ==
  /\ arrived < MaxDatagrams
  /\ \E k \in 1..2 : Cardinality(free) >= k /\ Posts(Some(k))
  /\ UNCHANGED <<app, valid, lastdata, local, got, calls, odd>>

\* a copy in one pbuf is handed on; without memory for it the packet passes by
recv_raw ==
  /\ arrived < MaxDatagrams
  /\ \/ free # {} /\ Posts(Some(1))
     \/ free = {} /\ arrived' = arrived + 1 /\ UNCHANGED <<pool, p, ptr, no, recvmbox, free>>
  /\ UNCHANGED <<app, valid, lastdata, local, got, calls, odd>>

----------------------------------------------------------------------------
(* Netbufs of the program *)

Call == calls < MaxCalls /\ calls' = calls + 1

netbuf_new ==
  /\ Call /\ pool # {}
  /\ \E b \in {CHOOSE b \in pool : TRUE} :
       /\ pool' = pool \ {b} /\ app' = app \union {b}
       /\ p' = [p EXCEPT ![b] = <<>>] /\ ptr' = [ptr EXCEPT ![b] = Null]
       /\ no' = [no EXCEPT ![b] = 0]
  /\ UNCHANGED <<free, recvmbox, valid, lastdata, local, got, arrived, odd>>

\* what netbuf_delete does with a set of netbufs
Deleted(bs) ==
  /\ pool' = pool \union bs
  /\ free' = free \union UNION {Held(b) : b \in bs}
  /\ p' = [b \in Netbufs |-> IF b \in bs THEN <<>> ELSE p[b]]
  /\ ptr' = [b \in Netbufs |-> IF b \in bs THEN Null ELSE ptr[b]]
  /\ no' = [b \in Netbufs |-> IF b \in bs THEN 0 ELSE no[b]]

netbuf_delete(b) ==
  /\ Call /\ Deleted({b}) /\ app' = app \ {b}
  /\ UNCHANGED <<recvmbox, valid, lastdata, local, got, arrived, odd>>

\* the old packet is freed first; when there is no memory, ptr still points to it
netbuf_alloc(b) ==
  /\ Call
  /\ LET left == free \union Held(b) IN
       \/ /\ left # {}
          /\ \E q \in {CHOOSE q \in left : TRUE} :
               /\ free' = left \ {q}
               /\ p' = [p EXCEPT ![b] = <<q>>] /\ ptr' = [ptr EXCEPT ![b] = q]
          /\ UNCHANGED odd
       \/ /\ free' = left
          /\ p' = [p EXCEPT ![b] = <<>>] /\ UNCHANGED ptr
          /\ odd' = IF ptr[b] # Null THEN odd \union {"stale"} ELSE odd
  /\ UNCHANGED <<pool, app, recvmbox, valid, lastdata, local, no, got, arrived>>

netbuf_ref(b) ==
  /\ Call
  /\ LET left == free \union Held(b) IN
       \/ /\ left # {}
          /\ \E q \in {CHOOSE q \in left : TRUE} :
               /\ free' = left \ {q}
               /\ p' = [p EXCEPT ![b] = <<q>>] /\ ptr' = [ptr EXCEPT ![b] = q]
       \/ /\ free' = left
          /\ p' = [p EXCEPT ![b] = <<>>] /\ ptr' = [ptr EXCEPT ![b] = Null]
  /\ UNCHANGED <<pool, app, recvmbox, valid, lastdata, local, no, got, arrived, odd>>

netbuf_free(b) ==
  /\ Call
  /\ free' = free \union Held(b)
  /\ p' = [p EXCEPT ![b] = <<>>] /\ ptr' = [ptr EXCEPT ![b] = Null]
  /\ UNCHANGED <<pool, app, recvmbox, valid, lastdata, local, no, got, arrived, odd>>


\* pbuf_cat asserts that both packets are there: the program keeps to that
netbuf_chain(h, t) ==
  /\ Call /\ h # t /\ p[h] # <<>> /\ p[t] # <<>>
  /\ pool' = pool \union {t} /\ app' = app \ {t}
  /\ p' = [p EXCEPT ![h] = p[h] \o p[t], ![t] = <<>>]
  /\ ptr' = [ptr EXCEPT ![h] = p[h][1], ![t] = Null]
  /\ no' = [no EXCEPT ![t] = 0]
  /\ UNCHANGED <<free, recvmbox, valid, lastdata, local, got, arrived, odd>>

netbuf_next(b) ==
  /\ Call /\ ptr[b] \in Held(b)
  /\ LET i == CHOOSE i \in 1..Len(p[b]) : p[b][i] = ptr[b]
     IN ptr' = [ptr EXCEPT ![b] = IF i = Len(p[b]) THEN @ ELSE p[b][i + 1]]
  /\ UNCHANGED <<pool, free, p, app, recvmbox, valid, lastdata, local, no, got, arrived, odd>>

netbuf_first(b) ==
  /\ Call
  /\ ptr' = [ptr EXCEPT ![b] = IF p[b] = <<>> THEN Null ELSE p[b][1]]
  /\ UNCHANGED <<pool, free, p, app, recvmbox, valid, lastdata, local, no, got, arrived, odd>>

----------------------------------------------------------------------------
(* Receiving, sending and closing *)

\* a datagram goes to the program as its own netbuf (a program that has peeked at
\* a datagram through the socket reads it there)
netconn_recv ==
  /\ Call /\ valid /\ recvmbox # <<>> /\ lastdata = Null
  /\ app' = app \union {Head(recvmbox)}
  /\ recvmbox' = Tail(recvmbox)
  /\ got' = no[Head(recvmbox)]
  /\ UNCHANGED <<pool, free, p, ptr, valid, lastdata, local, no, arrived, odd>>

\* a peek keeps the datagram as lastdata, a read deletes it, read to its end or not
lwip_recvfrom(peek) ==
  /\ Call /\ valid /\ (lastdata # Null \/ recvmbox # <<>>)
  /\ LET b == IF lastdata # Null THEN lastdata ELSE Head(recvmbox) IN
       /\ recvmbox' = IF lastdata # Null THEN recvmbox ELSE Tail(recvmbox)
       /\ lastdata' = IF peek THEN b ELSE Null
       /\ got' = IF peek THEN got ELSE no[b]
       /\ IF peek THEN UNCHANGED <<pool, free, p, ptr, no>> ELSE Deleted({b})
  /\ UNCHANGED <<app, valid, local, arrived, odd>>

\* a netbuf on the stack refers to the data while the stack's thread sends it
lwip_sendto ==
  /\ Call /\ local = Null /\ valid /\ free # {}
  /\ local' = CHOOSE q \in free : TRUE
  /\ free' = free \ {local'}
  /\ UNCHANGED <<pool, p, ptr, app, recvmbox, valid, lastdata, no, got, arrived, odd>>

Sent ==
  /\ local # Null
  /\ free' = free \union {local} /\ local' = Null
  /\ UNCHANGED <<pool, p, ptr, app, recvmbox, valid, lastdata, no, got, arrived, calls, odd>>

\* netconn_drain deletes what waits, free_socket what was peeked at
lwip_close ==
  /\ Call /\ valid
  /\ Deleted(ToSet(recvmbox) \union ({lastdata} \ {Null}))
  /\ recvmbox' = <<>> /\ valid' = FALSE /\ lastdata' = Null
  /\ UNCHANGED <<app, local, got, arrived, odd>>

----------------------------------------------------------------------------

Program ==
  \/ netbuf_new \/ netconn_recv \/ lwip_sendto \/ lwip_close
  \/ \E peek \in BOOLEAN : lwip_recvfrom(peek)
  \/ \E b \in app : \/ netbuf_delete(b) \/ netbuf_alloc(b) \/ netbuf_ref(b) \/ netbuf_free(b)
                    \/ netbuf_next(b) \/ netbuf_first(b)
                    \/ \E t \in app : netbuf_chain(b, t)

\* the thread that sends is in lwip_sendto until its datagram is sent
Next == recv_udp \/ recv_raw \/ Sent \/ (local = Null /\ Program)
Spec == Init /\ [][Next]_vars

----------------------------------------------------------------------------

TypeOK ==
  /\ pool \subseteq Netbufs /\ free \subseteq Pbufs /\ app \subseteq Netbufs
  /\ p \in [Netbufs -> Seq(Pbufs)] /\ ptr \in [Netbufs -> Pbufs \union {Null}]
  /\ valid \in BOOLEAN /\ got \in 0..MaxDatagrams

\* Every netbuf is in one place, and every pbuf is free or in the packet of one
\* netbuf: nothing leaks and nothing is freed while somebody still has it,
\* through chaining, peeking, dropping at a full mailbox and closing.
EverythingOwned ==
  /\ Netbufs \ pool = app \union ToSet(recvmbox) \union ({lastdata} \ {Null})
  /\ Pbufs \ free = UNION {Held(b) : b \in Netbufs} \union ({local} \ {Null})
  /\ \A b, c \in Netbufs : b # c => Held(b) \intersect Held(c) = {}
  /\ \A b \in pool : p[b] = <<>>

\* The cursor of a netbuf points into its packet (netbuf_data reads through it),
\* unless an allocation for the netbuf has failed: netbuf_alloc then leaves it
\* on the packet it has freed, which netbuf_ref does not (netbuf.c:116, 158).
CursorInsideUnlessFailed ==
  \/ "stale" \in odd
  \/ \A b \in Netbufs \ pool : IF p[b] = <<>> THEN ptr[b] = Null ELSE ptr[b] \in Held(b)

\* Datagrams are given away in the order of their arrival, each once.
WaitingLater ==
  LET waiting == IF lastdata = Null THEN recvmbox ELSE <<lastdata>> \o recvmbox
  IN /\ \A i \in 1..Len(waiting) : no[waiting[i]] > got
     /\ \A i, j \in 1..Len(waiting) : i < j => no[waiting[i]] < no[waiting[j]]
=============================================================================
