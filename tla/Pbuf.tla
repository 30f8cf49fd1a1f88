-------------------------------- MODULE Pbuf --------------------------------
(***************************************************************************)
(* Packet buffers of lwIP (core/pbuf.c) on top of their pools (core/memp.c) *)
(* and the heap.  A packet is a chain of pbufs linked by next; len is what *)
(* one pbuf holds, tot_len what it and its successors hold; ref counts the *)
(* callers and the pbuf in front that point to it.                         *)
(*                                                                         *)
(* The loops of pbuf_alloc and pbuf_free take one step per turn; op says   *)
(* which call is in its loop.  Which of its free elements a pool hands out *)
(* is left open.  Callers keep the rules of the library: they name pbufs   *)
(* they hold a reference to, and change only the head of a packet.         *)
(***************************************************************************)
EXTENDS Integers, TLAPS

CONSTANTS
  Pool,      \* elements of MEMP_PBUF_POOL
  Refs,      \* elements of MEMP_PBUF: PBUF_REF and PBUF_ROM
  Ram,       \* blocks of the heap that serve as PBUF_RAM
  NoPbuf,
  BUFSIZE,   \* PBUF_POOL_BUFSIZE_ALIGNED
  PbufLengths,   \* lengths asked for
  Offsets,   \* header room of the layers
  Cuts,      \* lengths that packets are shortened to
  MaxCalls   \* bound on calls

Pbufs == Pool \union Refs \union Ram

VARIABLES
  free,                  \* memp_tab, and the free blocks of the heap
  next, ref, len, tot,   \* struct pbuf (tot is tot_len)
  off,                   \* payload, counted from the end of the struct
  op,                    \* the call in its loop: [at, p, r, rem]
  held,                  \* ghost: references that callers own
  calls                  \* calls left

fields == <<next, ref, len, tot, off>>
pbufVars == <<free, fields, op, held, calls>>

NoLoop == [at |-> "idle", p |-> NoPbuf, r |-> NoPbuf, rem |-> 0]
Smaller(a, b) == IF a < b THEN a ELSE b

\* memp_init; nothing is linked and nobody holds anything.
PbufInit ==
  /\ free = Pbufs
  /\ next = [p \in Pbufs |-> NoPbuf]
  /\ ref = [p \in Pbufs |-> 0]
  /\ len = [p \in Pbufs |-> 0] /\ tot = [p \in Pbufs |-> 0] /\ off = [p \in Pbufs |-> 0]
  /\ op = NoLoop
  /\ held = [p \in Pbufs |-> 0]
  /\ calls = MaxCalls

Owns(p) == p \in Pbufs \ free /\ held[p] > 0
HasFront(p) == \E q \in Pbufs \ free : next[q] = p
PacketHead(p) == Owns(p) /\ ~HasFront(p)

\* The pbufs of a packet: what a walk along the links n from p on comes to.
WalkStaysIn(n, S) == \A q \in S : n[q] # NoPbuf => n[q] \in S
Walk(n, p) == {q \in Pbufs : \A S \in SUBSET Pbufs : p \in S /\ WalkStaysIn(n, S) => q \in S}
Chain(p) == Walk(next, p)
-----------------------------------------------------------------------------
\* A pbuf that was just taken from a pool or from the heap.
FreshPbuf(p, n, total, room) ==
  /\ free' = free \ {p}
  /\ len' = [len EXCEPT ![p] = n]
  /\ tot' = [tot EXCEPT ![p] = total]
  /\ off' = [off EXCEPT ![p] = room]

\* PBUF_RAM, PBUF_ROM and PBUF_REF: one pbuf, or NULL.
pbuf_alloc(p, length, offset) ==
  /\ op.at = "idle" /\ p \in free \ Pool
  /\ FreshPbuf(p, length, length, IF p \in Ram THEN offset ELSE 0)
  /\ next' = [next EXCEPT ![p] = NoPbuf]
  /\ ref' = [ref EXCEPT ![p] = 1]
  /\ held' = [held EXCEPT ![p] = 1]
  /\ UNCHANGED op

\* PBUF_POOL: the first pbuf; the loop goes on for the rest.
PoolFirst(p, length, offset) ==
  LET n == Smaller(length, BUFSIZE - offset) IN
  /\ op.at = "idle" /\ p \in free \intersect Pool
  /\ FreshPbuf(p, n, length, offset)
  /\ next' = [next EXCEPT ![p] = NoPbuf]
  /\ ref' = [ref EXCEPT ![p] = 1]
  /\ op' = [at |-> "alloc", p |-> p, r |-> p, rem |-> length - n]
  /\ UNCHANGED held

PoolMore(q) ==
  LET n == Smaller(op.rem, BUFSIZE) IN
  /\ op.at = "alloc" /\ op.rem > 0 /\ q \in free \intersect Pool
  /\ FreshPbuf(q, n, op.rem, 0)
  /\ next' = [next EXCEPT ![q] = NoPbuf, ![op.r] = q]
  /\ ref' = [ref EXCEPT ![q] = 1]
  /\ op' = [op EXCEPT !.r = q, !.rem = @ - n]
  /\ UNCHANGED held

\* The pool is empty: pbuf_free(p), and NULL.
PoolEmpty ==
  /\ op.at = "alloc" /\ op.rem > 0 /\ free \intersect Pool = {}
  /\ op' = [NoLoop EXCEPT !.at = "free", !.p = op.p]
  /\ UNCHANGED <<free, fields, held>>

PoolDone ==
  /\ op.at = "alloc" /\ op.rem = 0
  /\ held' = [held EXCEPT ![op.p] = 1]
  /\ op' = NoLoop
  /\ UNCHANGED <<free, fields>>
-----------------------------------------------------------------------------
\* pbuf_free: the caller gives a reference up, and the loop starts.
pbuf_free(p) ==
  /\ op.at = "idle" /\ Owns(p)
  /\ held' = [held EXCEPT ![p] = @ - 1]
  /\ op' = [NoLoop EXCEPT !.at = "free", !.p = p]
  /\ UNCHANGED <<free, fields>>

\* What a free element holds is overwritten or not looked at: it is cleared here.
Cleared(p, f, value) == IF ref[p] = 1 THEN [f EXCEPT ![p] = value] ELSE f

\* One turn: with its last reference p goes back where it came from, and its
\* successor loses one.
PbufFreeStep ==
  LET p == op.p IN
  /\ op.at = "free" /\ p # NoPbuf
  /\ ref' = [ref EXCEPT ![p] = @ - 1]
  /\ IF ref[p] = 1
     THEN free' = free \union {p} /\ op' = [op EXCEPT !.p = next[p]]
     ELSE op' = [op EXCEPT !.p = NoPbuf] /\ UNCHANGED free
  /\ next' = Cleared(p, next, NoPbuf)
  /\ len' = Cleared(p, len, 0) /\ tot' = Cleared(p, tot, 0) /\ off' = Cleared(p, off, 0)
  /\ UNCHANGED held

FreeDone ==
  /\ op.at = "free" /\ op.p = NoPbuf
  /\ op' = NoLoop
  /\ UNCHANGED <<free, fields, held>>

pbuf_ref(p) ==
  /\ op.at = "idle" /\ Owns(p)
  /\ ref' = [ref EXCEPT ![p] = @ + 1]
  /\ held' = [held EXCEPT ![p] = @ + 1]
  /\ UNCHANGED <<free, next, len, tot, off, op>>

\* Two packets become one; h's pbufs now count t as well.
Joined(h, t) ==
  /\ op.at = "idle" /\ PacketHead(h) /\ PacketHead(t) /\ h # t
  /\ tot' = [p \in Pbufs |-> IF p \in Chain(h) THEN tot[p] + tot[t] ELSE tot[p]]
  /\ \E last \in Chain(h) : next[last] = NoPbuf /\ next' = [next EXCEPT ![last] = t]
  /\ UNCHANGED <<free, len, off, op>>

\* pbuf_cat: h takes over the caller's reference to t.
pbuf_cat(h, t) ==
  /\ Joined(h, t)
  /\ held' = [held EXCEPT ![t] = @ - 1]
  /\ UNCHANGED ref

\* Mutant: h's reference to t is not counted.
ChainWithoutRef(h, t) == Joined(h, t) /\ UNCHANGED <<ref, held>>

\* pbuf_chain: h gets a reference of its own.
pbuf_chain(h, t) ==
  /\ Joined(h, t)
  /\ ref' = [ref EXCEPT ![t] = @ + 1]
  /\ UNCHANGED held

\* pbuf_dechain: p alone; its tail loses p's reference.
pbuf_dechain(p) ==
  LET q == next[p] IN
  /\ op.at = "idle" /\ PacketHead(p) /\ q # NoPbuf
  /\ tot' = [tot EXCEPT ![p] = len[p], ![q] = tot[p] - len[p]]
  /\ next' = [next EXCEPT ![p] = NoPbuf]
  /\ op' = [NoLoop EXCEPT !.at = "free", !.p = q]
  /\ UNCHANGED <<free, ref, len, off, held>>
-----------------------------------------------------------------------------
\* q is the pbuf in which packet p shortened to n ends: the first one that is
\* long enough.
Before(p, q) == tot[p] - tot[q]
ReachesTo(p, q, n) == n - Before(p, q) <= len[q]
EndsIn(p, q, n) ==
  q \in Chain(p) /\ ReachesTo(p, q, n) /\ \A r \in Chain(p) : ReachesTo(p, r, n) => r \in Chain(q)

\* pbuf_realloc: only shortens; what lies behind the new end is freed.
pbuf_realloc(p, q, n) ==
  /\ op.at = "idle" /\ PacketHead(p) /\ n < tot[p] /\ EndsIn(p, q, n)
  /\ tot' = [r \in Pbufs |->
               IF r = q THEN n - Before(p, q)
               ELSE IF r \in Chain(p) \ Chain(q) THEN tot[r] + n - tot[p] ELSE tot[r]]
  /\ len' = [len EXCEPT ![q] = n - Before(p, q)]
  /\ next' = [next EXCEPT ![q] = NoPbuf]
  /\ op' = IF next[q] = NoPbuf THEN op ELSE [NoLoop EXCEPT !.at = "free", !.p = next[q]]
  /\ UNCHANGED <<free, ref, off, held>>

\* pbuf_header by n: not more than p holds comes off, and the payload of a pbuf
\* with memory of its own stays behind its struct; that of a PBUF_REF or
\* PBUF_ROM may go anywhere.
pbuf_header(p, n) ==
  /\ op.at = "idle" /\ PacketHead(p) /\ n # 0 /\ len[p] + n >= 0
  /\ p \notin Refs => off[p] - n >= 0
  /\ off' = [off EXCEPT ![p] = @ - n]
  /\ len' = [len EXCEPT ![p] = @ + n]
  /\ tot' = [tot EXCEPT ![p] = @ + n]
  /\ UNCHANGED <<free, next, ref, op, held>>

\* pbuf_coalesce: a copy in one PBUF_RAM takes the place of a chain.
pbuf_coalesce(p, q, offset) ==
  /\ op.at = "idle" /\ PacketHead(p) /\ next[p] # NoPbuf /\ q \in free \intersect Ram
  /\ FreshPbuf(q, tot[p], tot[p], offset)
  /\ next' = [next EXCEPT ![q] = NoPbuf]
  /\ ref' = [ref EXCEPT ![q] = 1]
  /\ held' = [held EXCEPT ![p] = @ - 1, ![q] = 1]
  /\ op' = [NoLoop EXCEPT !.at = "free", !.p = p]
-----------------------------------------------------------------------------
\* What callers do, and the turns of the loops.
Call ==
  \/ \E p \in Pbufs, length \in PbufLengths, offset \in Offsets :
       pbuf_alloc(p, length, offset) \/ PoolFirst(p, length, offset)
  \/ \E p \in Pbufs : pbuf_free(p) \/ pbuf_ref(p) \/ pbuf_dechain(p)
  \/ \E h, t \in Pbufs : pbuf_cat(h, t) \/ pbuf_chain(h, t)
  \/ \E p, q \in Pbufs, n \in Cuts : pbuf_realloc(p, q, n)
  \/ \E p \in Pbufs, n \in {-1, 1} : pbuf_header(p, n)
  \/ \E p, q \in Pbufs, offset \in Offsets : pbuf_coalesce(p, q, offset)

Turn == PoolEmpty \/ PoolDone \/ PbufFreeStep \/ FreeDone \/ \E q \in Pbufs : PoolMore(q)

PbufNext ==
  \/ Call /\ calls > 0 /\ calls' = calls - 1
  \/ Turn /\ UNCHANGED calls

PbufSpec == PbufInit /\ [][PbufNext]_pbufVars
-----------------------------------------------------------------------------
\* One for each pointer to p outside the callers: the pbuf in front, and a loop.
Pointers(p) ==
  (IF HasFront(p) THEN 1 ELSE 0) + (IF op.at # "idle" /\ op.p = p THEN 1 ELSE 0)

\* No pbuf leaks and none is freed under its users: a pbuf is free exactly if its
\* count is 0, and the count is the number of callers, pbufs in front and loops
\* that point to it, whatever was chained, cut, shortened or failed to be allocated.
RefsRight ==
  \A p \in Pbufs :
    /\ p \in free <=> ref[p] = 0
    /\ ref[p] = held[p] + Pointers(p)
    /\ \A q, r \in Pbufs \ free : next[q] = next[r] /\ next[q] # NoPbuf => q = r

\* Between calls tot_len is the sum over the rest of the packet, for shared tails too.
TotLenRight ==
  op.at = "idle" =>
    \A p \in Pbufs \ free :
      tot[p] = len[p] + (IF next[p] = NoPbuf THEN 0 ELSE tot[next[p]])

\* Headers never reach into the struct of a pbuf that has its memory behind it.
HeaderRoom == \A p \in Pbufs \ Refs : off[p] >= 0

\* What the users of a packet rely on, after any sequence of calls.
PacketBuffersOK == RefsRight /\ TotLenRight /\ HeaderRoom
-----------------------------------------------------------------------------
(* RefsRight, TotLenRight and HeaderRoom for any set of pbufs and any lengths. *)

\* What the constants are: sizes and offsets are numbers, and NULL (NoPbuf) is no pbuf.
PbufConstants ==
  /\ NoPbuf \notin Pbufs
  /\ BUFSIZE \in Nat /\ PbufLengths \subseteq Nat /\ Offsets \subseteq Nat /\ Cuts \subseteq Int

PbufTypeOK ==
  /\ free \subseteq Pbufs
  /\ next \in [Pbufs -> Pbufs \union {NoPbuf}]
  /\ ref \in [Pbufs -> Nat] /\ held \in [Pbufs -> Nat]
  /\ len \in [Pbufs -> Int] /\ tot \in [Pbufs -> Int] /\ off \in [Pbufs -> Int]
  /\ op \in [at : {"idle", "alloc", "free"}, p : Pbufs \union {NoPbuf}, r : Pbufs \union {NoPbuf}, rem : Int]

\* tot_len of p is the sum that it should be; the last pbuf of a packet that is
\* still being allocated counts what is to come.
Sum(p) ==
  tot[p] = len[p] + (IF op.at = "alloc" /\ p = op.r THEN op.rem
                     ELSE IF next[p] = NoPbuf THEN 0 ELSE tot[next[p]])

\* Nobody but the loop itself knows the pbufs from op.p on.
LoopOwns ==
  /\ op.p \in Pbufs \ free /\ ~HasFront(op.p)
  /\ \A q \in Chain(op.p) : held[q] = 0

\* While a packet is allocated only pbuf_alloc knows it, and its loop is at the end.
AllocInv == op.at = "alloc" => LoopOwns /\ op.r \in Chain(op.p) /\ next[op.r] = NoPbuf

\* A sum is wrong only in a packet whose allocation failed and which is being freed.
SumInv ==
  \A p \in Pbufs \ free : Sum(p) \/ (op.at = "free" /\ LoopOwns /\ p \in Chain(op.p))

FreeUnlinked == \A p \in free : next[p] = NoPbuf

PbufInv == PbufTypeOK /\ RefsRight /\ HeaderRoom /\ FreeUnlinked /\ AllocInv /\ SumInv

PbufLinks == [Pbufs -> Pbufs \union {NoPbuf}]

\* A walk starts at p, stays among the pbufs and follows the links ...
LEMMA WalkFacts ==
  ASSUME NEW n \in PbufLinks, NEW p \in Pbufs
  PROVE  /\ p \in Walk(n, p) /\ Walk(n, p) \subseteq Pbufs
         /\ WalkStaysIn(n, Walk(n, p))
  BY DEF PbufLinks, Walk, WalkStaysIn

\* ... and comes to nothing that it is not led to.
LEMMA WalkLeast ==
  ASSUME NEW n \in PbufLinks, NEW p \in Pbufs, NEW S \in SUBSET Pbufs, p \in S, WalkStaysIn(n, S)
  PROVE  Walk(n, p) \subseteq S
  BY DEF Walk

LEMMA WalkEnd ==
  ASSUME NEW n \in PbufLinks, NEW p \in Pbufs, n[p] = NoPbuf
  PROVE  Walk(n, p) = {p}
  <1>1. WalkStaysIn(n, {p})
    BY DEF WalkStaysIn
  <1> QED BY <1>1, WalkFacts, WalkLeast

\* What a walk comes to after its start, it comes to from the pbuf in front.
LEMMA WalkFront ==
  ASSUME NEW n \in PbufLinks, NEW p \in Pbufs, NEW q \in Walk(n, p), q # p
  PROVE  \E r \in Walk(n, p) : n[r] = q
  <1>1. SUFFICES ASSUME \A r \in Walk(n, p) : n[r] # q
                 PROVE  FALSE
    OBVIOUS
  <1>2. WalkStaysIn(n, Walk(n, p) \ {q})
    BY <1>1, WalkFacts DEF WalkStaysIn
  <1>3. Walk(n, p) \ {q} \in SUBSET Pbufs /\ p \in Walk(n, p) \ {q}
    BY WalkFacts
  <1> QED BY <1>2, <1>3, WalkLeast

\* After p the walk is that of its successor.
LEMMA WalkTail ==
  ASSUME NEW n \in PbufLinks, NEW p \in Pbufs, n[p] \in Pbufs
  PROVE  Walk(n, p) \subseteq {p} \union Walk(n, n[p])
  <1>1. n[p] \in Walk(n, n[p]) /\ Walk(n, n[p]) \subseteq Pbufs /\ WalkStaysIn(n, Walk(n, n[p]))
    BY WalkFacts
  <1>2. WalkStaysIn(n, {p} \union Walk(n, n[p]))
    BY <1>1 DEF WalkStaysIn
  <1> QED BY <1>1, <1>2, WalkLeast

\* Of two pbufs on a walk one comes first.
LEMMA WalkOrder ==
  ASSUME NEW n \in PbufLinks, NEW p \in Pbufs, NEW x \in Walk(n, p), NEW y \in Walk(n, p)
  PROVE  x \in Walk(n, y) \/ y \in Walk(n, x)
  <1> DEFINE S == {z \in Walk(n, p) : x \in Walk(n, z) \/ z \in Walk(n, x)}
  <1>1. x \in Pbufs /\ S \in SUBSET Pbufs /\ p \in S
    BY WalkFacts
  <1>2. ASSUME NEW z \in S, n[z] # NoPbuf
        PROVE  n[z] \in S
    <2>1. z \in Pbufs /\ n[z] \in Pbufs /\ n[z] \in Walk(n, p)
      BY <1>1, <1>2, WalkFacts DEF WalkStaysIn, PbufLinks
    <2>2. CASE z \in Walk(n, x)
      BY <1>1, <1>2, <2>1, <2>2, WalkFacts DEF WalkStaysIn
    <2>3. CASE x \in Walk(n, z)
      <3>1. x = z \/ x \in Walk(n, n[z])
        BY <2>1, <2>3, WalkTail
      <3> QED BY <1>1, <1>2, <2>1, <2>2, <3>1, WalkFacts
    <2> QED BY <2>2, <2>3
  <1>3. WalkStaysIn(n, S)
    BY <1>2 DEF WalkStaysIn
  <1>4. Walk(n, p) \subseteq S
    BY <1>1, <1>3, WalkLeast
  <1> QED BY <1>4

\* A packet in use has no free pbufs, and a pbuf in front of one of a packet without
\* a front belongs to it.
LEMMA OwnsFacts ==
  ASSUME PbufConstants, PbufTypeOK, RefsRight, NEW p \in Pbufs \ free
  PROVE  /\ Chain(p) \subseteq Pbufs \ free /\ p \in Chain(p)
         /\ \A q \in Chain(p) : next[q] # NoPbuf => next[q] \in Chain(p)
         /\ ~HasFront(p) => \A q \in Pbufs \ free : next[q] \in Chain(p) => q \in Chain(p)
  <1>1. next \in PbufLinks
    BY DEF PbufTypeOK, PbufLinks
  <1>2. WalkStaysIn(next, Pbufs \ free)
    <2>1. SUFFICES ASSUME NEW q \in Pbufs \ free, next[q] # NoPbuf
                   PROVE  next[q] \in Pbufs \ free
      BY DEF WalkStaysIn
    <2>2. next[q] \in Pbufs /\ HasFront(next[q])
      BY <2>1 DEF PbufTypeOK, HasFront
    <2>3. ref[next[q]] = held[next[q]] + Pointers(next[q]) /\ (next[q] \in free <=> ref[next[q]] = 0)
      BY <2>2 DEF RefsRight
    <2>4. Pointers(next[q]) >= 1 /\ Pointers(next[q]) \in Nat
      BY <2>2 DEF Pointers
    <2>5. held[next[q]] \in Nat
      BY <2>2 DEF PbufTypeOK
    <2> QED BY <2>2, <2>3, <2>4, <2>5
  <1>3. Chain(p) \subseteq Pbufs \ free /\ p \in Chain(p)
    BY <1>1, <1>2, WalkLeast, WalkFacts DEF Chain
  <1>4. \A q \in Chain(p) : next[q] # NoPbuf => next[q] \in Chain(p)
    BY <1>1, WalkFacts DEF Chain, WalkStaysIn
  <1>5. ASSUME ~HasFront(p), NEW q \in Pbufs \ free, next[q] \in Chain(p)
        PROVE  q \in Chain(p)
    <2>1. next[q] # p /\ next[q] # NoPbuf
      BY <1>3, <1>5 DEF HasFront, PbufConstants
    <2>2. PICK r \in Chain(p) : next[r] = next[q]
      BY <1>1, <1>5, <2>1, WalkFront DEF Chain
    <2>3. r \in Pbufs \ free
      BY <1>3, <2>2
    <2> QED BY <1>5, <2>1, <2>2, <2>3 DEF RefsRight
  <1> QED BY <1>3, <1>4, <1>5

\* A packet without a front is no circle.
LEMMA NoCircle ==
  ASSUME PbufConstants, PbufTypeOK, RefsRight, NEW p \in Pbufs \ free, ~HasFront(p),
         NEW q \in Chain(p), NEW x \in Chain(q)
  PROVE  next[x] # q
  <1>1. SUFFICES ASSUME next[x] = q
                 PROVE  FALSE
    OBVIOUS
  <1>2. next \in PbufLinks /\ q \in Pbufs \ free
    BY OwnsFacts DEF PbufTypeOK, PbufLinks
  <1>3. Chain(q) \subseteq Pbufs \ free /\ q \in Chain(q)
    BY <1>2, OwnsFacts
  <1>4. \A z \in Chain(q) : \E f \in Chain(q) : next[f] = z
    BY <1>1, <1>2, WalkFront DEF Chain
  <1>5. p \notin Chain(q)
    BY <1>3, <1>4 DEF HasFront
  <1>6. ASSUME NEW y \in Chain(p) \ Chain(q), next[y] # NoPbuf
        PROVE  next[y] \in Chain(p) \ Chain(q)
    <2>1. next[y] \in Chain(p) /\ y \in Pbufs \ free
      BY <1>6, OwnsFacts
    <2>2. ASSUME next[y] \in Chain(q) PROVE FALSE
      <3>1. PICK f \in Chain(q) : next[f] = next[y]
        BY <1>4, <2>2
      <3>2. f = y
        BY <1>3, <1>6, <2>1, <3>1 DEF RefsRight
      <3> QED BY <1>6, <3>1, <3>2
    <2> QED BY <2>1, <2>2
  <1>7. WalkStaysIn(next, Chain(p) \ Chain(q))
    BY <1>6 DEF WalkStaysIn
  <1>8. p \in Chain(p) \ Chain(q) /\ Chain(p) \ Chain(q) \in SUBSET Pbufs
    BY <1>5, OwnsFacts
  <1>9. Chain(p) \subseteq Chain(p) \ Chain(q)
    BY <1>2, <1>7, <1>8, WalkLeast DEF Chain
  <1> QED BY <1>3, <1>9

\* Between calls nothing but callers and pbufs in front counts, and all sums are right.
LEMMA IdleFacts ==
  ASSUME PbufInv, op.at = "idle"
  PROVE  /\ TotLenRight
         /\ \A p \in Pbufs : ref[p] = held[p] + (IF HasFront(p) THEN 1 ELSE 0)
  BY DEF PbufInv, SumInv, Sum, TotLenRight, RefsRight, Pointers

\* The same for the state that a call leaves behind.
LEMMA AllRight ==
  ASSUME PbufTypeOK', RefsRight', HeaderRoom', FreeUnlinked', op'.at # "alloc",
         \A p \in Pbufs \ free' :
           tot'[p] = len'[p] + (IF next'[p] = NoPbuf THEN 0 ELSE tot'[next'[p]])
  PROVE  PbufInv'
  BY DEF PbufInv, AllocInv, SumInv, Sum

\* Nothing points to a free pbuf.
LEMMA FreeFacts ==
  ASSUME PbufConstants, PbufInv, NEW p \in free
  PROVE  /\ p \in Pbufs /\ ref[p] = 0 /\ held[p] = 0 /\ ~HasFront(p) /\ next[p] = NoPbuf
         /\ \A q \in Pbufs \ free : next[q] # p
         /\ op.at # "idle" => op.p # p
  <1>1. p \in Pbufs /\ ref[p] = 0 /\ ref[p] = held[p] + Pointers(p) /\ held[p] \in Nat /\ next[p] = NoPbuf
    BY DEF PbufInv, PbufTypeOK, RefsRight, FreeUnlinked
  <1>2. Pointers(p) \in Nat
    BY DEF Pointers
  <1>3. held[p] = 0 /\ Pointers(p) = 0
    BY <1>1, <1>2
  <1> QED BY <1>1, <1>3 DEF Pointers, HasFront

LEMMA PbufInitInv == PbufConstants /\ PbufInit => PbufInv
  BY DEF PbufConstants, PbufInit, PbufInv, PbufTypeOK, RefsRight, HeaderRoom, FreeUnlinked, AllocInv, SumInv,
         Pointers, HasFront, NoLoop

\* pbuf_alloc of one pbuf.
LEMMA AllocStep ==
  ASSUME PbufConstants, PbufInv, NEW p \in Pbufs, NEW length \in PbufLengths, NEW offset \in Offsets,
         pbuf_alloc(p, length, offset)
  PROVE  PbufInv'
  <1>1. op.at = "idle" /\ op' = op /\ p \in free /\ free' = free \ {p} /\ p \in Pbufs
        /\ length \in Nat /\ offset \in Nat
    BY DEF pbuf_alloc, FreshPbuf, PbufConstants
  <1>2. PbufTypeOK'
    BY <1>1 DEF PbufInv, PbufTypeOK, pbuf_alloc, FreshPbuf
  <1>3. HeaderRoom'
    BY <1>1 DEF PbufInv, PbufTypeOK, HeaderRoom, pbuf_alloc, FreshPbuf, Pbufs
  <1>4. FreeUnlinked'
    BY <1>1 DEF PbufInv, PbufTypeOK, FreeUnlinked, pbuf_alloc
  <1>5. \A q \in Pbufs : /\ next'[q] = IF q = p THEN NoPbuf ELSE next[q]
                         /\ ref'[q] = IF q = p THEN 1 ELSE ref[q]
                         /\ held'[q] = IF q = p THEN 1 ELSE held[q]
                         /\ len'[q] = IF q = p THEN length ELSE len[q]
                         /\ tot'[q] = IF q = p THEN length ELSE tot[q]
    BY <1>1 DEF PbufInv, PbufTypeOK, pbuf_alloc, FreshPbuf
  <1>6. \A q \in Pbufs \ free : next[q] # p
    BY <1>1, FreeFacts
  <1>7. RefsRight'
    <2>1. \A q \in Pbufs : HasFront(q)' <=> HasFront(q)
      BY <1>1, <1>5, <1>6 DEF HasFront, PbufConstants
    <2>2. \A q \in Pbufs : Pointers(q)' = Pointers(q)
      BY <1>1, <2>1 DEF Pointers
    <2>3. Pointers(p) = 0
      BY <1>1, FreeFacts DEF Pointers
    <2> QED BY <1>1, <1>5, <1>6, <2>2, <2>3 DEF PbufInv, RefsRight
  <1>8. \A q \in Pbufs \ free' :
          tot'[q] = len'[q] + (IF next'[q] = NoPbuf THEN 0 ELSE tot'[next'[q]])
    <2>1. TotLenRight
      BY <1>1, IdleFacts
    <2>2. \A q \in Pbufs : next[q] \in Pbufs \union {NoPbuf}
      BY DEF PbufInv, PbufTypeOK
    <2> QED BY <1>1, <1>5, <1>6, <2>1, <2>2 DEF TotLenRight
  <1> QED BY <1>1, <1>2, <1>3, <1>4, <1>7, <1>8, AllRight

\* pbuf_alloc from the pool: the loop of pbuf_alloc alone knows what it has taken.
LEMMA PoolFirstStep ==
  ASSUME PbufConstants, PbufInv, NEW p \in Pbufs, NEW length \in PbufLengths, NEW offset \in Offsets,
         PoolFirst(p, length, offset)
  PROVE  PbufInv'
  <1> DEFINE n == Smaller(length, BUFSIZE - offset)
  <1>1. /\ op.at = "idle" /\ p \in free /\ free' = free \ {p} /\ p \in Pbufs
        /\ op' = [at |-> "alloc", p |-> p, r |-> p, rem |-> length - n]
        /\ length \in Nat /\ offset \in Nat /\ n \in Int
    BY DEF PoolFirst, FreshPbuf, PbufConstants, Smaller
  <1> HIDE DEF n
  <1>2. PbufTypeOK'
    BY <1>1 DEF PbufInv, PbufTypeOK, PoolFirst, FreshPbuf, n
  <1>3. HeaderRoom'
    BY <1>1 DEF PbufInv, PbufTypeOK, HeaderRoom, PoolFirst, FreshPbuf, Pbufs
  <1>4. FreeUnlinked'
    BY <1>1 DEF PbufInv, PbufTypeOK, FreeUnlinked, PoolFirst
  <1>5. \A q \in Pbufs : /\ next'[q] = IF q = p THEN NoPbuf ELSE next[q]
                         /\ ref'[q] = IF q = p THEN 1 ELSE ref[q]
                         /\ held'[q] = held[q]
                         /\ len'[q] = IF q = p THEN n ELSE len[q]
                         /\ tot'[q] = IF q = p THEN length ELSE tot[q]
    BY <1>1 DEF PbufInv, PbufTypeOK, PoolFirst, FreshPbuf, n
  <1>6. held[p] = 0 /\ Pointers(p) = 0 /\ \A q \in Pbufs \ free : next[q] # p
    BY <1>1, FreeFacts DEF Pointers
  <1>7. \A q \in Pbufs : HasFront(q)' <=> HasFront(q)
    BY <1>1, <1>5, <1>6 DEF HasFront, PbufConstants
  <1>8. RefsRight'
    <2>1. \A q \in Pbufs : Pointers(q)' = IF q = p THEN 1 ELSE Pointers(q)
      BY <1>1, <1>6, <1>7 DEF Pointers
    <2> QED BY <1>1, <1>5, <1>6, <2>1 DEF PbufInv, RefsRight
  <1>9. AllocInv'
    <2>1. next' \in PbufLinks /\ next'[p] = NoPbuf
      BY <1>2, <1>1, <1>5 DEF PbufTypeOK, PbufLinks
    <2>2. Walk(next', p) = {p}
      BY <2>1, WalkEnd
    <2>3. Chain(p)' = {p}
      BY <2>2 DEF Chain
    <2>4. ~HasFront(p)'
      BY <1>1, <1>7, FreeFacts
    <2> QED BY <1>1, <1>5, <1>6, <2>1, <2>3, <2>4 DEF AllocInv, LoopOwns
  <1>10. SumInv'
    <2>1. TotLenRight
      BY <1>1, IdleFacts
    <2>2. \A q \in Pbufs : next[q] \in Pbufs \union {NoPbuf}
      BY DEF PbufInv, PbufTypeOK
    <2>3. ASSUME NEW q \in Pbufs \ free' PROVE Sum(q)'
      BY <1>1, <1>5, <1>6, <2>1, <2>2 DEF TotLenRight, Sum
    <2> QED BY <2>3 DEF SumInv
  <1> QED BY <1>2, <1>3, <1>4, <1>8, <1>9, <1>10 DEF PbufInv

LEMMA PoolMoreStep ==
  ASSUME PbufConstants, PbufInv, NEW q \in Pbufs, PoolMore(q)
  PROVE  PbufInv'
  <1> DEFINE n == Smaller(op.rem, BUFSIZE)
  <1>1. /\ op.at = "alloc" /\ q \in free /\ free' = free \ {q} /\ op.rem \in Int /\ n \in Int
        /\ op' = [op EXCEPT !.r = q, !.rem = @ - n]
    BY DEF PoolMore, FreshPbuf, PbufConstants, Smaller, PbufInv, PbufTypeOK
  <1> HIDE DEF n
  <1>2. /\ LoopOwns /\ op.r \in Chain(op.p) /\ next[op.r] = NoPbuf
        /\ op.p \in Pbufs \ free /\ next \in PbufLinks
    BY <1>1 DEF PbufInv, AllocInv, LoopOwns, PbufTypeOK, PbufLinks
  <1>3. /\ op.r \in Pbufs \ free /\ op.r # q
        /\ op'.at = "alloc" /\ op'.p = op.p /\ op'.r = q /\ op'.rem = op.rem - n
    BY <1>1, <1>2, OwnsFacts DEF PbufInv, PbufTypeOK
  <1>4. PbufTypeOK'
    <2>1. op' = [at |-> "alloc", p |-> op.p, r |-> q, rem |-> op.rem - n]
      BY <1>1, ZenonT(60) DEF PbufInv, PbufTypeOK
    <2>2. op' \in [at : {"idle", "alloc", "free"}, p : Pbufs \union {NoPbuf}, r : Pbufs \union {NoPbuf}, rem : Int]
      BY <1>1, <1>2, <2>1
    <2>3. next' \in [Pbufs -> Pbufs \union {NoPbuf}]
      BY <1>1, <1>3 DEF PbufInv, PbufTypeOK, PoolMore
    <2>4. len' \in [Pbufs -> Int] /\ tot' \in [Pbufs -> Int] /\ off' \in [Pbufs -> Int]
      BY <1>1 DEF PbufInv, PbufTypeOK, PoolMore, FreshPbuf, n
    <2>5. free' \subseteq Pbufs /\ ref' \in [Pbufs -> Nat] /\ held' \in [Pbufs -> Nat]
      BY <1>1 DEF PbufInv, PbufTypeOK, PoolMore
    <2> QED BY <2>2, <2>3, <2>4, <2>5 DEF PbufTypeOK
  <1>5. HeaderRoom' /\ FreeUnlinked'
    BY <1>1, <1>3 DEF PbufInv, PbufTypeOK, HeaderRoom, FreeUnlinked, PoolMore, FreshPbuf, Pbufs
  <1>6. \A x \in Pbufs : /\ next'[x] = IF x = q THEN NoPbuf ELSE IF x = op.r THEN q ELSE next[x]
                         /\ ref'[x] = IF x = q THEN 1 ELSE ref[x]
                         /\ held'[x] = held[x]
                         /\ len'[x] = IF x = q THEN n ELSE len[x]
                         /\ tot'[x] = IF x = q THEN op.rem ELSE tot[x]
    BY <1>1, <1>3 DEF PbufInv, PbufTypeOK, PoolMore, FreshPbuf, n
  <1>7. /\ held[q] = 0 /\ Pointers(q) = 0 /\ next[q] = NoPbuf /\ q # op.p
        /\ \A x \in Pbufs \ free : next[x] # q
    BY <1>1, FreeFacts DEF Pointers
  <1>8. \A x \in Pbufs : HasFront(x)' <=> HasFront(x) \/ x = q
    BY <1>1, <1>2, <1>3, <1>6, <1>7 DEF HasFront, PbufConstants
  <1>9. RefsRight'
    <2>1. \A x \in Pbufs : Pointers(x)' = IF x = q THEN 1 ELSE Pointers(x)
      BY <1>1, <1>3, <1>7, <1>8 DEF Pointers
    <2> QED BY <1>1, <1>2, <1>3, <1>6, <1>7, <2>1 DEF PbufInv, RefsRight
  <1>10. next' \in PbufLinks
    BY <1>4 DEF PbufTypeOK, PbufLinks
  <1>11. Walk(next', op.p) \subseteq Chain(op.p) \union {q}
    <2>1. Chain(op.p) \union {q} \in SUBSET Pbufs /\ op.p \in Chain(op.p)
          /\ \A x \in Chain(op.p) : next[x] # NoPbuf => next[x] \in Chain(op.p)
      BY <1>2, OwnsFacts DEF PbufInv
    <2>2. WalkStaysIn(next', Chain(op.p) \union {q})
      BY <1>3, <1>6, <2>1 DEF WalkStaysIn
    <2> QED BY <1>2, <1>10, <2>1, <2>2, WalkLeast
  <1>12. q \in Walk(next', op.p)
    <2>1. /\ op.p \in Walk(next', op.p) /\ Walk(next', op.p) \in SUBSET Pbufs
          /\ WalkStaysIn(next', Walk(next', op.p))
      BY <1>2, <1>10, WalkFacts
    <2>2. WalkStaysIn(next, Walk(next', op.p))
      BY <1>2, <1>6, <1>7, <2>1 DEF WalkStaysIn
    <2>3. op.r \in Walk(next', op.p)
      BY <1>2, <2>1, <2>2, WalkLeast DEF Chain
    <2> QED BY <1>3, <1>6, <2>1, <2>3 DEF WalkStaysIn, PbufConstants
  <1>13. AllocInv'
    <2>1. Chain(op.p)' = Walk(next', op.p)
      BY <1>3 DEF Chain
    <2>2. \A x \in Walk(next', op.p) : held'[x] = 0
      BY <1>2, <1>6, <1>7, <1>11, OwnsFacts DEF LoopOwns, PbufInv
    <2>3. ~HasFront(op.p)'
      <3>1. \A x \in Pbufs : x # q /\ ~HasFront(x) => ~HasFront(x)'
        BY <1>8
      <3> QED BY <1>2, <1>3, <1>7, <3>1 DEF LoopOwns, HasFront
    <2> QED BY <1>1, <1>2, <1>3, <1>6, <1>7, <1>12, <2>1, <2>2, <2>3 DEF AllocInv, LoopOwns
  <1>14. SumInv'
    <2>1. \A x \in Pbufs : next[x] \in Pbufs \union {NoPbuf} /\ len[x] \in Int /\ tot[x] \in Int
      BY DEF PbufInv, PbufTypeOK
    <2>2. \A x \in Pbufs \ free : Sum(x)
      BY <1>1 DEF PbufInv, SumInv
    <2>3. ASSUME NEW x \in Pbufs \ free' PROVE Sum(x)'
      BY <1>1, <1>2, <1>3, <1>6, <1>7, <2>1, <2>2 DEF Sum
    <2> QED BY <2>3 DEF SumInv
  <1> QED BY <1>4, <1>5, <1>9, <1>13, <1>14 DEF PbufInv

\* The pool is empty: the pbufs taken so far have a wrong sum, and are freed.
LEMMA PoolEmptyStep ==
  ASSUME PbufConstants, PbufInv, PoolEmpty
  PROVE  PbufInv'
  <1>1. /\ op.at = "alloc" /\ LoopOwns /\ op.r \in Chain(op.p) /\ op.p \in Pbufs
        /\ op' = [NoLoop EXCEPT !.at = "free", !.p = op.p]
    BY DEF PoolEmpty, PbufInv, AllocInv, LoopOwns
  <1>2. op'.at = "free" /\ op'.p = op.p /\ UNCHANGED <<free, next, ref, len, tot, off, held>>
    BY <1>1 DEF PoolEmpty, fields, NoLoop
  <1>3. PbufTypeOK' /\ HeaderRoom' /\ FreeUnlinked'
    <2>1. op' = [at |-> "free", p |-> op.p, r |-> NoPbuf, rem |-> 0]
      BY <1>1, ZenonT(60) DEF NoLoop
    <2> QED BY <1>1, <1>2, <2>1 DEF PbufInv, PbufTypeOK, HeaderRoom, FreeUnlinked
  <1>4. RefsRight'
    BY <1>1, <1>2 DEF PbufInv, RefsRight, Pointers, HasFront
  <1>5. LoopOwns'
    BY <1>1, <1>2 DEF LoopOwns, Chain, HasFront
  <1>6. SumInv'
    <2>1. ASSUME NEW x \in Pbufs \ free, x # op.r PROVE Sum(x)'
      BY <1>1, <1>2, <2>1 DEF PbufInv, SumInv, Sum
    <2>2. op.r \in Chain(op.p)'
      BY <1>1, <1>2 DEF Chain
    <2> QED BY <1>2, <1>5, <2>1, <2>2 DEF SumInv
  <1> QED BY <1>2, <1>3, <1>4, <1>6 DEF PbufInv, AllocInv

LEMMA PoolDoneStep ==
  ASSUME PbufConstants, PbufInv, PoolDone
  PROVE  PbufInv'
  <1>1. /\ op.at = "alloc" /\ op.rem = 0 /\ LoopOwns /\ op.r \in Chain(op.p) /\ next[op.r] = NoPbuf
        /\ op.p \in Pbufs \ free /\ ~HasFront(op.p) /\ held[op.p] = 0
    BY OwnsFacts DEF PoolDone, PbufInv, AllocInv, LoopOwns
  <1>2. op' = NoLoop /\ op'.at = "idle" /\ UNCHANGED <<free, next, ref, len, tot, off>>
    BY DEF PoolDone, fields, NoLoop
  <1>3. PbufTypeOK' /\ HeaderRoom' /\ FreeUnlinked'
    BY <1>1, <1>2 DEF PbufInv, PbufTypeOK, HeaderRoom, FreeUnlinked, NoLoop, PoolDone
  <1>4. \A x \in Pbufs : held'[x] = IF x = op.p THEN 1 ELSE held[x]
    BY <1>1 DEF PoolDone, PbufInv, PbufTypeOK
  <1>5. RefsRight'
    BY <1>1, <1>2, <1>4 DEF PbufInv, RefsRight, Pointers, HasFront
  <1>6. \A p \in Pbufs \ free' :
          tot'[p] = len'[p] + (IF next'[p] = NoPbuf THEN 0 ELSE tot'[next'[p]])
    BY <1>1, <1>2 DEF PbufInv, SumInv, Sum
  <1> QED BY <1>2, <1>3, <1>5, <1>6, AllRight

LEMMA FreeCallStep ==
  ASSUME PbufConstants, PbufInv, NEW p \in Pbufs, pbuf_free(p)
  PROVE  PbufInv'
  <1>1. /\ op.at = "idle" /\ p \in Pbufs \ free /\ held[p] > 0 /\ held[p] \in Nat
        /\ op' = [at |-> "free", p |-> p, r |-> NoPbuf, rem |-> 0]
        /\ UNCHANGED <<free, next, ref, len, tot, off>>
    BY ZenonT(60) DEF pbuf_free, Owns, NoLoop, fields, PbufInv, PbufTypeOK
  <1>2. PbufTypeOK' /\ HeaderRoom' /\ FreeUnlinked'
    BY <1>1 DEF PbufInv, PbufTypeOK, HeaderRoom, FreeUnlinked, pbuf_free
  <1>3. \A x \in Pbufs : held'[x] = IF x = p THEN held[x] - 1 ELSE held[x]
    BY <1>1 DEF pbuf_free, PbufInv, PbufTypeOK
  <1>4. RefsRight'
    <2>1. \A x \in Pbufs : Pointers(x)' = IF x = p THEN Pointers(x) + 1 ELSE Pointers(x)
      BY <1>1 DEF Pointers, HasFront
    <2>2. \A x \in Pbufs : Pointers(x) \in Nat /\ held[x] \in Nat
      BY DEF Pointers, PbufInv, PbufTypeOK
    <2> QED BY <1>1, <1>3, <2>1, <2>2 DEF PbufInv, RefsRight
  <1> QED BY <1>1, <1>2, <1>4, IdleFacts, AllRight DEF TotLenRight

\* One turn of pbuf_free.  If a sum of the packet is wrong then the loop alone has
\* it, p goes, and so do the others.
LEMMA FreeTurnStep ==
  ASSUME PbufConstants, PbufInv, PbufFreeStep
  PROVE  PbufInv'
  <1> DEFINE p == op.p
  <1>1. op.at = "free" /\ p \in Pbufs /\ ref[p] \in Nat /\ held[p] \in Nat /\ next[p] \in Pbufs \union {NoPbuf}
    BY DEF PbufFreeStep, PbufInv, PbufTypeOK
  <1>2. Pointers(p) = (IF HasFront(p) THEN 1 ELSE 0) + 1 /\ ref[p] = held[p] + Pointers(p)
    BY <1>1 DEF Pointers, PbufInv, RefsRight
  <1>3. ref[p] >= 1 /\ p \notin free
    BY <1>1, <1>2 DEF PbufInv, RefsRight
  <1>4. CASE ref[p] = 1
    <2>1. held[p] = 0 /\ ~HasFront(p)
      BY <1>1, <1>2, <1>4
    <2>2. /\ free' = free \union {p} /\ UNCHANGED held
          /\ op' = [op EXCEPT !.p = next[p]]
          /\ op'.at = "free" /\ op'.p = next[p]
      BY <1>1, <1>4 DEF PbufFreeStep, PbufInv, PbufTypeOK
    <2>3. \A x \in Pbufs : /\ next'[x] = IF x = p THEN NoPbuf ELSE next[x]
                           /\ ref'[x] = IF x = p THEN 0 ELSE ref[x]
                           /\ len'[x] = IF x = p THEN 0 ELSE len[x]
                           /\ tot'[x] = IF x = p THEN 0 ELSE tot[x]
                           /\ off'[x] = IF x = p THEN 0 ELSE off[x]
      BY <1>1, <1>4 DEF PbufFreeStep, Cleared, PbufInv, PbufTypeOK
    <2>4. PbufTypeOK'
      <3>1. op' \in [at : {"idle", "alloc", "free"}, p : Pbufs \union {NoPbuf}, r : Pbufs \union {NoPbuf}, rem : Int]
        BY <1>1, <2>2 DEF PbufInv, PbufTypeOK
      <3>2. next' \in [Pbufs -> Pbufs \union {NoPbuf}] /\ ref' \in [Pbufs -> Nat]
        BY <1>1, <1>3, <1>4 DEF PbufInv, PbufTypeOK, PbufFreeStep, Cleared
      <3>3. len' \in [Pbufs -> Int] /\ tot' \in [Pbufs -> Int] /\ off' \in [Pbufs -> Int]
        BY <1>1, <1>4 DEF PbufInv, PbufTypeOK, PbufFreeStep, Cleared
      <3> QED BY <1>1, <2>2, <3>1, <3>2, <3>3 DEF PbufInv, PbufTypeOK
    <2>5. HeaderRoom' /\ FreeUnlinked'
      BY <1>1, <2>2, <2>3 DEF PbufInv, HeaderRoom, FreeUnlinked, PbufTypeOK
    <2>6. next[p] # p /\ \A x \in Pbufs \ free : next[x] # p
      BY <1>1, <1>3, <2>1 DEF HasFront
    <2>7. \A x \in Pbufs : HasFront(x)' <=> HasFront(x) /\ x # next[p]
      <3>1. \A x \in Pbufs \ free : x # p /\ next[x] # NoPbuf => next[x] # next[p]
        BY <1>1, <1>3 DEF PbufInv, RefsRight
      <3>2. \A x \in Pbufs \ free' : x \in Pbufs \ free /\ x # p /\ next'[x] = next[x]
        BY <2>2, <2>3
      <3>3. \A x \in Pbufs \ free : x # p => x \in Pbufs \ free' /\ next'[x] = next[x]
        BY <2>2, <2>3
      <3> QED BY <3>1, <3>2, <3>3 DEF HasFront, PbufConstants
    <2>8. RefsRight'
      <3>1. HasFront(p) = FALSE /\ (next[p] # NoPbuf => HasFront(next[p]))
        BY <1>1, <1>3, <2>1 DEF HasFront
      <3>2. \A x \in Pbufs : Pointers(x)' = IF x = p THEN 0 ELSE Pointers(x)
        BY <1>1, <2>2, <2>6, <2>7, <3>1 DEF Pointers, PbufConstants
      <3>3. \A x \in Pbufs : (x \in free' <=> ref'[x] = 0) /\ ref'[x] = held'[x] + Pointers(x)'
        BY <1>1, <2>1, <2>2, <2>3, <3>2 DEF PbufInv, RefsRight
      <3>4. \A x, y \in Pbufs \ free' : next'[x] = next'[y] /\ next'[x] # NoPbuf => x = y
        BY <2>2, <2>3 DEF PbufInv, RefsRight
      <3> QED BY <3>3, <3>4 DEF RefsRight
    <2>9. SumInv'
      <3>1. SUFFICES ASSUME NEW w \in Pbufs \ free', ~Sum(w)'
                     PROVE  LoopOwns' /\ w \in Chain(op.p)'
        BY <2>2 DEF SumInv
      <3>2. w \in Pbufs \ free /\ w # p /\ ~Sum(w)
        BY <1>1, <2>2, <2>3, <2>6, <3>1 DEF Sum, PbufInv, PbufTypeOK
      <3>3. LoopOwns /\ w \in Chain(p)
        BY <3>2 DEF PbufInv, SumInv
      <3>4. next \in PbufLinks /\ next' \in PbufLinks
        BY <2>4 DEF PbufInv, PbufTypeOK, PbufLinks
      <3>5. next[p] # NoPbuf
        BY <1>1, <3>2, <3>3, <3>4, WalkEnd DEF Chain
      <3>6. next[p] \in Pbufs /\ w \in Walk(next, next[p])
        BY <1>1, <3>2, <3>3, <3>4, <3>5, WalkTail DEF Chain
      <3>7. w \in Walk(next', next[p])
        <4>1. /\ next[p] \in Walk(next', next[p]) /\ Walk(next', next[p]) \in SUBSET Pbufs
              /\ WalkStaysIn(next', Walk(next', next[p]))
          BY <3>4, <3>6, WalkFacts
        <4>2. WalkStaysIn(next, Walk(next', next[p]))
          BY <2>3, <4>1 DEF WalkStaysIn
        <4> QED BY <3>4, <3>6, <4>1, <4>2, WalkLeast
      <3>8. Walk(next', next[p]) \subseteq Chain(p)
        <4>1. /\ Chain(p) \in SUBSET Pbufs /\ p \in Chain(p)
              /\ \A x \in Chain(p) : next[x] # NoPbuf => next[x] \in Chain(p)
          BY <1>1, <1>3, OwnsFacts DEF PbufInv
        <4>2. WalkStaysIn(next', Chain(p))
          BY <2>3, <4>1 DEF WalkStaysIn
        <4> QED BY <1>1, <3>4, <3>5, <3>6, <4>1, <4>2, WalkLeast
      <3>9. Chain(op.p)' = Walk(next', next[p])
        BY <2>2 DEF Chain
      <3>10. next[p] \in Pbufs \ free' /\ ~HasFront(op.p)'
        <4>1. next[p] \in Chain(p)
          BY <1>1, <1>3, <3>5, OwnsFacts DEF PbufInv
        <4>2. next[p] \in Pbufs \ free
          BY <1>1, <1>3, <4>1, OwnsFacts DEF PbufInv
        <4>3. \A x \in Pbufs \ free' : next'[x] # next[p]
          BY <2>7, <3>6 DEF HasFront
        <4> QED BY <2>2, <2>6, <4>2, <4>3 DEF HasFront
      <3> QED BY <2>2, <3>3, <3>7, <3>8, <3>9, <3>10 DEF LoopOwns
    <2> QED BY <2>2, <2>4, <2>5, <2>8, <2>9 DEF PbufInv, AllocInv
  <1>5. CASE ref[p] # 1
    <2>1. /\ op' = [op EXCEPT !.p = NoPbuf] /\ op'.at = "free" /\ op'.p = NoPbuf
          /\ UNCHANGED <<free, next, len, tot, off, held>>
          /\ ref' = [ref EXCEPT ![p] = @ - 1]
      BY <1>1, <1>5 DEF PbufFreeStep, Cleared, PbufInv, PbufTypeOK
    <2>2. PbufTypeOK'
      <3>1. op' \in [at : {"idle", "alloc", "free"}, p : Pbufs \union {NoPbuf}, r : Pbufs \union {NoPbuf}, rem : Int]
        BY <1>1, <2>1 DEF PbufInv, PbufTypeOK
      <3> QED BY <1>1, <1>3, <2>1, <3>1 DEF PbufInv, PbufTypeOK
    <2>3. HeaderRoom' /\ FreeUnlinked'
      BY <2>1 DEF PbufInv, HeaderRoom, FreeUnlinked
    <2>4. \A x \in Pbufs : ref'[x] = IF x = p THEN ref[x] - 1 ELSE ref[x]
      BY <1>1, <2>1 DEF PbufInv, PbufTypeOK
    <2>5. RefsRight'
      <3>1. \A x \in Pbufs : Pointers(x)' = IF x = p THEN Pointers(x) - 1 ELSE Pointers(x)
        BY <1>1, <2>1 DEF Pointers, HasFront, PbufConstants
      <3>2. \A x \in Pbufs : Pointers(x) \in Nat /\ held[x] \in Nat
        BY DEF Pointers, PbufInv, PbufTypeOK
      <3> QED BY <1>1, <1>3, <1>5, <2>1, <2>4, <3>1, <3>2 DEF PbufInv, RefsRight
    <2>6. \A x \in Pbufs \ free : Sum(x)
      <3>1. ASSUME LoopOwns PROVE FALSE
        <4>1. p \in Chain(p)
          BY <1>1, <1>3, OwnsFacts DEF PbufInv
        <4>2. held[p] = 0 /\ ~HasFront(p)
          BY <3>1, <4>1 DEF LoopOwns
        <4> QED BY <1>2, <1>5, <4>2
      <3> QED BY <3>1 DEF PbufInv, SumInv
    <2>7. \A x \in Pbufs \ free' :
            tot'[x] = len'[x] + (IF next'[x] = NoPbuf THEN 0 ELSE tot'[next'[x]])
      BY <1>1, <2>1, <2>6 DEF Sum
    <2> QED BY <2>1, <2>2, <2>3, <2>5, <2>7, AllRight
  <1> QED BY <1>4, <1>5

LEMMA FreeDoneStep ==
  ASSUME PbufConstants, PbufInv, FreeDone
  PROVE  PbufInv'
  <1>1. /\ op.at = "free" /\ op.p = NoPbuf
        /\ op' = [at |-> "idle", p |-> NoPbuf, r |-> NoPbuf, rem |-> 0]
        /\ UNCHANGED <<free, next, ref, len, tot, off, held>>
    BY DEF FreeDone, NoLoop, fields
  <1>2. PbufTypeOK' /\ HeaderRoom' /\ FreeUnlinked'
    BY <1>1 DEF PbufInv, PbufTypeOK, HeaderRoom, FreeUnlinked
  <1>3. RefsRight'
    BY <1>1 DEF PbufInv, RefsRight, Pointers, HasFront, PbufConstants
  <1>4. \A x \in Pbufs \ free' :
          tot'[x] = len'[x] + (IF next'[x] = NoPbuf THEN 0 ELSE tot'[next'[x]])
    BY <1>1 DEF PbufInv, SumInv, Sum, LoopOwns, PbufConstants
  <1> QED BY <1>1, <1>2, <1>3, <1>4, AllRight

LEMMA RefStep ==
  ASSUME PbufConstants, PbufInv, NEW p \in Pbufs, pbuf_ref(p)
  PROVE  PbufInv'
  <1>1. /\ op.at = "idle" /\ p \in Pbufs \ free /\ UNCHANGED <<free, next, len, tot, off, op>>
    BY DEF pbuf_ref, Owns
  <1>2. PbufTypeOK' /\ HeaderRoom' /\ FreeUnlinked'
    BY <1>1 DEF PbufInv, PbufTypeOK, HeaderRoom, FreeUnlinked, pbuf_ref
  <1>3. \A x \in Pbufs : /\ held'[x] = IF x = p THEN held[x] + 1 ELSE held[x]
                         /\ ref'[x] = IF x = p THEN ref[x] + 1 ELSE ref[x]
    BY <1>1 DEF pbuf_ref, PbufInv, PbufTypeOK
  <1>4. RefsRight'
    <2>1. \A x \in Pbufs : Pointers(x)' = Pointers(x)
      BY <1>1 DEF Pointers, HasFront
    <2>2. \A x \in Pbufs : Pointers(x) \in Nat /\ held[x] \in Nat /\ ref[x] \in Nat
      BY DEF Pointers, PbufInv, PbufTypeOK
    <2> QED BY <1>1, <1>3, <2>1, <2>2 DEF PbufInv, RefsRight
  <1> QED BY <1>1, <1>2, <1>4, IdleFacts, AllRight DEF TotLenRight

\* pbuf_cat and pbuf_chain: all pbufs of h, and no others, now count t as well.
LEMMA JoinedFacts ==
  ASSUME PbufConstants, PbufInv, NEW h \in Pbufs, NEW t \in Pbufs, Joined(h, t)
  PROVE  /\ op.at = "idle" /\ UNCHANGED <<free, len, off, op>>
         /\ h \in Pbufs \ free /\ t \in Pbufs \ free /\ held[t] > 0 /\ ~HasFront(t)
         /\ next' \in [Pbufs -> Pbufs \union {NoPbuf}] /\ tot' \in [Pbufs -> Int]
         /\ FreeUnlinked'
         /\ \A x \in Pbufs : HasFront(x)' <=> HasFront(x) \/ x = t
         /\ \A x, y \in Pbufs \ free : next'[x] = next'[y] /\ next'[x] # NoPbuf => x = y
         /\ \A x \in Pbufs \ free' :
              tot'[x] = len'[x] + (IF next'[x] = NoPbuf THEN 0 ELSE tot'[next'[x]])
  <1>1. /\ op.at = "idle" /\ UNCHANGED <<free, len, off, op>> /\ h # t
        /\ h \in Pbufs \ free /\ t \in Pbufs \ free /\ held[t] > 0 /\ ~HasFront(t) /\ ~HasFront(h)
        /\ tot' = [p \in Pbufs |-> IF p \in Chain(h) THEN tot[p] + tot[t] ELSE tot[p]]
    BY DEF Joined, PacketHead, Owns
  <1>2. PICK last \in Chain(h) : next[last] = NoPbuf /\ next' = [next EXCEPT ![last] = t]
    BY ZenonT(60) DEF Joined
  <1>3. /\ Chain(h) \subseteq Pbufs \ free /\ h \in Chain(h)
        /\ \A q \in Chain(h) : next[q] # NoPbuf => next[q] \in Chain(h)
        /\ \A q \in Pbufs \ free : next[q] \in Chain(h) => q \in Chain(h)
    BY <1>1, OwnsFacts DEF PbufInv
  <1>4. next \in PbufLinks /\ last \in Pbufs \ free
    BY <1>2, <1>3 DEF PbufInv, PbufTypeOK, PbufLinks
  <1>5. t \notin Chain(h)
    BY <1>1, <1>3, <1>4, WalkFront DEF Chain, HasFront
  <1>6. \A x \in Chain(h) : next[x] = NoPbuf => x = last
    <2>1. SUFFICES ASSUME NEW x \in Chain(h), next[x] = NoPbuf PROVE x = last
      OBVIOUS
    <2>2. x \in Pbufs /\ Walk(next, x) = {x} /\ Walk(next, last) = {last}
      BY <1>2, <1>3, <1>4, <2>1, WalkEnd
    <2>3. x \in Walk(next, last) \/ last \in Walk(next, x)
      BY <1>1, <1>2, <1>4, <2>1, WalkOrder DEF Chain
    <2> QED BY <2>2, <2>3
  <1>7. /\ next' \in [Pbufs -> Pbufs \union {NoPbuf}]
        /\ \A x \in Pbufs : next'[x] = IF x = last THEN t ELSE next[x]
    BY <1>1, <1>2, <1>4 DEF PbufLinks
  <1>8. /\ tot' \in [Pbufs -> Int]
        /\ \A x \in Pbufs : tot'[x] = IF x \in Chain(h) THEN tot[x] + tot[t] ELSE tot[x]
    BY <1>1 DEF PbufInv, PbufTypeOK
  <1>9. FreeUnlinked'
    BY <1>1, <1>4, <1>7 DEF PbufInv, FreeUnlinked, PbufTypeOK
  <1>10. \A x \in Pbufs : HasFront(x)' <=> HasFront(x) \/ x = t
    BY <1>1, <1>2, <1>4, <1>7 DEF HasFront, PbufConstants
  <1>11. \A x, y \in Pbufs \ free : next'[x] = next'[y] /\ next'[x] # NoPbuf => x = y
    BY <1>1, <1>7 DEF PbufInv, RefsRight, HasFront
  <1>12. ASSUME NEW x \in Pbufs \ free'
         PROVE  tot'[x] = len'[x] + (IF next'[x] = NoPbuf THEN 0 ELSE tot'[next'[x]])
    <2>1. /\ tot[x] = len[x] + (IF next[x] = NoPbuf THEN 0 ELSE tot[next[x]])
          /\ tot[x] \in Int /\ len[x] \in Int /\ tot[t] \in Int /\ x \in Pbufs \ free
          /\ next[x] \in Pbufs \union {NoPbuf} /\ (next[x] # NoPbuf => tot[next[x]] \in Int)
      BY <1>1, IdleFacts DEF TotLenRight, PbufInv, PbufTypeOK
    <2>2. CASE x = last
      BY <1>1, <1>2, <1>5, <1>7, <1>8, <2>1, <2>2 DEF PbufConstants
    <2>3. CASE x # last /\ x \in Chain(h)
      <3>1. next[x] # NoPbuf /\ next[x] \in Chain(h) /\ next[x] \in Pbufs
        BY <1>3, <1>6, <2>1, <2>3
      <3> QED BY <1>1, <1>7, <1>8, <2>1, <2>3, <3>1
    <2>4. CASE x # last /\ x \notin Chain(h)
      <3>1. next[x] \notin Chain(h)
        BY <1>3, <2>1, <2>4
      <3> QED BY <1>1, <1>7, <1>8, <2>1, <2>4, <3>1
    <2> QED BY <2>2, <2>3, <2>4
  <1> QED BY <1>1, <1>7, <1>8, <1>9, <1>10, <1>11, <1>12, ZenonT(60)

LEMMA CatStep ==
  ASSUME PbufConstants, PbufInv, NEW h \in Pbufs, NEW t \in Pbufs, pbuf_cat(h, t) \/ pbuf_chain(h, t)
  PROVE  PbufInv'
  <1>1. Joined(h, t)
    BY DEF pbuf_cat, pbuf_chain
  <1>2. /\ op.at = "idle" /\ op'.at = "idle" /\ UNCHANGED <<free, len, off, op>>
        /\ t \in Pbufs \ free /\ held[t] > 0 /\ ~HasFront(t)
        /\ \A x \in Pbufs : HasFront(x)' <=> HasFront(x) \/ x = t
        /\ \A x, y \in Pbufs \ free : next'[x] = next'[y] /\ next'[x] # NoPbuf => x = y
    BY <1>1, JoinedFacts
  <1>3. /\ held' \in [Pbufs -> Nat] /\ ref' \in [Pbufs -> Nat]
        /\ \A x \in Pbufs : ref'[x] - held'[x] = ref[x] - held[x] + (IF x = t THEN 1 ELSE 0)
        /\ \A x \in Pbufs : ref'[x] = 0 <=> ref[x] = 0
    <2>1. CASE pbuf_cat(h, t)
      BY <1>2, <2>1 DEF pbuf_cat, PbufInv, PbufTypeOK
    <2>2. CASE pbuf_chain(h, t)
      <3>1. ref' = [ref EXCEPT ![t] = @ + 1] /\ held' = held
        BY <2>2 DEF pbuf_chain
      <3>2. ref \in [Pbufs -> Nat] /\ held \in [Pbufs -> Nat]
        BY DEF PbufInv, PbufTypeOK
      <3>3. ref' \in [Pbufs -> Nat] /\ \A x \in Pbufs : ref'[x] = IF x = t THEN ref[x] + 1 ELSE ref[x]
        BY <3>1, <3>2
      <3>4. ref[t] # 0
        BY <1>2 DEF PbufInv, RefsRight
      <3>5. \A x \in Pbufs : ref'[x] - held'[x] = ref[x] - held[x] + (IF x = t THEN 1 ELSE 0)
        BY <3>1, <3>2, <3>3
      <3>6. \A x \in Pbufs : ref'[x] = 0 <=> ref[x] = 0
        BY <3>2, <3>3, <3>4
      <3> QED BY <3>1, <3>2, <3>3, <3>5, <3>6
    <2> QED BY <2>1, <2>2
  <1>4. PbufTypeOK'
    <2>1. next' \in [Pbufs -> Pbufs \union {NoPbuf}] /\ tot' \in [Pbufs -> Int]
      BY <1>1, JoinedFacts
    <2> QED BY <1>2, <1>3, <2>1 DEF PbufInv, PbufTypeOK
  <1>5. HeaderRoom' /\ FreeUnlinked'
    BY <1>1, <1>2, JoinedFacts DEF PbufInv, HeaderRoom
  <1>6. RefsRight'
    <2>1. \A x \in Pbufs : Pointers(x)' = Pointers(x) + (IF x = t THEN 1 ELSE 0)
      BY <1>2 DEF Pointers
    <2>2. \A x \in Pbufs : Pointers(x) \in Nat /\ held[x] \in Nat /\ ref[x] \in Nat
                           /\ held'[x] \in Nat /\ ref'[x] \in Nat
      BY <1>3 DEF Pointers, PbufInv, PbufTypeOK
    <2>3. ASSUME NEW x \in Pbufs
          PROVE  (x \in free' <=> ref'[x] = 0) /\ ref'[x] = held'[x] + Pointers(x)'
      <3>1. (x \in free <=> ref[x] = 0) /\ ref[x] = held[x] + Pointers(x)
        BY DEF PbufInv, RefsRight
      <3>2. x \in free' <=> ref'[x] = 0
        BY <1>2, <1>3, <3>1
      <3>3. /\ Pointers(x)' = Pointers(x) + (IF x = t THEN 1 ELSE 0)
            /\ ref'[x] - held'[x] = ref[x] - held[x] + (IF x = t THEN 1 ELSE 0)
        BY <1>3, <2>1
      <3>4. /\ Pointers(x) \in Nat /\ held[x] \in Nat /\ ref[x] \in Nat
            /\ held'[x] \in Nat /\ ref'[x] \in Nat
        BY <2>2
      <3>5. ref'[x] = held'[x] + Pointers(x)'
        BY <3>1, <3>3, <3>4
      <3> QED BY <3>2, <3>5
    <2> QED BY <1>2, <2>3 DEF RefsRight
  <1> QED BY <1>1, <1>2, <1>4, <1>5, <1>6, JoinedFacts, AllRight

LEMMA DechainStep ==
  ASSUME PbufConstants, PbufInv, NEW p \in Pbufs, pbuf_dechain(p)
  PROVE  PbufInv'
  <1> DEFINE q == next[p]
  <1>1. /\ op.at = "idle" /\ p \in Pbufs \ free /\ ~HasFront(p) /\ q # NoPbuf /\ q \in Pbufs \ free /\ q # p
        /\ op' = [at |-> "free", p |-> q, r |-> NoPbuf, rem |-> 0]
        /\ UNCHANGED <<free, ref, len, off, held>>
    <2>1. op.at = "idle" /\ p \in Pbufs \ free /\ ~HasFront(p) /\ q # NoPbuf
      BY DEF pbuf_dechain, PacketHead, Owns
    <2>2. q \in Pbufs \ free
      BY <2>1, OwnsFacts DEF PbufInv
    <2> QED BY <2>1, <2>2, ZenonT(60) DEF pbuf_dechain, NoLoop, HasFront
  <1>2. \A x \in Pbufs : /\ next'[x] = IF x = p THEN NoPbuf ELSE next[x]
                         /\ tot'[x] = IF x = p THEN len[p] ELSE IF x = q THEN tot[p] - len[p] ELSE tot[x]
    BY <1>1 DEF pbuf_dechain, PbufInv, PbufTypeOK
  <1>3. PbufTypeOK'
    <2>1. next' \in [Pbufs -> Pbufs \union {NoPbuf}] /\ tot' \in [Pbufs -> Int]
      BY <1>1 DEF pbuf_dechain, PbufInv, PbufTypeOK
    <2> QED BY <1>1, <2>1 DEF PbufInv, PbufTypeOK
  <1>4. HeaderRoom' /\ FreeUnlinked'
    BY <1>1, <1>2 DEF PbufInv, PbufTypeOK, HeaderRoom, FreeUnlinked
  <1>5. RefsRight'
    <2>1. HasFront(q) /\ \A x \in Pbufs \ free : x # p => next[x] # q
      BY <1>1 DEF HasFront, PbufInv, RefsRight
    <2>2. \A x \in Pbufs : HasFront(x)' <=> HasFront(x) /\ x # q
      BY <1>1, <1>2, <2>1 DEF HasFront, PbufConstants
    <2>3. \A x \in Pbufs : Pointers(x)' = Pointers(x)
      BY <1>1, <2>1, <2>2 DEF Pointers
    <2> QED BY <1>1, <1>2, <2>3 DEF PbufInv, RefsRight
  <1>6. \A x \in Pbufs \ free' :
          tot'[x] = len'[x] + (IF next'[x] = NoPbuf THEN 0 ELSE tot'[next'[x]])
    <2>1. TotLenRight
      BY <1>1, IdleFacts
    <2>2. tot[p] - len[p] = tot[q]
      BY <1>1, <2>1 DEF TotLenRight, PbufInv, PbufTypeOK
    <2>3. \A x \in Pbufs \ free : next[x] # p
      BY <1>1 DEF HasFront
    <2>4. \A x \in Pbufs : next[x] \in Pbufs \union {NoPbuf} /\ len[x] \in Int
      BY DEF PbufInv, PbufTypeOK
    <2> QED BY <1>1, <1>2, <2>1, <2>2, <2>3, <2>4 DEF TotLenRight
  <1> QED BY <1>1, <1>3, <1>4, <1>5, <1>6, AllRight

\* pbuf_realloc: the pbufs in front of the new end count less, those behind it are
\* freed with the sums they had.
LEMMA ReallocStep ==
  ASSUME PbufConstants, PbufInv, NEW p \in Pbufs, NEW q \in Pbufs, NEW n \in Cuts, pbuf_realloc(p, q, n)
  PROVE  PbufInv'
  <1>1. /\ op.at = "idle" /\ p \in Pbufs \ free /\ ~HasFront(p) /\ q \in Chain(p) /\ n \in Int
        /\ UNCHANGED <<free, ref, off, held>>
        /\ op' = IF next[q] = NoPbuf THEN op ELSE [at |-> "free", p |-> next[q], r |-> NoPbuf, rem |-> 0]
    <2>1. op.at = "idle" /\ PacketHead(p) /\ EndsIn(p, q, n) /\ UNCHANGED <<free, ref, off, held>>
      BY DEF pbuf_realloc
    <2>2. next[q] = NoPbuf => op' = op
      BY DEF pbuf_realloc
    <2>3. ASSUME next[q] # NoPbuf PROVE op' = [at |-> "free", p |-> next[q], r |-> NoPbuf, rem |-> 0]
      <3>1. op' = [NoLoop EXCEPT !.at = "free", !.p = next[q]]
        BY <2>3 DEF pbuf_realloc
      <3> QED BY <3>1, ZenonT(60) DEF NoLoop
    <2> QED BY <2>1, <2>2, <2>3 DEF PacketHead, Owns, EndsIn, PbufConstants
  <1>2. /\ Chain(p) \subseteq Pbufs \ free /\ p \in Chain(p)
        /\ \A x \in Chain(p) : next[x] # NoPbuf => next[x] \in Chain(p)
        /\ \A x \in Pbufs \ free : next[x] \in Chain(p) => x \in Chain(p)
    BY <1>1, OwnsFacts DEF PbufInv
  <1>3. /\ q \in Pbufs \ free /\ Chain(q) \subseteq Pbufs \ free /\ q \in Chain(q)
        /\ \A x \in Chain(q) : next[x] # NoPbuf => next[x] \in Chain(q)
    BY <1>1, <1>2, OwnsFacts DEF PbufInv
  <1>4. /\ next \in PbufLinks /\ next[q] \in Pbufs \union {NoPbuf}
        /\ \A x \in Pbufs : tot[x] \in Int /\ len[x] \in Int /\ next[x] \in Pbufs \union {NoPbuf}
    BY <1>3 DEF PbufInv, PbufTypeOK, PbufLinks
  <1>5. \A x \in Pbufs : /\ next'[x] = IF x = q THEN NoPbuf ELSE next[x]
                         /\ len'[x] = IF x = q THEN n - (tot[p] - tot[q]) ELSE len[x]
                         /\ tot'[x] = IF x = q THEN n - (tot[p] - tot[q])
                                      ELSE IF x \in Chain(p) \ Chain(q) THEN tot[x] + n - tot[p] ELSE tot[x]
    BY <1>3 DEF pbuf_realloc, PbufInv, PbufTypeOK, Before
  <1>6. PbufTypeOK'
    <2>1. next' \in [Pbufs -> Pbufs \union {NoPbuf}] /\ len' \in [Pbufs -> Int]
      BY <1>1, <1>3, <1>4 DEF pbuf_realloc, PbufInv, PbufTypeOK, Before
    <2>2. tot' \in [Pbufs -> Int]
      BY <1>1, <1>3, <1>4 DEF pbuf_realloc, Before
    <2>3. op' \in [at : {"idle", "alloc", "free"}, p : Pbufs \union {NoPbuf}, r : Pbufs \union {NoPbuf}, rem : Int]
      BY <1>1, <1>4 DEF PbufInv, PbufTypeOK
    <2> QED BY <1>1, <2>1, <2>2, <2>3 DEF PbufInv, PbufTypeOK
  <1>7. HeaderRoom' /\ FreeUnlinked'
    BY <1>1, <1>3, <1>5 DEF PbufInv, PbufTypeOK, HeaderRoom, FreeUnlinked
  <1>8. RefsRight'
    <2>1. \A x \in Pbufs \ free : x # q /\ next[x] # NoPbuf => next[x] # next[q]
      BY <1>3 DEF PbufInv, RefsRight
    <2>2. \A x \in Pbufs : HasFront(x)' <=> HasFront(x) /\ x # next[q]
      <3>1. free' = free /\ \A x \in Pbufs : next'[x] = IF x = q THEN NoPbuf ELSE next[x]
        BY <1>1, <1>5
      <3> QED BY <1>3, <2>1, <3>1 DEF HasFront, PbufConstants
    <2>3. next[q] # NoPbuf => HasFront(next[q])
      BY <1>3 DEF HasFront
    <2>4. /\ next[q] = NoPbuf => op'.at = "idle"
          /\ next[q] # NoPbuf => op'.at = "free" /\ op'.p = next[q]
      BY <1>1
    <2>5. ASSUME NEW x \in Pbufs PROVE Pointers(x)' = Pointers(x)
      <3>1. Pointers(x) = IF HasFront(x) THEN 1 ELSE 0
        BY <1>1 DEF Pointers
      <3>2. CASE next[q] = NoPbuf
        <4>1. Pointers(x)' = IF HasFront(x)' THEN 1 ELSE 0
          BY <2>4, <3>2 DEF Pointers
        <4>2. HasFront(x)' <=> HasFront(x)
          BY <2>2, <3>2 DEF PbufConstants
        <4> QED BY <3>1, <4>1, <4>2
      <3>3. CASE next[q] # NoPbuf
        <4>1. Pointers(x)' = (IF HasFront(x)' THEN 1 ELSE 0) + (IF next[q] = x THEN 1 ELSE 0)
          BY <2>4, <3>3 DEF Pointers
        <4>2. (HasFront(x)' <=> HasFront(x) /\ x # next[q]) /\ HasFront(next[q])
          BY <2>2, <2>3, <3>3
        <4>3. CASE x = next[q]
          <5>1. HasFront(x) /\ ~HasFront(x)'
            BY <4>2, <4>3
          <5> QED BY <3>1, <4>1, <4>3, <5>1
        <4>4. CASE x # next[q]
          <5>1. HasFront(x)' <=> HasFront(x)
            BY <4>2, <4>4
          <5> QED BY <3>1, <4>1, <4>4, <5>1
        <4> QED BY <4>3, <4>4
      <3> QED BY <3>2, <3>3
    <2>6. ASSUME NEW x \in Pbufs
          PROVE  (x \in free' <=> ref'[x] = 0) /\ ref'[x] = held'[x] + Pointers(x)'
      BY <1>1, <2>5 DEF PbufInv, RefsRight
    <2>7. \A x, y \in Pbufs \ free' : next'[x] = next'[y] /\ next'[x] # NoPbuf => x = y
      BY <1>1, <1>5 DEF PbufInv, RefsRight
    <2> QED BY <2>6, <2>7 DEF RefsRight
  <1>9. op'.at # "alloc"
    BY <1>1
  <1>10. ASSUME NEW x \in Pbufs \ free'
         PROVE  tot'[x] = len'[x] + (IF next'[x] = NoPbuf THEN 0 ELSE tot'[next'[x]])
    <2>1. /\ x \in Pbufs \ free /\ tot[x] \in Int /\ len[x] \in Int /\ tot[p] \in Int /\ tot[q] \in Int
          /\ tot[x] = len[x] + (IF next[x] = NoPbuf THEN 0 ELSE tot[next[x]])
          /\ next[x] \in Pbufs \union {NoPbuf} /\ (next[x] # NoPbuf => tot[next[x]] \in Int)
      BY <1>1, <1>4, IdleFacts DEF TotLenRight
    <2>2. CASE x = q
      <3>1. n - (tot[p] - tot[q]) \in Int
        <4>1. n \in Int
          BY <1>1
        <4>2. tot[p] \in Int /\ tot[q] \in Int
          BY <2>1
        <4> QED BY <4>1, <4>2
      <3>2. /\ next'[x] = NoPbuf
            /\ len'[x] = n - (tot[p] - tot[q]) /\ tot'[x] = n - (tot[p] - tot[q])
        BY <1>5, <2>2
      <3> QED BY <3>1, <3>2
    <2>3. CASE x \in Chain(p) \ Chain(q)
      <3>1. x \in Walk(next, q) \/ q \in Walk(next, x)
        BY <1>1, <1>4, <2>3, WalkOrder DEF Chain
      <3>2. next[x] # NoPbuf
        <4>1. SUFFICES ASSUME next[x] = NoPbuf PROVE FALSE
          OBVIOUS
        <4>2. next \in PbufLinks /\ x \in Pbufs
          BY <1>4, <2>1
        <4>3. Walk(next, x) = {x}
          BY <4>1, <4>2, WalkEnd
        <4>4. q \in Walk(next, q) /\ x \notin Walk(next, q)
          BY <1>3, <2>3 DEF Chain
        <4> QED BY <3>1, <4>3, <4>4
      <3>3. next[x] \in Chain(p) /\ next[x] \in Pbufs
        BY <1>2, <2>1, <2>3, <3>2
      <3>4. next[x] \notin Chain(q) \/ next[x] = q
        <4>1. SUFFICES ASSUME next[x] \in Chain(q), next[x] # q PROVE FALSE
          OBVIOUS
        <4>2. PICK f \in Chain(q) : next[f] = next[x]
          BY <1>3, <1>4, <4>1, WalkFront DEF Chain
        <4>3. f = x
          BY <1>3, <2>1, <3>2, <4>2 DEF PbufInv, RefsRight
        <4> QED BY <2>3, <4>2, <4>3
      <3>5. x # q /\ n \in Int
        BY <1>1, <1>3, <2>3
      <3>6. next'[x] = next[x] /\ len'[x] = len[x] /\ tot'[x] = tot[x] + n - tot[p]
        BY <1>5, <2>1, <2>3, <3>5
      <3>7. tot'[next[x]] = tot[next[x]] + n - tot[p]
        <4>1. CASE next[x] = q
          <5>1. tot'[q] = n - (tot[p] - tot[q])
            BY <1>5
          <5> QED BY <2>1, <3>5, <4>1, <5>1
        <4>2. CASE next[x] # q /\ next[x] \notin Chain(q)
          BY <1>5, <3>3, <4>2
        <4> QED BY <3>4, <4>1, <4>2
      <3>8. tot[x] = len[x] + tot[next[x]] /\ tot[next[x]] \in Int
        BY <2>1, <3>2
      <3>9. tot[x] + n - tot[p] = len[x] + (tot[next[x]] + n - tot[p])
        BY <2>1, <3>5, <3>8
      <3> QED BY <3>2, <3>6, <3>7, <3>9
    <2>4. CASE x \in Chain(q) /\ x # q
      <3>1. next[x] # q
        BY <1>1, <2>4, NoCircle DEF PbufInv
      <3>2. next[x] # NoPbuf => next[x] \in Chain(q)
        BY <1>3, <2>4
      <3> QED BY <1>1, <1>5, <2>1, <2>4, <3>1, <3>2, ZenonT(60)
    <2>5. CASE x \notin Chain(p) /\ x # q /\ x \notin Chain(q)
      <3>1. next[x] \notin Chain(p)
        BY <1>2, <2>1, <2>5
      <3> QED BY <1>1, <1>5, <2>1, <2>5, <3>1
    <2> QED BY <2>2, <2>3, <2>4, <2>5
  <1> QED BY <1>6, <1>7, <1>8, <1>9, <1>10, AllRight

LEMMA HeaderStep ==
  ASSUME PbufConstants, PbufInv, NEW p \in Pbufs, NEW n \in {-1, 1}, pbuf_header(p, n)
  PROVE  PbufInv'
  <1>1. /\ op.at = "idle" /\ p \in Pbufs \ free /\ ~HasFront(p) /\ n \in Int
        /\ UNCHANGED <<free, next, ref, op, held>> /\ (p \notin Refs => off[p] - n >= 0)
    BY DEF pbuf_header, PacketHead, Owns
  <1>2. \A x \in Pbufs : /\ len'[x] = IF x = p THEN len[x] + n ELSE len[x]
                         /\ tot'[x] = IF x = p THEN tot[x] + n ELSE tot[x]
                         /\ off'[x] = IF x = p THEN off[x] - n ELSE off[x]
    BY <1>1 DEF pbuf_header, PbufInv, PbufTypeOK
  <1>3. PbufTypeOK'
    <2>1. len' \in [Pbufs -> Int] /\ tot' \in [Pbufs -> Int] /\ off' \in [Pbufs -> Int]
      BY <1>1 DEF pbuf_header, PbufInv, PbufTypeOK
    <2> QED BY <1>1, <2>1 DEF PbufInv, PbufTypeOK
  <1>4. HeaderRoom' /\ FreeUnlinked'
    BY <1>1, <1>2 DEF PbufInv, PbufTypeOK, HeaderRoom, FreeUnlinked
  <1>5. RefsRight'
    BY <1>1 DEF PbufInv, RefsRight, Pointers, HasFront
  <1>6. \A x \in Pbufs \ free' :
          tot'[x] = len'[x] + (IF next'[x] = NoPbuf THEN 0 ELSE tot'[next'[x]])
    <2>1. TotLenRight
      BY <1>1, IdleFacts
    <2>2. \A x \in Pbufs : /\ next[x] \in Pbufs \union {NoPbuf} /\ len[x] \in Int /\ tot[x] \in Int
                           /\ x \notin free => next[x] # p
      BY <1>1 DEF HasFront, PbufInv, PbufTypeOK
    <2>3. ASSUME NEW x \in Pbufs \ free'
          PROVE  tot'[x] = len'[x] + (IF next'[x] = NoPbuf THEN 0 ELSE tot'[next'[x]])
      <3>1. x \in Pbufs \ free /\ next'[x] = next[x] /\ n \in Int
        BY <1>1
      <3>2. tot[x] = len[x] + (IF next[x] = NoPbuf THEN 0 ELSE tot[next[x]])
        BY <1>1, <2>1, <3>1 DEF TotLenRight
      <3>3. next[x] # NoPbuf => tot'[next[x]] = tot[next[x]] /\ tot[next[x]] \in Int
        BY <1>2, <2>2, <3>1
      <3>4. /\ len'[x] = IF x = p THEN len[x] + n ELSE len[x]
            /\ tot'[x] = IF x = p THEN tot[x] + n ELSE tot[x]
            /\ len[x] \in Int /\ tot[x] \in Int
        BY <1>2, <2>2
      <3> QED BY <3>1, <3>2, <3>3, <3>4
    <2> QED BY <2>3
  <1> QED BY <1>1, <1>3, <1>4, <1>5, <1>6, AllRight

LEMMA CoalesceStep ==
  ASSUME PbufConstants, PbufInv, NEW p \in Pbufs, NEW q \in Pbufs, NEW offset \in Offsets,
         pbuf_coalesce(p, q, offset)
  PROVE  PbufInv'
  <1>1. /\ op.at = "idle" /\ p \in Pbufs \ free /\ held[p] > 0 /\ q \in free /\ p # q /\ offset \in Nat
        /\ op' = [at |-> "free", p |-> p, r |-> NoPbuf, rem |-> 0] /\ free' = free \ {q}
    BY ZenonT(60) DEF pbuf_coalesce, PacketHead, Owns, FreshPbuf, NoLoop, PbufConstants
  <1>2. /\ ref[q] = 0 /\ held[q] = 0 /\ ~HasFront(q)
        /\ \A x \in Pbufs \ free : next[x] # q
    BY <1>1, FreeFacts
  <1>3. \A x \in Pbufs : /\ next'[x] = IF x = q THEN NoPbuf ELSE next[x]
                         /\ ref'[x] = IF x = q THEN 1 ELSE ref[x]
                         /\ held'[x] = IF x = q THEN 1 ELSE IF x = p THEN held[x] - 1 ELSE held[x]
                         /\ len'[x] = IF x = q THEN tot[p] ELSE len[x]
                         /\ tot'[x] = IF x = q THEN tot[p] ELSE tot[x]
                         /\ off'[x] = IF x = q THEN offset ELSE off[x]
    BY <1>1 DEF pbuf_coalesce, FreshPbuf, PbufInv, PbufTypeOK
  <1>4. PbufTypeOK'
    <2>1. next' \in [Pbufs -> Pbufs \union {NoPbuf}] /\ ref' \in [Pbufs -> Nat] /\ held' \in [Pbufs -> Nat]
      BY <1>1 DEF pbuf_coalesce, PbufInv, PbufTypeOK
    <2>2. len' \in [Pbufs -> Int] /\ tot' \in [Pbufs -> Int] /\ off' \in [Pbufs -> Int]
      BY <1>1 DEF pbuf_coalesce, FreshPbuf, PbufInv, PbufTypeOK
    <2> QED BY <1>1, <2>1, <2>2 DEF PbufInv, PbufTypeOK
  <1>5. HeaderRoom' /\ FreeUnlinked'
    <2>1. HeaderRoom /\ FreeUnlinked /\ free \subseteq Pbufs
      BY DEF PbufInv, PbufTypeOK
    <2>2. \A x \in Pbufs : off'[x] = IF x = q THEN offset ELSE off[x]
      BY <1>3
    <2>3. HeaderRoom'
      BY <1>1, <2>1, <2>2 DEF HeaderRoom
    <2>4. ASSUME NEW x \in free' PROVE next'[x] = NoPbuf
      <3>1. x \in free /\ x # q /\ x \in Pbufs
        BY <1>1, <2>1
      <3> QED BY <1>3, <2>1, <3>1 DEF FreeUnlinked
    <2> QED BY <2>3, <2>4 DEF FreeUnlinked
  <1>6. RefsRight'
    <2>1. \A x \in Pbufs : HasFront(x)' <=> HasFront(x)
      BY <1>1, <1>2, <1>3, ZenonT(60) DEF HasFront, PbufConstants
    <2>2. \A x \in Pbufs : Pointers(x)' = IF x = p THEN Pointers(x) + 1 ELSE Pointers(x)
      <3>1. op'.at = "free" /\ op'.p = p
        BY <1>1
      <3>2. ASSUME NEW x \in Pbufs
            PROVE  Pointers(x)' = IF x = p THEN Pointers(x) + 1 ELSE Pointers(x)
        <4>1. Pointers(x) = IF HasFront(x) THEN 1 ELSE 0
          BY <1>1 DEF Pointers
        <4>2. Pointers(x)' = (IF HasFront(x)' THEN 1 ELSE 0) + (IF p = x THEN 1 ELSE 0)
          BY <3>1 DEF Pointers
        <4>3. HasFront(x)' <=> HasFront(x)
          BY <2>1
        <4> QED BY <4>1, <4>2, <4>3
      <3> QED BY <3>2
    <2>3. Pointers(q) = 0 /\ \A x \in Pbufs : Pointers(x) \in Nat /\ held[x] \in Nat
      BY <1>1, <1>2 DEF Pointers, PbufInv, PbufTypeOK
    <2>4. \A x \in Pbufs : (x \in free' <=> ref'[x] = 0) /\ ref'[x] = held'[x] + Pointers(x)'
      <3>1. ASSUME NEW x \in Pbufs
            PROVE  (x \in free' <=> ref'[x] = 0) /\ ref'[x] = held'[x] + Pointers(x)'
        <4>1. (x \in free <=> ref[x] = 0) /\ ref[x] = held[x] + Pointers(x)
          BY DEF PbufInv, RefsRight
        <4>2. /\ ref'[x] = IF x = q THEN 1 ELSE ref[x]
              /\ held'[x] = IF x = q THEN 1 ELSE IF x = p THEN held[x] - 1 ELSE held[x]
          BY <1>3
        <4>3. /\ Pointers(x)' = IF x = p THEN Pointers(x) + 1 ELSE Pointers(x)
              /\ Pointers(x) \in Nat /\ held[x] \in Nat
          BY <2>2, <2>3
        <4>4. x \in free' <=> ref'[x] = 0
          BY <1>1, <4>1, <4>2
        <4>5. CASE x = q
          <5>1. ref'[x] = 1 /\ held'[x] = 1 /\ Pointers(x)' = 0
            BY <1>1, <2>3, <4>2, <4>3, <4>5
          <5> QED BY <4>4, <5>1
        <4>6. CASE x # q
          BY <4>1, <4>2, <4>3, <4>4, <4>6
        <4> QED BY <4>5, <4>6
      <3> QED BY <3>1
    <2>5. ASSUME NEW x \in Pbufs \ free', NEW y \in Pbufs \ free', next'[x] = next'[y], next'[x] # NoPbuf
          PROVE  x = y
      <3>1. /\ x \in Pbufs \ free /\ next'[x] = next[x]
            /\ y \in Pbufs \ free /\ next'[y] = next[y]
        BY <1>1, <1>3, <2>5
      <3> QED BY <2>5, <3>1 DEF PbufInv, RefsRight
    <2> QED BY <2>4, <2>5 DEF RefsRight
  <1>7. \A x \in Pbufs \ free' :
          tot'[x] = len'[x] + (IF next'[x] = NoPbuf THEN 0 ELSE tot'[next'[x]])
    <2>1. TotLenRight
      BY <1>1, IdleFacts
    <2>2. \A x \in Pbufs : next[x] \in Pbufs \union {NoPbuf} /\ tot[x] \in Int
      BY DEF PbufInv, PbufTypeOK
    <2>3. ASSUME NEW x \in Pbufs \ free'
          PROVE  tot'[x] = len'[x] + (IF next'[x] = NoPbuf THEN 0 ELSE tot'[next'[x]])
      <3>1. CASE x = q
        <4>1. next'[x] = NoPbuf /\ tot'[x] = tot[p] /\ len'[x] = tot[p] /\ tot[p] \in Int
          BY <1>3, <2>2, <3>1
        <4> QED BY <4>1
      <3>2. CASE x # q
        <4>1. x \in Pbufs \ free
          BY <1>1, <3>2
        <4>2. tot[x] = len[x] + (IF next[x] = NoPbuf THEN 0 ELSE tot[next[x]])
          BY <1>1, <2>1, <4>1 DEF TotLenRight
        <4>3. next'[x] = next[x] /\ len'[x] = len[x] /\ tot'[x] = tot[x]
          BY <1>3, <3>2, <4>1
        <4>4. next[x] # NoPbuf => tot'[next[x]] = tot[next[x]]
          BY <1>2, <1>3, <2>2, <4>1
        <4> QED BY <4>2, <4>3, <4>4
      <3> QED BY <3>1, <3>2
    <2> QED BY <2>3
  <1> QED BY <1>1, <1>4, <1>5, <1>6, <1>7, AllRight

LEMMA PbufNextInv == PbufConstants /\ PbufInv /\ [PbufNext]_pbufVars => PbufInv'
  <1> SUFFICES ASSUME PbufConstants, PbufInv, [PbufNext]_pbufVars PROVE PbufInv'
    OBVIOUS
  <1>1. CASE Call
    BY <1>1, AllocStep, PoolFirstStep, FreeCallStep, RefStep, DechainStep, CatStep, ReallocStep,
       HeaderStep, CoalesceStep DEF Call
  <1>2. CASE Turn
    BY <1>2, PoolEmptyStep, PoolDoneStep, FreeTurnStep, FreeDoneStep, PoolMoreStep DEF Turn
  <1>3. CASE UNCHANGED pbufVars
    BY <1>3 DEF pbufVars, fields, PbufInv, PbufTypeOK, RefsRight, Pointers, HasFront, HeaderRoom, FreeUnlinked,
       AllocInv, SumInv, Sum, LoopOwns, Chain
  <1> QED BY <1>1, <1>2, <1>3 DEF PbufNext

\* Reference counts are exact, tot_len is the sum over the packet between calls, and
\* headers stay in their pbuf, for any pools, lengths and sequence of calls.
THEOREM PacketsCorrect ==
  ASSUME PbufConstants
  PROVE  PbufSpec => []PacketBuffersOK
  <1>1. PbufInit => PbufInv
    BY PbufInitInv
  <1>2. PbufInv /\ [PbufNext]_pbufVars => PbufInv'
    BY PbufNextInv
  <1>3. PbufInv => PacketBuffersOK
    BY IdleFacts DEF PbufInv, TotLenRight, PacketBuffersOK
  <1> QED BY <1>1, <1>2, <1>3, PTL DEF PbufSpec
=============================================================================
