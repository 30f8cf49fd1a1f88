---------------------------- MODULE MemoryProofs ----------------------------
(***************************************************************************)
(* Proofs about module Memory for every number of pages and every request  *)
(* bound: the block list is well formed in every reachable state, and the  *)
(* allocator implements PageAllocator.  The induction hypothesis names the *)
(* set L of nodes that are on the list; every action says which set takes  *)
(* its place.                                                              *)
(***************************************************************************)
EXTENDS Memory, TLAPS

Good(L) == IsBlockList(L) /\ StaleNodesFree(L) /\ FullyFused(L) /\ SearchSound(L)

IInv == TypeOK /\ BlockListOK
-----------------------------------------------------------------------------
\* The predecessor pointer of a listed block is the block that ends where it
\* starts; the head has none.
LEMMA PreListed ==
  ASSUME TypeOK, NEW L, IsBlockList(L), NEW p \in L, pre[p] # NULL
  PROVE  /\ pre[p] \in L
         /\ next[pre[p]] = p
         /\ pre[p] + b_pages[pre[p]] = p
<1>1. p \in Pages /\ p # blist /\ p - 1 \in Pages
  BY MemoryAssumption DEF IsBlockList, Pages, NULL, blist
<1>2. PICK i \in L : i <= p - 1 /\ p - 1 < i + b_pages[i]
  BY <1>1 DEF IsBlockList
<1>3. i \in Pages /\ b_pages[i] \in Nat
  BY <1>2 DEF IsBlockList, TypeOK
<1>4. i + b_pages[i] = p
  <2>1. p > i
    BY <1>1, <1>2, <1>3 DEF Pages
  <2>2. p >= i + b_pages[i]
    BY <2>1, <1>2 DEF IsBlockList
  <2> QED BY <2>2, <1>1, <1>2, <1>3 DEF Pages
<1>5. next[i] = p
  BY <1>1, <1>2, <1>4, MemoryAssumption DEF IsBlockList, Pages
<1>6. pre[p] = i
  BY <1>1, <1>2, <1>5 DEF IsBlockList, Pages, NULL
<1> QED BY <1>2, <1>4, <1>5, <1>6

\* The panics for a corrupted list are unreachable: a block that is in use is
\* on the list, and both links of a listed block are answered.
LEMMA NeverCorrupted ==
  ASSUME TypeOK, NEW L, Good(L), NEW p \in Pages, b_ref[p] > 0
  PROVE  p \in L /\ ~ListCorrupted(p)
<1>1. p \in L
  BY DEF Good, StaleNodesFree, TypeOK
<1>2. ASSUME FusesNext(p)
      PROVE  next[p] # blist /\ pre[next[p]] = p
  <2>1. next[p] # NULL
    BY <1>2 DEF FusesNext
  <2>2. pre[next[p]] = p /\ next[p] = p + b_pages[p] /\ b_pages[p] > 0
    BY <1>1, <2>1 DEF Good, IsBlockList
  <2> QED BY <2>2 DEF blist, Pages, TypeOK
<1>3. ASSUME FusesPre(p)
      PROVE  next[pre[p]] = p
  BY <1>1, <1>3, PreListed DEF Good, FusesPre
<1> QED BY <1>1, <1>2, <1>3 DEF ListCorrupted
-----------------------------------------------------------------------------
\* memory_init sets up a list of one free block.
LEMMA InitIInv == Init => IInv
<1> SUFFICES ASSUME Init PROVE IInv
  OBVIOUS
<1> USE MemoryAssumption DEF Init, memory_init
<1>1. TypeOK
  BY DEF TypeOK, Pages, NULL, blist
<1>2. IsBlockList({blist})
  <2>1. 0 \in Pages /\ b_pages[0] = NPages /\ next[0] = NULL /\ pre[0] = NULL
    BY DEF Pages, blist
  <2>2. \A q \in Pages : 0 <= q /\ q < 0 + b_pages[0]
    BY <2>1 DEF Pages
  <2> QED BY <2>1, <2>2 DEF IsBlockList, blist
<1>3. StaleNodesFree({blist}) /\ FullyFused({blist}) /\ SearchSound({blist})
  BY DEF StaleNodesFree, FullyFused, SearchSound, Pages, NULL, blist
<1>4. {blist} \in SUBSET Pages
  BY DEF Pages, blist
<1> QED BY <1>1, <1>2, <1>3, <1>4 DEF IInv, BlockListOK

\* A call of alloc_mem_pages starts its search at the head of the list.
LEMMA CallStep ==
  ASSUME TypeOK, NEW L, Good(L), NEW n \in Nat, alloc_mem_pages(n)
  PROVE  TypeOK' /\ Good(L)'
<1> USE DEF alloc_mem_pages, list
<1>1. TypeOK'
  BY MemoryAssumption DEF TypeOK, Pages, NULL, blist
<1>2. IsBlockList(L)' /\ StaleNodesFree(L)' /\ FullyFused(L)'
  BY DEF Good, IsBlockList, StaleNodesFree, FullyFused
<1>3. SearchSound(L)'
  BY DEF Good, IsBlockList, SearchSound, Pages, NULL, blist
<1> QED BY <1>1, <1>2, <1>3 DEF Good

\* Moving to the next block leaves only unfit blocks behind.
LEMMA SkipStep ==
  ASSUME TypeOK, NEW L, Good(L), AllocSkip
  PROVE  TypeOK' /\ Good(L)'
<1> USE DEF AllocSkip, Searching, list
<1>0. current_node \in L /\ current_node \in Pages
  BY DEF Good, SearchSound, TypeOK
<1>1. TypeOK'
  BY <1>0 DEF TypeOK
<1>2. IsBlockList(L)' /\ StaleNodesFree(L)' /\ FullyFused(L)'
  BY DEF Good, IsBlockList, StaleNodesFree, FullyFused
<1>3. SearchSound(L)'
  <2>1. current_node' # NULL => current_node' \in L
    BY <1>0 DEF Good, IsBlockList
  <2>2. ASSUME NEW i \in L, current_node' = NULL \/ i < current_node'
        PROVE  Unfit(i)'
    <3>1. i \in Pages /\ b_pages[current_node] \in Nat
      BY <1>0 DEF Good, IsBlockList, TypeOK
    <3>2. ~(i > current_node)
      <4>1. i > current_node => i >= current_node + b_pages[current_node]
        BY <1>0 DEF Good, IsBlockList
      <4> QED BY <4>1, <3>1, <1>0, <2>2, MemoryAssumption DEF Good, IsBlockList, Pages, NULL
    <3>3. Unfit(i)
      BY <3>1, <3>2, <1>0 DEF Good, SearchSound, Pages
    <3> QED BY <3>3 DEF Unfit
  <2> QED BY <2>1, <2>2 DEF SearchSound, TypeOK
<1> QED BY <1>1, <1>2, <1>3 DEF Good

\* A block of exactly the size asked for is taken as it is.
LEMMA ExactStep ==
  ASSUME TypeOK, NEW L, Good(L), AllocExact
  PROVE  TypeOK' /\ Good(L)'
<1> USE DEF AllocExact, Searching
<1>0. current_node \in L /\ current_node \in Pages
  BY DEF Good, SearchSound, TypeOK
<1>1. TypeOK'
  BY <1>0 DEF TypeOK
<1>2. IsBlockList(L)' /\ StaleNodesFree(L)'
  BY <1>0 DEF Good, IsBlockList, StaleNodesFree, TypeOK
<1>3. FullyFused(L)'
  BY <1>0 DEF Good, FullyFused, IsBlockList, TypeOK
<1>4. SearchSound(L)'
  BY DEF SearchSound
<1> QED BY <1>1, <1>2, <1>3, <1>4 DEF Good

\* The request is cut off the front of block c; its remainder becomes a listed
\* block of its own.
LEMMA SplitStep ==
  ASSUME TypeOK, NEW L, Good(L), AllocSplit
  PROVE  TypeOK' /\ ~panicked' /\ \E M \in SUBSET Pages : Good(M)'
<1> DEFINE c == current_node
           new == c + n_req
           after == next[c]
<1>0. c \in L /\ c \in Pages /\ n_req \in Nat /\ n_req > 0 /\ b_ref[c] = 0
  BY DEF AllocSplit, Searching, Unfit, Good, SearchSound, TypeOK
<1>1. L \subseteq Pages /\ c + b_pages[c] <= NPages /\ b_pages[c] \in Nat /\ n_req < b_pages[c]
  BY <1>0 DEF AllocSplit, Good, IsBlockList, TypeOK
<1>2. new \in Pages /\ new > c /\ new # NULL
  BY <1>0, <1>1, MemoryAssumption DEF Pages, NULL
<1>M. PICK M \in SUBSET Pages : M = L \union {new}
  BY <1>1, <1>2
<1>3. \A j \in L : j > c => j >= c + b_pages[c]
  BY <1>0 DEF Good, IsBlockList
<1>4. new \notin L
  BY <1>0, <1>1, <1>2, <1>3 DEF Pages
<1>5. b_ref[new] = 0
  BY <1>2, <1>4 DEF Good, StaleNodesFree
<1>6. /\ b_pages' = [b_pages EXCEPT ![new] = b_pages[c] - n_req, ![c] = n_req]
      /\ b_ref' = [b_ref EXCEPT ![new] = 0, ![c] = 1]
      /\ next' = [next EXCEPT ![new] = after, ![c] = new]
      /\ pre' = [i \in Pages |-> IF i = new THEN c ELSE IF i = after THEN new ELSE pre[i]]
      /\ ret' = c /\ n_req' = 0 /\ current_node' = NULL
      /\ panicked' = panicked /\ ~panicked
  BY <1>5 DEF AllocSplit, Searching
<1>7. after \in Pages \union {NULL}
  BY <1>0 DEF TypeOK
<1>8. TypeOK'
  BY <1>0, <1>1, <1>2, <1>6, <1>7 DEF TypeOK
<1>9. /\ b_pages'[c] = n_req /\ b_pages'[new] = b_pages[c] - n_req
      /\ next'[c] = new /\ next'[new] = after
      /\ \A i \in L \ {c} : b_pages'[i] = b_pages[i] /\ next'[i] = next[i]
      /\ b_ref'[c] = 1 /\ b_ref'[new] = 0
      /\ \A i \in Pages \ {c, new} : b_ref'[i] = b_ref[i]
  BY <1>0, <1>1, <1>2, <1>4, <1>6 DEF TypeOK
<1>10. after # NULL => after \in L /\ after = c + b_pages[c] /\ pre[after] = c
  BY <1>0 DEF Good, IsBlockList
<1>11. IsBlockList(M)'
  <2>1. M \subseteq Pages /\ blist \in M
    BY <1>M DEF Good, IsBlockList
  <2>2. pre'[blist] = NULL
    <3>1. blist \in Pages /\ pre[blist] = NULL /\ blist # new
      BY <1>4, MemoryAssumption DEF Good, IsBlockList, Pages, blist
    <3>2. blist # after
      BY <1>0, <1>1, <1>10 DEF Pages, blist, NULL
    <3> QED BY <3>1, <3>2, <1>6
  <2>3. ASSUME NEW i \in M
        PROVE  /\ b_pages'[i] > 0
               /\ i + b_pages'[i] <= NPages
               /\ next'[i] = IF i + b_pages'[i] = NPages THEN NULL ELSE i + b_pages'[i]
    <3>1. CASE i = c
      <4>1. new # NPages
        BY <1>2, MemoryAssumption DEF Pages
      <4> QED BY <4>1, <3>1, <1>0, <1>1, <1>9, MemoryAssumption DEF Pages
    <3>2. CASE i = new
      <4>1. next[c] = IF c + b_pages[c] = NPages THEN NULL ELSE c + b_pages[c]
        BY <1>0 DEF Good, IsBlockList
      <4> QED BY <4>1, <3>2, <1>0, <1>1, <1>2, <1>9 DEF Pages
    <3>3. CASE i \in L \ {c}
      BY <3>3, <1>9 DEF Good, IsBlockList
    <3> QED BY <3>1, <3>2, <3>3, <1>M
  <2>4. ASSUME NEW i \in M, next'[i] # NULL
        PROVE  next'[i] \in M /\ pre'[next'[i]] = i
    <3>1. CASE i = c
      BY <3>1, <1>2, <1>6, <1>9, <1>M
    <3>2. CASE i = new
      <4>1. after \in L /\ after # new
        BY <3>2, <2>4, <1>4, <1>9, <1>10
      <4>2. pre'[after] = new
        BY <4>1, <1>1, <1>6
      <4> QED BY <4>1, <4>2, <3>2, <1>9, <1>M
    <3>3. CASE i \in L \ {c}
      <4>1. next[i] \in L /\ pre[next[i]] = i
        BY <3>3, <2>4, <1>9 DEF Good, IsBlockList
      <4>2. next[i] # after /\ next[i] # new
        BY <4>1, <3>3, <1>4, <1>10, <2>4, <1>9
      <4>3. pre'[next[i]] = i
        BY <4>1, <4>2, <1>1, <1>6
      <4> QED BY <4>1, <4>3, <3>3, <1>9, <1>M
    <3> QED BY <3>1, <3>2, <3>3, <1>M
  <2>5. ASSUME NEW i \in M, NEW j \in M, j > i
        PROVE  j >= i + b_pages'[i]
    <3>0. i \in Pages /\ j \in Pages
      BY <2>1
    <3>1. CASE i = c
      <4>1. CASE j = new
        BY <3>0, <3>1, <4>1, <1>9
      <4>2. CASE j \in L
        BY <3>0, <3>1, <4>2, <2>5, <1>0, <1>1, <1>3, <1>9 DEF Pages
      <4> QED BY <4>1, <4>2, <1>M
    <3>2. CASE i = new
      <4>1. j \in L /\ j > c
        BY <3>0, <3>2, <2>5, <1>0, <1>2, <1>M DEF Pages
      <4> QED BY <3>0, <3>2, <4>1, <1>0, <1>1, <1>3, <1>9 DEF Pages
    <3>3. CASE i \in L \ {c}
      <4>0. b_pages[i] \in Nat
        BY <3>0 DEF TypeOK
      <4>1. CASE j \in L
        BY <3>3, <4>1, <2>5, <1>9 DEF Good, IsBlockList
      <4>2. CASE j = new
        <5>1. i < c
          <6>1. i > c => i >= c + b_pages[c]
            BY <3>3, <1>3
          <6> QED BY <6>1, <3>0, <3>3, <4>2, <2>5, <1>0, <1>1 DEF Pages
        <5>2. c >= i + b_pages[i]
          BY <5>1, <3>0, <3>3, <1>0 DEF Good, IsBlockList, Pages
        <5> QED BY <5>2, <4>0, <4>2, <3>0, <3>3, <1>0, <1>2, <1>9 DEF Pages
      <4> QED BY <4>1, <4>2, <1>M
    <3> QED BY <3>1, <3>2, <3>3, <1>M
  <2>6. ASSUME NEW q \in Pages
        PROVE  \E i \in M : i <= q /\ q < i + b_pages'[i]
    <3>1. PICK i \in L : i <= q /\ q < i + b_pages[i]
      BY DEF Good, IsBlockList
    <3>2. CASE i # c
      BY <3>1, <3>2, <1>9, <1>M
    <3>3. CASE i = c /\ q < new
      BY <3>1, <3>3, <1>9, <1>M
    <3>4. CASE i = c /\ q >= new
      <4>1. q < new + b_pages'[new]
        BY <3>1, <3>4, <1>0, <1>1, <1>9 DEF Pages
      <4> QED BY <4>1, <3>4, <1>M
    <3> QED BY <3>2, <3>3, <3>4, <1>2 DEF Pages
  <2> QED BY <2>1, <2>2, <2>3, <2>4, <2>5, <2>6 DEF IsBlockList
<1>12. StaleNodesFree(M)'
  BY <1>0, <1>9, <1>M DEF Good, StaleNodesFree
<1>13. FullyFused(M)'
  <2> SUFFICES ASSUME NEW i \in M, next'[i] # NULL
               PROVE  b_ref'[i] > 0 \/ b_ref'[next'[i]] > 0
    BY DEF FullyFused
  <2>1. CASE i = c
    BY <2>1, <1>9
  <2>2. CASE i = new
    <3>1. b_ref[after] > 0
      BY <2>2, <1>0, <1>9 DEF Good, FullyFused
    <3>2. after \in Pages /\ after # c /\ after # new
      BY <2>2, <1>0, <1>1, <1>4, <1>9, <1>10 DEF Pages
    <3> QED BY <3>1, <3>2, <2>2, <1>9
  <2>3. CASE i \in L \ {c}
    <3>1. next[i] \in L /\ (b_ref[i] > 0 \/ b_ref[next[i]] > 0)
      BY <2>3, <1>9 DEF Good, IsBlockList, FullyFused
    <3> QED BY <3>1, <2>3, <1>0, <1>1, <1>4, <1>9
  <2> QED BY <2>1, <2>2, <2>3, <1>M
<1>14. SearchSound(M)'
  BY <1>6 DEF SearchSound
<1> QED BY <1>6, <1>8, <1>11, <1>12, <1>13, <1>14 DEF Good

\* Taking or dropping a reference while others remain leaves the list alone.
LEMMA SharedStep ==
  ASSUME TypeOK, NEW L, Good(L), NEW p \in Pages,
         realloc_mem_block(p) \/ FreeFree(p) \/ FreeShared(p)
  PROVE  TypeOK' /\ Good(L)'
<1>1. b_ref[p] \in Nat
  BY DEF TypeOK
<1>2. CASE b_ref[p] = 0
  <2>1. Panic
    BY <1>2 DEF realloc_mem_block, FreeFree, FreeShared
  <2>2. TypeOK' /\ IsBlockList(L)' /\ StaleNodesFree(L)' /\ FullyFused(L)'
    BY <2>1, MemoryAssumption
    DEF Panic, TypeOK, Good, IsBlockList, StaleNodesFree, FullyFused, NULL
  <2>3. SearchSound(L)'
    BY <2>1 DEF Panic, Good, SearchSound, Unfit
  <2> QED BY <2>2, <2>3 DEF Good
<1>3. CASE b_ref[p] > 0
  <2>1. /\ b_pages' = b_pages /\ next' = next /\ pre' = pre
        /\ current_node' = current_node /\ n_req' = n_req /\ panicked' = panicked
        /\ ret' \in {p, NULL}
        /\ n_req = 0
    BY <1>3 DEF realloc_mem_block, FreeFree, FreeShared, Idle
  <2>2. PICK r \in Nat : r > 0 /\ b_ref' = [b_ref EXCEPT ![p] = r]
    BY <1>1, <1>3 DEF realloc_mem_block, FreeFree, FreeShared
  <2>3. TypeOK'
    BY <2>1, <2>2 DEF TypeOK
  <2>4. IsBlockList(L)'
    BY <2>1 DEF Good, IsBlockList
  <2>5. \A i \in Pages : b_ref'[i] > 0 <=> b_ref[i] > 0
    BY <1>3, <2>2 DEF TypeOK
  <2>6. \A i \in Pages : b_ref'[i] = 0 <=> b_ref[i] = 0
    BY <1>3, <2>2 DEF TypeOK
  <2>7. StaleNodesFree(L)'
    BY <2>6 DEF Good, StaleNodesFree
  <2>8. FullyFused(L)'
    BY <2>1, <2>5 DEF Good, IsBlockList, FullyFused
  <2>9. SearchSound(L)'
    BY <2>1 DEF Good, SearchSound
  <2> QED BY <2>3, <2>4, <2>7, <2>8, <2>9 DEF Good
<1> QED BY <1>1, <1>2, <1>3

\* The last reference to p goes.  The nodes fused away leave the list: the free
\* block after p, and p itself when the block before it is free.
LEMMA LastStep ==
  ASSUME TypeOK, NEW L, Good(L), NEW p \in Pages, FreeLast(p)
  PROVE  TypeOK' /\ ~panicked' /\ \E M \in SUBSET Pages : Good(M)'
<1> DEFINE q == pre[p]
           x == next[p]
           y == NextOf(p)
           n == PagesOf(p)
           h == IF FusesPre(p) THEN q ELSE p
<1>0. p \in L /\ ~ListCorrupted(p) /\ b_ref[p] = 1
  BY NeverCorrupted DEF FreeLast
<1>1. /\ L \subseteq Pages /\ NPages \in Nat
      /\ \A i \in L : i \in Int /\ b_pages[i] \in Nat /\ i >= 0 /\ i < NPages
  <2>1. L \subseteq Pages /\ NPages \in Nat
    BY MemoryAssumption DEF Good, IsBlockList
  <2>2. \A i \in Pages : i \in Int /\ b_pages[i] \in Nat /\ i >= 0 /\ i < NPages
    BY <2>1 DEF TypeOK, Pages
  <2> QED BY <2>1, <2>2
<1>2. PICK M \in SUBSET Pages :
        M = {i \in L : (FusesNext(p) => i # x) /\ (FusesPre(p) => i # p)}
  BY <1>1
<1>3. /\ b_pages' = [i \in Pages |-> IF i = p THEN n
                                    ELSE IF FusesPre(p) /\ i = q THEN b_pages[q] + n
                                    ELSE b_pages[i]]
      /\ next' = [i \in Pages |-> IF i = p \/ (FusesPre(p) /\ i = q) THEN y ELSE next[i]]
      /\ pre' = [i \in Pages |-> IF i # y THEN pre[i]
                                ELSE IF FusesPre(p) THEN q
                                ELSE IF FusesNext(p) THEN p
                                ELSE pre[i]]
      /\ b_ref' = [b_ref EXCEPT ![p] = 0]
      /\ ret' = NULL /\ current_node' = current_node /\ n_req' = n_req /\ n_req = 0
      /\ panicked' = panicked /\ ~panicked
  BY <1>0 DEF FreeLast, Idle
<1>4. /\ b_pages[p] > 0 /\ p + b_pages[p] <= NPages
      /\ x = IF p + b_pages[p] = NPages THEN NULL ELSE p + b_pages[p]
      /\ x # NULL => x \in L /\ pre[x] = p
  BY <1>0 DEF Good, IsBlockList
<1>5. FusesNext(p) =>
        /\ x \in L /\ x = p + b_pages[p] /\ b_ref[x] = 0
        /\ n = b_pages[p] + b_pages[x] /\ y = next[x]
  BY <1>4 DEF FusesNext, PagesOf, NextOf
<1>6. ~FusesNext(p) => n = b_pages[p] /\ y = x
  BY <1>0, <1>1 DEF PagesOf, NextOf
<1>7. /\ n \in Nat /\ n > 0 /\ p + n <= NPages
      /\ y = IF p + n = NPages THEN NULL ELSE p + n
      /\ y # NULL => y \in L
  <2>1. CASE FusesNext(p)
    <3>1. /\ b_pages[x] > 0 /\ x + b_pages[x] <= NPages
          /\ next[x] = IF x + b_pages[x] = NPages THEN NULL ELSE x + b_pages[x]
          /\ next[x] # NULL => next[x] \in L
      BY <2>1, <1>5 DEF Good, IsBlockList
    <3> QED BY <2>1, <3>1, <1>0, <1>1, <1>4, <1>5
  <2>2. CASE ~FusesNext(p)
    BY <2>2, <1>0, <1>1, <1>4, <1>6
  <2> QED BY <2>1, <2>2
<1>8. FusesPre(p) => q \in L /\ next[q] = p /\ q + b_pages[q] = p /\ b_ref[q] = 0
  BY <1>0, PreListed DEF Good, FusesPre
<1>9. h \in L /\ h <= p /\ h \in M /\ (h # p => FusesPre(p) /\ b_ref[h] = 0 /\ h + b_pages[h] = p)
  <2>1. CASE FusesPre(p)
    <3>1. q < p
      BY <2>1, <1>0, <1>1, <1>8 DEF Good, IsBlockList
    <3> QED BY <2>1, <3>1, <1>0, <1>1, <1>2, <1>5, <1>8
  <2>2. CASE ~FusesPre(p)
    BY <2>2, <1>0, <1>1, <1>2, <1>4, <1>5
  <2> QED BY <2>1, <2>2
\* Block h now reaches from its start to p + n, and is followed by y.
<1>10. /\ b_pages'[h] = (p - h) + n
       /\ next'[h] = y
       /\ \A i \in M \ {h} : b_pages'[i] = b_pages[i] /\ next'[i] = next[i]
  <2>1. CASE FusesPre(p)
    BY <2>1, <1>0, <1>1, <1>2, <1>3, <1>7, <1>8, <1>9
  <2>2. CASE ~FusesPre(p)
    BY <2>2, <1>0, <1>1, <1>2, <1>3, <1>7
  <2> QED BY <2>1, <2>2
<1>11. \A i \in M \ {h} : i < h \/ i >= p + n
  <2> SUFFICES ASSUME NEW i \in M, i # h, i >= h
               PROVE  i >= p + n
    BY <1>1, <1>2, <1>9
  <2>0. i \in L /\ i > h /\ (FusesNext(p) => i # x)
    BY <1>1, <1>2, <1>9
  <2>1. i > p
    <3>1. i >= h + b_pages[h]
      BY <2>0, <1>9 DEF Good, IsBlockList
    <3> QED BY <3>1, <2>0, <1>0, <1>1, <1>2, <1>9
  <2>2. i >= p + b_pages[p]
    BY <2>0, <2>1, <1>0 DEF Good, IsBlockList
  <2>3. CASE ~FusesNext(p)
    BY <2>2, <2>3, <1>6
  <2>4. CASE FusesNext(p)
    <3>1. i > x
      BY <2>0, <2>2, <2>4, <1>1, <1>5
    <3>2. i >= x + b_pages[x]
      BY <3>1, <2>0, <2>4, <1>5 DEF Good, IsBlockList
    <3> QED BY <3>2, <2>4, <1>0, <1>1, <1>5
  <2> QED BY <2>3, <2>4
<1>12. TypeOK'
  <2>1. y \in Pages \union {NULL} /\ q \in Pages \union {NULL}
    BY <1>1, <1>7 DEF TypeOK
  <2>2. \A i \in Pages : b_pages[i] \in Nat /\ b_pages[i] + n \in Nat
    BY <1>7 DEF TypeOK
  <2>3. b_pages' \in [Pages -> Nat]
    BY <2>2, <1>3, <1>7
  <2>4. FusesPre(p) => q \in Pages
    BY <1>1, <1>8
  <2>5. next' \in [Pages -> Pages \union {NULL}] /\ pre' \in [Pages -> Pages \union {NULL}]
    BY <2>1, <1>3 DEF TypeOK
  <2> QED BY <2>3, <2>5, <1>3 DEF TypeOK
<1>13. ASSUME NEW i \in M \ {h}
       PROVE  i \in L /\ i # p /\ (FusesNext(p) => i # x)
  BY <1>2
<1>14. y # NULL => y \in M /\ y # h /\ pre'[y] = h
  <2> SUFFICES ASSUME y # NULL
               PROVE  y \in M /\ y # h /\ pre'[y] = h
    OBVIOUS
  <2>1. y \in L /\ y = p + n /\ y \in Pages
    BY <1>1, <1>7
  <2>2. y > p /\ (FusesNext(p) => y > x)
    <3>1. FusesNext(p) => b_pages[x] > 0
      BY <1>5 DEF Good, IsBlockList
    <3> QED BY <3>1, <2>1, <1>0, <1>1, <1>4, <1>5, <1>7
  <2>3. y \in M /\ y # h
    BY <2>1, <2>2, <1>0, <1>1, <1>2, <1>5, <1>9
  <2>4. CASE FusesPre(p)
    BY <2>1, <2>3, <2>4, <1>3
  <2>5. CASE ~FusesPre(p) /\ FusesNext(p)
    BY <2>1, <2>3, <2>5, <1>3
  <2>6. CASE ~FusesPre(p) /\ ~FusesNext(p)
    BY <2>1, <2>3, <2>6, <1>3, <1>4, <1>6
  <2> QED BY <2>3, <2>4, <2>5, <2>6
<1>15. ASSUME NEW i \in M \ {h}, next[i] # NULL
       PROVE  next[i] \in M /\ pre'[next[i]] = i
  <2>1. i \in L /\ i # p /\ next[i] \in L /\ pre[next[i]] = i
    BY <1>13, <1>15 DEF Good, IsBlockList
  <2>2. FusesNext(p) => next[i] # x
    BY <2>1, <1>4, <1>5 DEF FusesNext
  <2>3. FusesPre(p) => next[i] # p
    BY <2>1
  <2>4. next[i] \in M
    BY <2>1, <2>2, <2>3, <1>2
  <2>5. next[i] # y
    <3>1. CASE FusesNext(p)
      <4>1. y # NULL => pre[y] = x
        BY <3>1, <1>5 DEF Good, IsBlockList
      <4> QED BY <4>1, <3>1, <2>1, <1>13, <1>15
    <3>2. CASE ~FusesNext(p)
      BY <3>2, <2>1, <1>4, <1>6, <1>15
    <3> QED BY <3>1, <3>2
  <2> QED BY <2>1, <2>4, <2>5, <1>1, <1>3
<1>16. IsBlockList(M)'
  <2>1. blist \in M /\ pre'[blist] = NULL
    <3>1. blist \in L /\ blist \in Pages /\ pre[blist] = NULL /\ blist <= p
      BY <1>0, <1>1 DEF Good, IsBlockList, blist
    <3>2. FusesNext(p) => blist # x
      BY <3>1, <1>0, <1>1, <1>4, <1>5 DEF blist
    <3>3. FusesPre(p) => blist # p
      BY <3>1 DEF FusesPre
    <3>4. blist # y
      BY <1>0, <1>1, <1>7 DEF blist, NULL
    <3> QED BY <3>1, <3>2, <3>3, <3>4, <1>2, <1>3
  <2>2. ASSUME NEW i \in M
        PROVE  /\ b_pages'[i] > 0
               /\ i + b_pages'[i] <= NPages
               /\ next'[i] = IF i + b_pages'[i] = NPages THEN NULL ELSE i + b_pages'[i]
    <3>1. CASE i = h
      BY <3>1, <1>0, <1>1, <1>7, <1>9, <1>10
    <3>2. CASE i # h
      BY <3>2, <1>10, <1>13 DEF Good, IsBlockList
    <3> QED BY <3>1, <3>2
  <2>3. ASSUME NEW i \in M, next'[i] # NULL
        PROVE  next'[i] \in M /\ pre'[next'[i]] = i
    BY <2>3, <1>10, <1>14, <1>15
  <2>4. ASSUME NEW i \in M, NEW j \in M, j > i
        PROVE  j >= i + b_pages'[i]
    <3>1. CASE i = h
      <4>1. i \in Int /\ j \in Int /\ j # h
        BY <3>1, <2>4, <1>1, <1>2
      <4> QED BY <4>1, <3>1, <2>4, <1>0, <1>1, <1>7, <1>9, <1>10, <1>11
    <3>2. CASE i # h
      <4>1. j >= i + b_pages[i]
        BY <3>2, <2>4, <1>2 DEF Good, IsBlockList
      <4> QED BY <4>1, <3>2, <1>10
    <3> QED BY <3>1, <3>2
  <2>5. ASSUME NEW r \in Pages
        PROVE  \E i \in M : i <= r /\ r < i + b_pages'[i]
    <3>1. PICK i \in L : i <= r /\ r < i + b_pages[i]
      BY DEF Good, IsBlockList
    <3>2. CASE i \in M \ {h}
      BY <3>1, <3>2, <1>10
    <3>3. CASE i = h \/ i \notin M
      <4>1. h <= i /\ i + b_pages[i] <= p + n
        <5>1. CASE i = h
          BY <5>1, <1>0, <1>1, <1>5, <1>6, <1>7, <1>9
        <5>2. CASE i = p
          BY <5>2, <1>0, <1>1, <1>5, <1>6, <1>9
        <5>3. CASE i = x /\ FusesNext(p)
          BY <5>3, <1>0, <1>1, <1>5, <1>9
        <5> QED BY <5>1, <5>2, <5>3, <3>3, <1>2
      <4> HIDE DEF h, n
      <4>2. /\ r \in Int /\ p \in Int /\ h \in Int /\ n \in Int
            /\ i \in Int /\ b_pages[i] \in Int
        BY <1>0, <1>1, <1>7, <1>9 DEF Pages
      <4>3. r < p + n /\ h <= r
        BY <4>1, <4>2, <3>1
      <4>4. r < h + b_pages'[h]
        BY <4>2, <4>3, <1>10
      <4> QED BY <4>3, <4>4, <1>9
    <3> QED BY <3>2, <3>3
  <2> QED BY <2>1, <2>2, <2>3, <2>4, <2>5 DEF IsBlockList
<1>17. b_ref'[p] = 0 /\ \A i \in Pages \ {p} : b_ref'[i] = b_ref[i]
  BY <1>3 DEF TypeOK
<1>18. StaleNodesFree(M)'
  BY <1>2, <1>5, <1>17 DEF Good, StaleNodesFree
<1>19. FullyFused(M)'
  <2> SUFFICES ASSUME NEW i \in M, next'[i] # NULL
               PROVE  b_ref'[i] > 0 \/ b_ref'[next'[i]] > 0
    BY DEF FullyFused
  <2>1. CASE i = h
    <3>1. next'[i] = y /\ y \in L /\ y # p /\ y \in Pages
      BY <2>1, <1>0, <1>1, <1>7, <1>10
    <3>2. b_ref[y] > 0
      <4>1. CASE FusesNext(p)
        BY <4>1, <3>1, <1>5 DEF Good, FullyFused
      <4>2. CASE ~FusesNext(p)
        BY <4>2, <3>1, <1>6 DEF FusesNext, TypeOK
      <4> QED BY <4>1, <4>2
    <3> QED BY <3>1, <3>2, <1>17
  <2>2. CASE i # h
    <3>1. i \in L /\ i # p /\ next'[i] = next[i] /\ next[i] \in L /\ pre[next[i]] = i
      BY <2>2, <1>10, <1>13 DEF Good, IsBlockList
    <3>2. b_ref[i] > 0 \/ b_ref[next[i]] > 0
      BY <3>1 DEF Good, FullyFused
    <3>3. CASE next[i] = p
      <4>1. i = q /\ q # NULL
        BY <3>1, <3>3, <1>1 DEF NULL
      <4>2. b_ref[i] > 0
        BY <4>1, <2>2, <3>1, <1>1 DEF FusesPre, TypeOK
      <4> QED BY <4>2, <3>1, <1>1, <1>17
    <3>4. CASE next[i] # p
      BY <3>1, <3>2, <3>4, <1>1, <1>17
    <3> QED BY <3>3, <3>4
  <2> QED BY <2>1, <2>2
<1>20. SearchSound(M)'
  BY <1>3 DEF Good, SearchSound
<1> QED BY <1>3, <1>12, <1>16, <1>18, <1>19, <1>20 DEF Good
-----------------------------------------------------------------------------
\* Every step keeps the inductive invariant, one case per action.
LEMMA NextIInv == IInv /\ [Next]_vars => IInv'
<1> SUFFICES ASSUME IInv, [Next]_vars PROVE IInv'
  OBVIOUS
<1>0. TypeOK
  BY DEF IInv
<1>1. PICK L \in SUBSET Pages : Good(L)
  BY DEF IInv, BlockListOK, Good
<1> USE <1>0, <1>1
<1>2. (TypeOK' /\ Good(L)') => IInv'
  BY DEF IInv, BlockListOK, Good
<1>3. (TypeOK' /\ \E M \in SUBSET Pages : Good(M)') => IInv'
  BY DEF IInv, BlockListOK, Good
<1>4. ASSUME NEW n \in 0 .. MaxReq, alloc_mem_pages(n) PROVE IInv'
  <2>1. n \in Nat
    BY MemoryAssumption
  <2> QED BY <1>4, <2>1, <1>2, CallStep
<1>5. CASE AllocSkip
  BY <1>5, <1>2, SkipStep
<1>6. CASE AllocExact
  BY <1>6, <1>2, ExactStep
<1>7. CASE AllocSplit
  BY <1>7, <1>3, SplitStep
<1>8. CASE AllocFail
  BY <1>8, <1>2 DEF AllocFail, Searching, list, TypeOK, Good, IsBlockList,
     StaleNodesFree, FullyFused, SearchSound
<1>9. ASSUME NEW p \in Pages, realloc_mem_block(p) \/ free_mem_pages(p) PROVE IInv'
  BY <1>9, <1>2, <1>3, SharedStep, LastStep DEF free_mem_pages
<1>10. CASE UNCHANGED vars
  BY <1>10, <1>2 DEF vars, TypeOK, Good, IsBlockList, StaleNodesFree, FullyFused,
     SearchSound, Unfit
<1> QED BY <1>4, <1>5, <1>6, <1>7, <1>8, <1>9, <1>10 DEF Next

\* In every reachable state of the allocator, whatever calls were made, the
\* block list partitions memory into doubly linked blocks with free neighbours
\* fused, and the running search has passed only blocks that do not fit.
THEOREM BlockListCorrect == Spec => [](TypeOK /\ BlockListOK)
<1>1. Init => IInv
  BY InitIInv
<1>2. IInv /\ [Next]_vars => IInv'
  BY NextIInv
<1> QED BY <1>1, <1>2, PTL DEF Spec, IInv
-----------------------------------------------------------------------------
(* Refinement *)

Held(s) == IF b_ref[s] > 0 THEN b_pages[s] ELSE 0

\* A run of free pages lies inside one free block, because free neighbours are
\* fused: where a request fits, some listed block at or before it is large enough.
LEMMA FitIsInABlock ==
  ASSUME TypeOK, NEW L, Good(L), n_req > 0,
         NEW x \in Pages, Abstract!Fits(x, n_req)
  PROVE  \E i \in L : i <= x /\ ~Unfit(i)
<1>0. NPages \in Nat /\ n_req \in Nat /\ x \in Nat /\ x + n_req <= NPages
  BY MemoryAssumption DEF TypeOK, Pages, Abstract!Fits
<1>1. \A r \in x .. x + n_req - 1 : \A s \in Pages : ~(s <= r /\ r < s + Held(s))
  BY DEF Abstract!Fits, Abstract!Taken, Abstract!Pages, Pages, Held
<1>2. PICK i \in L : i <= x /\ x < i + b_pages[i]
  BY DEF Good, IsBlockList
<1>3. i \in Pages /\ i \in Nat /\ b_pages[i] \in Nat /\ b_ref[i] \in Nat
  BY <1>0 DEF Good, IsBlockList, TypeOK, Pages
<1>4. b_ref[i] = 0
  <2>1. x \in x .. x + n_req - 1
    BY <1>0
  <2>2. ~(x < i + Held(i))
    BY <2>1, <1>1, <1>2, <1>3
  <2> QED BY <2>2, <1>2, <1>3 DEF Held
<1>5. ~(b_pages[i] < n_req)
  <2> SUFFICES ASSUME b_pages[i] < n_req PROVE FALSE
    OBVIOUS
  <2> DEFINE e == i + b_pages[i]
  <2>1. e \in x .. x + n_req - 1 /\ e # NPages
    BY <1>0, <1>2, <1>3
  <2>2. next[i] = e /\ e # NULL
    BY <2>1, <1>0, <1>2 DEF Good, IsBlockList, NULL
  <2>3. e \in L /\ e \in Pages
    BY <2>2, <1>2 DEF Good, IsBlockList
  <2>4. b_ref[e] > 0
    BY <2>2, <1>2, <1>4 DEF Good, FullyFused
  <2>5. b_pages[e] > 0 /\ b_pages[e] \in Nat
    BY <2>3 DEF Good, IsBlockList, TypeOK
  <2>6. Held(e) = b_pages[e]
    BY <2>4 DEF Held
  <2> QED BY <2>1, <2>3, <2>5, <2>6, <1>0, <1>1, <1>3
<1> QED BY <1>2, <1>4, <1>5 DEF Unfit

\* The block the search stops at is the lowest place where the request fits.
LEMMA LowestFit ==
  ASSUME TypeOK, NEW L, Good(L), Searching, current_node # NULL, ~Unfit(current_node)
  PROVE  /\ Abstract!Fits(current_node, n_req)
         /\ \A x \in Pages : Abstract!Fits(x, n_req) => current_node <= x
<1> DEFINE c == current_node
<1>0. /\ c \in L /\ c \in Pages /\ c \in Nat /\ NPages \in Nat
      /\ n_req \in Nat /\ n_req > 0
      /\ b_pages[c] \in Nat /\ b_pages[c] >= n_req /\ b_ref[c] = 0
      /\ c + b_pages[c] <= NPages
  <2>1. c \in L /\ n_req \in Nat /\ n_req > 0 /\ NPages \in Nat
    BY MemoryAssumption DEF Searching, Good, SearchSound, TypeOK
  <2>2. c \in Pages /\ c + b_pages[c] <= NPages
    BY <2>1 DEF Good, IsBlockList
  <2>3. c \in Nat /\ b_pages[c] \in Nat /\ b_ref[c] \in Nat
    BY <2>1, <2>2 DEF TypeOK, Pages
  <2> QED BY <2>1, <2>2, <2>3 DEF Unfit
<1>1. Abstract!Fits(c, n_req)
  <2>1. ASSUME NEW r \in c .. c + n_req - 1, NEW s \in Pages, s <= r, r < s + Held(s)
        PROVE  FALSE
    <3>1. b_ref[s] > 0 /\ Held(s) = b_pages[s] /\ b_pages[s] \in Nat /\ s \in Nat
      BY <2>1, <1>0 DEF Held, TypeOK, Pages
    <3>2. s \in L /\ s # c
      BY <3>1, <1>0 DEF Good, StaleNodesFree
    <3>3. s > c => s >= c + b_pages[c]
      BY <3>2, <1>0 DEF Good, IsBlockList
    <3>4. c > s => c >= s + b_pages[s]
      BY <3>2, <1>0 DEF Good, IsBlockList
    <3> QED BY <2>1, <3>1, <3>2, <3>3, <3>4, <1>0
  <2>2. c + n_req <= NPages
    BY <1>0
  <2> QED BY <2>1, <2>2 DEF Abstract!Fits, Abstract!Taken, Abstract!Pages, Pages, Held
<1>2. ASSUME NEW x \in Pages, Abstract!Fits(x, n_req) PROVE c <= x
  <2>1. PICK i \in L : i <= x /\ ~Unfit(i)
    BY <1>0, <1>2, FitIsInABlock
  <2>2. ~(i < c)
    BY <2>1, <1>0 DEF Good, SearchSound
  <2> QED BY <2>1, <2>2, <1>0 DEF Good, IsBlockList, Pages
<1> QED BY <1>1, <1>2

\* The initial state maps to the initial state of the abstract allocator.
LEMMA InitRefines == Init => Abstract!Init
  BY DEF Init, memory_init, Abstract!Init, Abstract!Pages, Abstract!NoPage, Pages, NULL

\* Every step maps to a step of the abstract allocator or changes nothing there.
LEMMA NextRefines == IInv /\ [Next]_vars => [Abstract!Next]_(Abstract!avars)
<1> SUFFICES ASSUME IInv, [Next]_vars
             PROVE  Abstract!Next \/ UNCHANGED Abstract!avars
  OBVIOUS
<1>0. TypeOK
  BY DEF IInv
<1>1. PICK L \in SUBSET Pages : Good(L)
  BY DEF IInv, BlockListOK, Good
<1> USE <1>0, <1>1
<1>P. Abstract!Pages = Pages /\ Abstract!NoPage = NULL
  BY DEF Abstract!Pages, Pages, Abstract!NoPage, NULL
<1>2. ASSUME NEW n \in 0 .. MaxReq, alloc_mem_pages(n) PROVE Abstract!Ask
  BY <1>2, <1>P, MemoryAssumption DEF alloc_mem_pages, list, Idle, Abstract!Ask
<1>3. CASE AllocSkip
  BY <1>3 DEF AllocSkip, list, Abstract!avars
<1>4. CASE AllocExact
  <2> DEFINE c == current_node
  <2>1. c \in Pages /\ n_req > 0 /\ ~panicked /\ ~Unfit(c)
    BY <1>4 DEF AllocExact, Searching, TypeOK
  <2>2. /\ b_pages' = b_pages /\ b_pages[c] = n_req
        /\ b_ref' = [b_ref EXCEPT ![c] = 1]
        /\ ret' = c /\ n_req' = 0 /\ panicked' = panicked
    BY <1>4 DEF AllocExact
  <2>3. \A s \in Pages : Held(s)' = IF s = c THEN n_req ELSE Held(s)
    BY <2>1, <2>2 DEF Held, TypeOK
  <2>4. [s \in Pages |-> Held(s)]' = [[s \in Pages |-> Held(s)] EXCEPT ![c] = n_req]
    BY <2>1, <2>3
  <2>5. Abstract!Fits(c, n_req) /\ \A x \in Pages : Abstract!Fits(x, n_req) => c <= x
    BY <1>4, LowestFit DEF AllocExact
  <2>6. PICK k \in Pages : k = c
    BY <2>1
  <2>7. Abstract!Grant(k)
    BY <2>1, <2>2, <2>4, <2>5, <2>6, <1>P DEF Abstract!Grant, Held
  <2> QED BY <2>7, <1>P DEF Abstract!Next
<1>5. CASE AllocSplit
  <2> DEFINE c == current_node
             new == c + n_req
  <2>1. c \in Pages /\ n_req \in Nat /\ n_req > 0 /\ ~panicked /\ ~panicked'
    BY <1>5, SplitStep DEF AllocSplit, Searching, TypeOK
  <2>2. /\ b_pages' = [b_pages EXCEPT ![new] = b_pages[c] - n_req, ![c] = n_req]
        /\ b_ref' = [b_ref EXCEPT ![new] = 0, ![c] = 1]
        /\ ret' = c /\ n_req' = 0 /\ panicked' = panicked
        /\ ~(b_ref[new] > 0)
    BY <1>5, <2>1 DEF AllocSplit, Panic
  <2>3. new \in Pages /\ b_ref[new] = 0 /\ new # c
    <3>1. c + b_pages[c] <= NPages /\ b_pages[c] > n_req /\ b_pages[c] \in Nat
      BY <1>5, <2>1 DEF AllocSplit, Searching, Good, IsBlockList, SearchSound, TypeOK
    <3>2. new \in Pages /\ new # c
      BY <3>1, <2>1, MemoryAssumption DEF Pages
    <3> QED BY <3>2, <2>2 DEF TypeOK
  <2>4. \A s \in Pages : Held(s)' = IF s = c THEN n_req ELSE Held(s)
    BY <2>1, <2>2, <2>3 DEF Held, TypeOK
  <2>5. \A s \in Pages : b_ref'[s] = IF s = c THEN 1 ELSE b_ref[s]
    BY <2>1, <2>2, <2>3 DEF TypeOK
  <2>6. b_ref' = [b_ref EXCEPT ![c] = 1]
    BY <2>1, <2>2, <2>3, <2>5 DEF TypeOK
  <2>7. [s \in Pages |-> Held(s)]' = [[s \in Pages |-> Held(s)] EXCEPT ![c] = n_req]
    BY <2>1, <2>4
  <2>8. Abstract!Fits(c, n_req) /\ \A x \in Pages : Abstract!Fits(x, n_req) => c <= x
    BY <1>5, LowestFit DEF AllocSplit
  <2>9. PICK k \in Pages : k = c
    BY <2>1
  <2>10. Abstract!Grant(k)
    BY <2>1, <2>2, <2>6, <2>7, <2>8, <2>9, <1>P DEF Abstract!Grant, Held
  <2> QED BY <2>10, <1>P DEF Abstract!Next
<1>6. CASE AllocFail
  <2>1. \A x \in Pages : ~Abstract!Fits(x, n_req)
    BY <1>6, FitIsInABlock DEF AllocFail, Searching, Good, SearchSound
  <2> QED BY <1>6, <2>1, <1>P DEF AllocFail, Searching, list, Abstract!Refuse, Abstract!Next
<1>7. ASSUME NEW p \in Pages, realloc_mem_block(p)
      PROVE  Abstract!Share(p) \/ Abstract!Misuse(p)
  <2>1. CASE b_ref[p] = 0
    BY <1>7, <2>1, <1>P DEF realloc_mem_block, Panic, Idle, Abstract!Misuse
  <2>2. CASE b_ref[p] > 0
    BY <1>7, <2>2 DEF realloc_mem_block, Idle, TypeOK, Abstract!Share
  <2> QED BY <2>1, <2>2 DEF TypeOK
<1>8. ASSUME NEW p \in Pages, FreeFree(p) PROVE Abstract!Misuse(p)
  BY <1>8, <1>P DEF FreeFree, Panic, Idle, Abstract!Misuse
<1>9. ASSUME NEW p \in Pages, FreeShared(p) PROVE Abstract!Release(p)
  BY <1>9, <1>P DEF FreeShared, Idle, TypeOK, Abstract!Release
<1>10. ASSUME NEW p \in Pages, FreeLast(p) PROVE Abstract!Release(p)
  <2>1. p \in L /\ ~ListCorrupted(p) /\ b_ref[p] = 1
    <3>1. b_ref[p] = 1
      BY <1>10 DEF FreeLast
    <3>2. b_ref[p] > 0
      BY <3>1
    <3>3. p \in L /\ ~ListCorrupted(p)
      BY <3>2, NeverCorrupted
    <3> QED BY <3>1, <3>3
  <2>2. /\ b_pages' = [i \in Pages |-> IF i = p THEN PagesOf(p)
                                      ELSE IF FusesPre(p) /\ i = pre[p] THEN b_pages[pre[p]] + PagesOf(p)
                                      ELSE b_pages[i]]
        /\ b_ref' = [b_ref EXCEPT ![p] = 0]
        /\ ret' = NULL /\ n_req' = n_req /\ panicked' = panicked /\ Idle
    BY <1>10, <2>1 DEF FreeLast
  <2>3. \A s \in Pages : Held(s)' = IF s = p THEN 0 ELSE Held(s)
    BY <2>1, <2>2 DEF Held, FusesPre, TypeOK
  <2>4. [s \in Pages |-> Held(s)]' = [[s \in Pages |-> Held(s)] EXCEPT ![p] = 0]
    BY <2>3
  <2> QED BY <2>1, <2>2, <2>4, <1>P, SMTT(30) DEF Abstract!Release, Held, Idle
<1>11. CASE UNCHANGED vars
  BY <1>11 DEF vars, Abstract!avars
<1> QED BY <1>2, <1>3, <1>4, <1>5, <1>6, <1>7, <1>8, <1>9, <1>10, <1>11, <1>P
    DEF Next, free_mem_pages, Abstract!Next

\* memory.c implements the abstract allocator for any number of pages: requests
\* are served lowest-fit, refused only when nothing fits, and PM panics only on
\* sharing or freeing a block nobody holds.
THEOREM MemoryImplementsPageAllocator == Spec => ImplementsPageAllocator
<1>1. Init => Abstract!Init
  BY InitRefines
<1>2. IInv /\ [Next]_vars => [Abstract!Next]_(Abstract!avars)
  BY NextRefines
<1>3. Spec => []IInv
  BY BlockListCorrect, PTL DEF IInv
<1> QED BY <1>1, <1>2, <1>3, PTL DEF Spec, ImplementsPageAllocator, Abstract!Spec
=============================================================================
