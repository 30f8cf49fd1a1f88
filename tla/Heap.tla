-------------------------------- MODULE Heap --------------------------------
(***************************************************************************)
(* The heap of lwIP (core/mem.c): blocks in one array, each with a struct  *)
(* mem in front, doubly linked by index.  Sizes and indices are counted in *)
(* units of MEM_ALIGNMENT.  The build has NO_SYS, so that every call runs  *)
(* alone.                                                                  *)
(***************************************************************************)
EXTENDS Integers, TLAPS

CONSTANTS
  MEM_SIZE,            \* MEM_SIZE_ALIGNED: index of ram_end
  SIZEOF_STRUCT_MEM,
  MIN_SIZE,            \* MIN_SIZE_ALIGNED
  HeapSizes                \* sizes asked for

\* The heap holds at least one block, and a header and a block take room.
HeapConstants ==
  /\ MEM_SIZE \in Nat /\ SIZEOF_STRUCT_MEM \in Nat \ {0} /\ MIN_SIZE \in Nat \ {0}
  /\ SIZEOF_STRUCT_MEM + MIN_SIZE <= MEM_SIZE
  /\ HeapSizes \subseteq Nat

VARIABLES
  mem_next, mem_prev,         \* of the struct mem at every index
  used,               \* the struct mems with used set
  lfree,              \* the lowest free block
  alloc               \* ghost: size asked for of every block in use, or 0

heapVars == <<mem_next, mem_prev, used, lfree, alloc>>

Index == 0 .. MEM_SIZE
Rounded(size) == IF size < MIN_SIZE THEN MIN_SIZE ELSE size

\* mem_init
HeapInit ==
  /\ mem_next = [i \in Index |-> IF i \in {0, MEM_SIZE} THEN MEM_SIZE ELSE 0]
  /\ mem_prev = [i \in Index |-> IF i = MEM_SIZE THEN MEM_SIZE ELSE 0]
  /\ used = {MEM_SIZE}
  /\ lfree = 0
  /\ alloc = [i \in Index |-> 0]

\* The struct mems in front of ram_end.  What lies inside a block belongs to its
\* user and is no struct mem: next is 0 there.
Blocks == {i \in Index \ {MEM_SIZE} : mem_next[i] # 0}
Free == {i \in Blocks : i \notin used}
Room(i) == mem_next[i] - (i + SIZEOF_STRUCT_MEM)
Lowest(i, S) == i \in S /\ \A j \in S : i <= j
-----------------------------------------------------------------------------
\* Where the search from lfree on can stop.  It follows next, which leads upwards.
FitsIn(size) == {i \in Free : lfree <= i /\ i < MEM_SIZE - size /\ Room(i) >= size}

\* A free block at i2 comes to lie between i and n.
Spliced(i, i2, n) ==
  /\ mem_next' = [mem_next EXCEPT ![i2] = n, ![i] = i2]
  /\ mem_prev' = [j \in Index |-> CASE j = i2 -> i [] j = n /\ n # MEM_SIZE -> i2 [] OTHER -> mem_prev[j]]

\* mem_malloc takes the block i, with the rest of a large one split off.
mem_malloc(i, asked) ==
  LET size == Rounded(asked)
      i2 == i + SIZEOF_STRUCT_MEM + size
  IN /\ asked > 0 /\ Lowest(i, FitsIn(size))
     /\ IF Room(i) >= size + SIZEOF_STRUCT_MEM + MIN_SIZE
        THEN Spliced(i, i2, mem_next[i]) /\ used' = (used \ {i2}) \union {i}
        ELSE used' = used \union {i} /\ UNCHANGED <<mem_next, mem_prev>>
     /\ lfree' \in Index
     /\ IF i = lfree THEN Lowest(lfree', {j \in Free' : i <= j} \union {MEM_SIZE}) ELSE lfree' = lfree
     /\ alloc' = [alloc EXCEPT ![i] = asked]

\* mem_malloc returns NULL.
MallocFails(asked) ==
  /\ asked = 0 \/ FitsIn(Rounded(asked)) = {}
  /\ UNCHANGED heapVars
-----------------------------------------------------------------------------
\* Mutant: the block behind keeps its link to the fused one.
PlugHolesHalf(m, low) ==
  LET n == mem_next[m]  p == mem_prev[m]
      forward == m # n /\ n \notin used /\ n # MEM_SIZE
      backward == p # m /\ p \notin used
      first == IF backward THEN p ELSE m
      end == IF forward THEN mem_next[n] ELSE n
      gone == {j \in {n} : forward} \union {j \in {m} : backward}
  IN /\ mem_next' = [j \in Index |-> CASE j = first -> end [] j \in gone -> 0 [] OTHER -> mem_next[j]]
     /\ mem_prev' = [j \in Index |-> CASE j \in gone -> 0 [] OTHER -> mem_prev[j]]
     /\ lfree' = CASE low = n /\ forward -> first [] low = m -> first [] OTHER -> low

\* plug_holes fuses the block m, just freed, with its free neighbours; low is lfree.
plug_holes(m, low) ==
  LET n == mem_next[m]  p == mem_prev[m]
      forward == m # n /\ n \notin used /\ n # MEM_SIZE
      backward == p # m /\ p \notin used
      first == IF backward THEN p ELSE m
      end == IF forward THEN mem_next[n] ELSE n
      gone == {j \in {n} : forward} \union {j \in {m} : backward}
  IN /\ mem_next' = [j \in Index |-> CASE j = first -> end [] j \in gone -> 0 [] OTHER -> mem_next[j]]
     /\ mem_prev' = [j \in Index |-> CASE j \in gone -> 0
                                   [] j = end /\ (forward \/ backward) -> first
                                   [] OTHER -> mem_prev[j]]
     /\ lfree' = CASE low = n /\ forward -> first [] low = m -> first [] OTHER -> low

mem_free(m) ==
  /\ alloc[m] > 0
  /\ used' = used \ {m}
  /\ plug_holes(m, IF m < lfree THEN m ELSE lfree)
  /\ alloc' = [alloc EXCEPT ![m] = 0]

\* mem_trim: the rest goes to the free neighbour, which moves down to i2.
TrimMoves(m, asked) ==
  LET n == mem_next[m]
      i2 == m + SIZEOF_STRUCT_MEM + Rounded(asked)
  IN /\ alloc[m] > 0 /\ Rounded(asked) < Room(m) /\ n \notin used
     /\ mem_next' = [mem_next EXCEPT ![n] = 0, ![i2] = mem_next[n], ![m] = i2]
     /\ mem_prev' = [j \in Index |-> CASE j = i2 -> m
                                   [] j = n -> 0
                                   [] j = mem_next[n] /\ j # MEM_SIZE -> i2
                                   [] OTHER -> mem_prev[j]]
     /\ used' = used \ {i2}
     /\ lfree' = IF lfree = n THEN i2 ELSE lfree
     /\ alloc' = [alloc EXCEPT ![m] = asked]

\* mem_trim: the rest becomes a block of its own.
TrimSplits(m, asked) ==
  LET i2 == m + SIZEOF_STRUCT_MEM + Rounded(asked)
  IN /\ alloc[m] > 0 /\ mem_next[m] \in used
     /\ Rounded(asked) + SIZEOF_STRUCT_MEM + MIN_SIZE <= Room(m)
     /\ Spliced(m, i2, mem_next[m])
     /\ used' = used \ {i2}
     /\ lfree' = IF i2 < lfree THEN i2 ELSE lfree
     /\ alloc' = [alloc EXCEPT ![m] = asked]

\* mem_trim: nothing to gain, the rest is too small for a block.
TrimKeeps(m, asked) ==
  /\ alloc[m] > 0 /\ Rounded(asked) <= Room(m)
  /\ \/ Rounded(asked) = Room(m)
     \/ mem_next[m] \in used /\ Rounded(asked) + SIZEOF_STRUCT_MEM + MIN_SIZE > Room(m)
  /\ UNCHANGED <<mem_next, mem_prev, used, lfree>>
  /\ alloc' = [alloc EXCEPT ![m] = asked]

mem_trim(m, asked) ==
  /\ asked <= alloc[m]
  /\ TrimMoves(m, asked) \/ TrimSplits(m, asked) \/ TrimKeeps(m, asked)

HeapNext ==
  \/ \E i \in Index, size \in HeapSizes : mem_malloc(i, size)
  \/ \E size \in HeapSizes : MallocFails(size)
  \/ \E m \in Index : mem_free(m)
  \/ \E m \in Index, size \in HeapSizes \ {0} : mem_trim(m, size)

HeapSpec == HeapInit /\ [][HeapNext]_heapVars
-----------------------------------------------------------------------------
\* The blocks tile the heap from 0 to ram_end: each ends where the next one
\* begins, and prev inverts next.
HeapLinks ==
  /\ 0 \in Blocks /\ mem_prev[0] = 0 /\ mem_next[MEM_SIZE] = MEM_SIZE
  /\ \A i \in Blocks :
       /\ mem_next[i] \in Blocks \union {MEM_SIZE} /\ Room(i) >= MIN_SIZE
       /\ mem_next[i] # MEM_SIZE => mem_prev[mem_next[i]] = i
       /\ i # 0 => mem_prev[i] \in Blocks /\ mem_next[mem_prev[i]] = i
       /\ \A j \in Blocks : i < j => mem_next[i] <= j

\* No two free blocks touch.
FreeApart == MEM_SIZE \in used /\ \A i \in Free : mem_next[i] \in used

LowestFree == Lowest(lfree, Free \union {MEM_SIZE})

\* Every allocation still in use is a block of at least its size, whatever was
\* split, fused and trimmed around it, no two of them overlap, and no block is in
\* use without an owner.
AllocationsKept ==
  /\ \A i \in Index : alloc[i] > 0 => i \in Blocks /\ i \in used /\ Room(i) >= alloc[i]
  /\ \A i, j \in Index : alloc[i] > 0 /\ alloc[j] > 0 /\ i < j => i + SIZEOF_STRUCT_MEM + alloc[i] <= j
  /\ \A i \in Blocks : i \in used => alloc[i] > 0

\* mem_malloc refuses only what no free block can hold, although it looks only
\* from lfree on and only at the start of each block.
RefusesOnlyTooLarge ==
  \A size \in HeapSizes \ {0} : FitsIn(Rounded(size)) = {} => \A i \in Free : Room(i) < Rounded(size)

\* The blocks tile the heap, plug_holes leaves no two free ones side by side, lfree
\* is the lowest free block, and the allocations of the users keep their room.
HeapOK == HeapLinks /\ FreeApart /\ LowestFree /\ AllocationsKept /\ RefusesOnlyTooLarge
-----------------------------------------------------------------------------
(* Proof that the heap stays right, for every size of it *)

HeapTypeOK ==
  /\ mem_next \in [Index -> Index] /\ mem_prev \in [Index -> Index] /\ used \subseteq Index
  /\ lfree \in Index /\ alloc \in [Index -> Nat]

\* A block is in use exactly if somebody asked for it, and nothing else is.
Owned ==
  /\ \A i \in Blocks : (i \in used <=> alloc[i] > 0) /\ alloc[i] <= Room(i)
  /\ \A i \in Index \ Blocks : alloc[i] = 0 /\ (i # MEM_SIZE => i \notin used)

\* The inductive invariant.
HeapInv == HeapTypeOK /\ HeapLinks /\ FreeApart /\ LowestFree /\ Owned

\* Indices and sizes are natural numbers.
LEMMA Numbers ==
  ASSUME HeapConstants, HeapTypeOK
  PROVE  /\ MEM_SIZE \in Nat /\ SIZEOF_STRUCT_MEM \in Nat /\ MIN_SIZE \in Nat /\ MEM_SIZE \in Index /\ 0 \in Index
         /\ SIZEOF_STRUCT_MEM > 0 /\ MIN_SIZE > 0 /\ SIZEOF_STRUCT_MEM + MIN_SIZE <= MEM_SIZE
         /\ \A i \in Int : i \in Index <=> 0 <= i /\ i <= MEM_SIZE
         /\ \A i \in Index : i \in Int /\ mem_next[i] \in Index /\ mem_next[i] \in Int /\ 0 <= mem_next[i] /\ mem_next[i] <= MEM_SIZE
         /\ \A i \in Index : mem_prev[i] \in Index /\ alloc[i] \in Nat /\ Room(i) \in Int
         /\ \A i \in Blocks : i \in Index /\ i \in Int /\ 0 <= i /\ i < MEM_SIZE
         /\ \A i \in Blocks : mem_next[i] \in Index /\ mem_next[i] \in Int /\ 0 < mem_next[i] /\ mem_next[i] <= MEM_SIZE
         /\ \A size \in Nat : Rounded(size) \in Nat /\ Rounded(size) >= MIN_SIZE /\ Rounded(size) >= size
         /\ lfree \in Int
  <1>1. /\ MEM_SIZE \in Nat /\ SIZEOF_STRUCT_MEM \in Nat /\ MIN_SIZE \in Nat /\ MEM_SIZE \in Index /\ 0 \in Index
        /\ SIZEOF_STRUCT_MEM > 0 /\ MIN_SIZE > 0 /\ SIZEOF_STRUCT_MEM + MIN_SIZE <= MEM_SIZE
    BY DEF HeapConstants, Index
  <1>2. \A i \in Int : i \in Index <=> 0 <= i /\ i <= MEM_SIZE
    BY <1>1 DEF Index
  <1>3. ASSUME NEW i \in Index
        PROVE  i \in Int /\ mem_next[i] \in Index /\ mem_next[i] \in Int /\ 0 <= mem_next[i] /\ mem_next[i] <= MEM_SIZE
    <2>1. mem_next[i] \in Index
      BY DEF HeapTypeOK
    <2> QED BY <1>1, <2>1 DEF Index
  <1>4. ASSUME NEW i \in Index
        PROVE  mem_prev[i] \in Index /\ alloc[i] \in Nat
    BY DEF HeapTypeOK
  <1>5. ASSUME NEW i \in Index PROVE Room(i) \in Int
    BY <1>1, <1>3 DEF Room
  <1>6. ASSUME NEW i \in Blocks
        PROVE  i \in Index /\ i \in Int /\ 0 <= i /\ i < MEM_SIZE /\ mem_next[i] \in Index /\ mem_next[i] \in Int
               /\ 0 < mem_next[i] /\ mem_next[i] <= MEM_SIZE
    <2>1. i \in Index /\ i # MEM_SIZE /\ mem_next[i] # 0
      BY DEF Blocks
    <2> QED BY <1>1, <1>2, <1>3, <2>1
  <1>7. ASSUME NEW size \in Nat
        PROVE  Rounded(size) \in Nat /\ Rounded(size) >= MIN_SIZE /\ Rounded(size) >= size
    BY <1>1 DEF Rounded
  <1>8. lfree \in Int
    BY <1>3 DEF HeapTypeOK
  <1> QED BY <1>1, <1>2, <1>3, <1>4, <1>5, <1>6, <1>7, <1>8

\* The invariant gives what users of the heap rely on.
LEMMA Right == ASSUME HeapConstants, HeapInv PROVE HeapOK
  <1> HeapTypeOK
    BY DEF HeapInv
  <1> USE Numbers
  <1>1. AllocationsKept
    <2>1. \A i \in Index : alloc[i] > 0 => i \in Blocks /\ i \in used /\ Room(i) >= alloc[i]
      BY DEF HeapInv, Owned, Blocks
    <2>2. \A i, j \in Index : alloc[i] > 0 /\ alloc[j] > 0 /\ i < j => i + SIZEOF_STRUCT_MEM + alloc[i] <= j
      <3> SUFFICES ASSUME NEW i \in Index, NEW j \in Index, alloc[i] > 0, alloc[j] > 0, i < j
                   PROVE  i + SIZEOF_STRUCT_MEM + alloc[i] <= j
        OBVIOUS
      <3>1. i \in Blocks /\ j \in Blocks /\ Room(i) >= alloc[i]
        BY <2>1
      <3>2. mem_next[i] <= j
        BY <3>1 DEF HeapInv, HeapLinks
      <3> QED BY <3>1, <3>2 DEF HeapInv, Room
    <2> QED BY <2>1, <2>2 DEF HeapInv, Owned, AllocationsKept
  <1>2. RefusesOnlyTooLarge
    <2> SUFFICES ASSUME NEW size \in HeapSizes \ {0}, NEW i \in Free, Room(i) >= Rounded(size)
                 PROVE  i \in FitsIn(Rounded(size))
      BY DEF RefusesOnlyTooLarge, Free, HeapConstants
    <2>1. lfree <= i
      BY DEF HeapInv, LowestFree, Lowest
    <2>2. i < MEM_SIZE - Rounded(size)
      BY DEF Room, Free, HeapConstants
    <2> QED BY <2>1, <2>2 DEF FitsIn
  <1> QED BY <1>1, <1>2 DEF HeapInv, HeapOK

\* mem_init makes one free block of the whole heap.
LEMMA HeapInitInv == ASSUME HeapConstants, HeapInit PROVE HeapInv
  <1>1. HeapTypeOK
    BY DEF HeapInit, HeapTypeOK, Index, HeapConstants
  <1> USE Numbers
  <1>2. /\ \A i \in Index : mem_next[i] = IF i = 0 \/ i = MEM_SIZE THEN MEM_SIZE ELSE 0
        /\ \A i \in Index : i \in used <=> i = MEM_SIZE
        /\ \A i \in Index : alloc[i] = 0
        /\ mem_prev[0] = 0 /\ lfree = 0
    BY <1>1 DEF HeapInit
  <1>3. \A i : i \in Blocks <=> i = 0
    BY <1>1, <1>2 DEF Blocks
  <1>4. \A i : i \in Free <=> i = 0
    BY <1>1, <1>2, <1>3 DEF Free
  <1>5. HeapLinks
    BY <1>1, <1>2, <1>3 DEF HeapLinks, Room
  <1>6. FreeApart /\ LowestFree
    BY <1>1, <1>2, <1>4 DEF FreeApart, LowestFree, Lowest
  <1>7. Owned
    <2>1. Room(0) >= 0
      BY <1>1, <1>2 DEF Room
    <2> QED BY <1>1, <1>2, <1>3, <2>1 DEF Owned
  <1> QED BY <1>1, <1>5, <1>6, <1>7 DEF HeapInv

\* A block split in two: the links stay right, and i2 is the one new block.
LEMMA SplicedKeeps ==
  ASSUME HeapConstants, HeapTypeOK, HeapLinks, NEW i \in Blocks, NEW i2 \in Int,
         i + SIZEOF_STRUCT_MEM + MIN_SIZE <= i2, i2 + SIZEOF_STRUCT_MEM + MIN_SIZE <= mem_next[i],
         Spliced(i, i2, mem_next[i])
  PROVE  /\ mem_next' \in [Index -> Index] /\ mem_prev' \in [Index -> Index]
         /\ i2 \in Index /\ i2 \notin Blocks /\ i2 # MEM_SIZE /\ Blocks' = Blocks \union {i2}
         /\ mem_next'[i] = i2 /\ mem_next'[i2] = mem_next[i] /\ \A j \in Index \ {i, i2} : mem_next'[j] = mem_next[j]
         /\ HeapLinks'
  <1> USE Numbers
  <1>1. i \in Index /\ mem_next[i] \in Index /\ i < MEM_SIZE
    OBVIOUS
  <1>2. i2 \in Index /\ i2 > i /\ i2 < mem_next[i] /\ i2 < MEM_SIZE
    BY <1>1
  <1>3. i2 \notin Blocks
    BY <1>1, <1>2 DEF HeapLinks
  <1>4. mem_next' \in [Index -> Index] /\ mem_prev' \in [Index -> Index]
    BY <1>1, <1>2, ZenonT(60) DEF Spliced, HeapTypeOK
  <1>5. mem_next'[i] = i2 /\ mem_next'[i2] = mem_next[i] /\ \A j \in Index \ {i, i2} : mem_next'[j] = mem_next[j]
    BY <1>1, <1>2 DEF Spliced, HeapTypeOK
  <1>6. \A j \in Index : mem_prev'[j] = IF j = i2 THEN i ELSE IF j = mem_next[i] /\ j # MEM_SIZE THEN i2 ELSE mem_prev[j]
    BY DEF Spliced
  <1>7. Blocks' = Blocks \union {i2}
    <2>1. mem_next'[i2] # 0 /\ mem_next'[i] # 0 /\ mem_next[i] # 0 /\ i2 # MEM_SIZE
      BY <1>1, <1>2, <1>5
    <2>2. \A j : j \in Blocks' <=> j \in Blocks \/ j = i2
      BY <1>1, <1>2, <1>5, <2>1, ZenonT(60) DEF Blocks
    <2> QED BY <2>2
  <1>8. HeapLinks'
    <2>1. 0 \in Blocks' /\ mem_prev'[0] = 0 /\ mem_next'[MEM_SIZE] = MEM_SIZE
      BY <1>1, <1>2, <1>5, <1>6, <1>7 DEF HeapLinks
    <2>2. ASSUME NEW j \in Blocks'
          PROVE  mem_next'[j] \in Blocks' \union {MEM_SIZE} /\ Room(j)' >= MIN_SIZE
      <3>1. CASE j = i \/ j = i2
        BY <3>1, <1>1, <1>2, <1>5, <1>7 DEF HeapLinks, Room
      <3>2. CASE j # i /\ j # i2
        BY <3>2, <1>5, <1>7 DEF HeapLinks, Room
      <3> QED BY <3>1, <3>2
    <2>3. ASSUME NEW j \in Blocks', mem_next'[j] # MEM_SIZE
          PROVE  mem_prev'[mem_next'[j]] = j
      <3>1. CASE j = i
        BY <3>1, <1>2, <1>5, <1>6
      <3>2. CASE j = i2
        BY <3>2, <1>1, <1>2, <1>5, <1>6, <2>3
      <3>3. CASE j # i /\ j # i2
        <4>1. j \in Blocks /\ mem_next'[j] = mem_next[j] /\ mem_next[j] \in Index
          BY <3>3, <1>5, <1>7 DEF Blocks, HeapTypeOK
        <4>2. mem_next[j] # i2 /\ mem_next[j] # mem_next[i] /\ mem_prev[mem_next[j]] = j
          BY <3>3, <4>1, <2>3, <1>3, <1>2 DEF HeapLinks
        <4> QED BY <4>1, <4>2, <1>6
      <3> QED BY <3>1, <3>2, <3>3
    <2>4. ASSUME NEW j \in Blocks', j # 0
          PROVE  mem_prev'[j] \in Blocks' /\ mem_next'[mem_prev'[j]] = j
      <3>1. CASE j = i2
        BY <3>1, <1>2, <1>5, <1>6, <1>7
      <3>2. CASE j = mem_next[i] /\ j # i2
        BY <3>2, <2>4, <1>1, <1>2, <1>5, <1>6, <1>7 DEF Blocks
      <3>3. CASE j # mem_next[i] /\ j # i2
        <4>1. j \in Blocks /\ j \in Index /\ mem_prev'[j] = mem_prev[j]
          BY <3>3, <1>6, <1>7 DEF Blocks
        <4>2. mem_prev[j] \in Blocks /\ mem_next[mem_prev[j]] = j
          BY <4>1, <2>4 DEF HeapLinks
        <4>3. mem_prev[j] # i /\ mem_prev[j] # i2
          BY <4>2, <3>3, <1>3
        <4> QED BY <4>1, <4>2, <4>3, <1>5, <1>7 DEF Blocks
      <3> QED BY <3>1, <3>2, <3>3
    <2>5. ASSUME NEW j \in Blocks', NEW k \in Blocks', j < k
          PROVE  mem_next'[j] <= k
      <3>1. CASE j = i2
        BY <3>1, <2>5, <1>1, <1>2, <1>5, <1>7 DEF HeapLinks, HeapConstants
      <3>2. CASE j = i
        BY <3>2, <2>5, <1>1, <1>2, <1>5, <1>7 DEF HeapLinks, HeapConstants
      <3>3. CASE j # i /\ j # i2
        <4>1. j \in Blocks /\ j \in Index /\ mem_next'[j] = mem_next[j] /\ mem_next[j] \in Index
          BY <3>3, <1>5, <1>7 DEF Blocks, HeapTypeOK
        <4>2. CASE k = i2
          <5>1. j < i
            BY <4>1, <4>2, <3>3, <2>5, <1>1, <1>2 DEF HeapLinks
          <5> QED BY <5>1, <4>1, <4>2, <1>1, <1>2 DEF HeapLinks
        <4>3. CASE k # i2
          BY <4>1, <4>3, <2>5, <1>7 DEF HeapLinks
        <4> QED BY <4>2, <4>3
      <3> QED BY <3>1, <3>2, <3>3
    <2> QED BY <2>1, <2>2, <2>3, <2>4, <2>5 DEF HeapLinks
  <1> QED BY <1>2, <1>3, <1>4, <1>5, <1>7, <1>8

\* mem_malloc keeps the invariant, whether it splits the block it found or not.
LEMMA MallocStep ==
  ASSUME HeapConstants, HeapInv, NEW i \in Index, NEW asked \in HeapSizes, mem_malloc(i, asked)
  PROVE  HeapInv'
  <1> DEFINE size == Rounded(asked)
             i2 == i + SIZEOF_STRUCT_MEM + size
             split == Room(i) >= size + SIZEOF_STRUCT_MEM + MIN_SIZE
  <1>t. HeapTypeOK
    BY DEF HeapInv
  <1> USE Numbers, <1>t
  <1>1. /\ i \in Blocks /\ i \in Free /\ i \notin used /\ lfree <= i /\ Room(i) >= size
        /\ asked \in Nat /\ asked > 0 /\ size \in Nat /\ size >= asked /\ size >= MIN_SIZE
    BY DEF mem_malloc, Lowest, FitsIn, Free, HeapConstants
  <1>2. lfree' \in Index /\ alloc' = [alloc EXCEPT ![i] = asked]
    BY DEF mem_malloc
  <1>3. mem_next[i] \in used /\ i2 \in Int /\ i # MEM_SIZE
    BY <1>1 DEF HeapInv, FreeApart
  <1> HIDE DEF size, i2
  <1>4. CASE split
    <2>1. Spliced(i, i2, mem_next[i]) /\ used' = (used \ {i2}) \union {i}
      BY <1>4 DEF mem_malloc, size, i2
    <2>2. /\ i2 = i + SIZEOF_STRUCT_MEM + size
          /\ i + SIZEOF_STRUCT_MEM + MIN_SIZE <= i2 /\ i2 + SIZEOF_STRUCT_MEM + MIN_SIZE <= mem_next[i]
      BY <1>1, <1>4 DEF Room, i2
    <2>3. /\ mem_next' \in [Index -> Index] /\ mem_prev' \in [Index -> Index]
          /\ i2 \in Index /\ i2 \notin Blocks /\ i2 # MEM_SIZE /\ Blocks' = Blocks \union {i2}
          /\ mem_next'[i] = i2 /\ mem_next'[i2] = mem_next[i] /\ \A j \in Index \ {i, i2} : mem_next'[j] = mem_next[j]
          /\ HeapLinks'
      BY <1>1, <1>3, <2>1, <2>2, SplicedKeeps DEF HeapInv
    <2>4. \A j : j \in used' <=> j = i \/ (j \in used /\ j # i2)
      BY <2>1 DEF HeapTypeOK
    <2>5. \A j : j \in Free' <=> j = i2 \/ (j \in Free /\ j # i)
      BY <2>2, <2>3, <2>4, <1>1 DEF Free
    <2>6. HeapTypeOK'
      BY <2>1, <2>3, <1>1, <1>2 DEF HeapTypeOK
    <2>7. FreeApart'
      <3>1. MEM_SIZE \in used'
        BY <2>3, <2>4, <1>3 DEF HeapInv, FreeApart
      <3>2. mem_next'[i2] \in used'
        <4>1. mem_next[i] # i2
          BY <2>3, <1>1 DEF HeapInv, HeapLinks
        <4> QED BY <4>1, <2>3, <2>4, <1>3
      <3>3. ASSUME NEW j \in Free, j # i PROVE mem_next'[j] \in used'
        <4>1. j \in Blocks /\ j # i2 /\ mem_next[j] \in used
          BY <3>3, <2>3 DEF Free, HeapInv, FreeApart
        <4>2. mem_next'[j] = mem_next[j] /\ mem_next[j] # i2 /\ mem_next[j] # i
          BY <3>3, <4>1, <2>3, <1>1 DEF HeapInv, HeapLinks
        <4> QED BY <4>1, <4>2, <2>4
      <3> QED BY <3>1, <3>2, <3>3, <2>5 DEF FreeApart
    <2>8. LowestFree'
      <3>1. /\ lfree \in Free \union {MEM_SIZE} /\ \A j \in Free : lfree <= j
            /\ i2 >= i /\ i2 <= MEM_SIZE
        BY <2>2, <2>3, <1>1 DEF HeapInv, LowestFree, Lowest
      <3>2. CASE i = lfree
        BY <3>1, <3>2, <2>5 DEF mem_malloc, LowestFree, Lowest
      <3>3. CASE i # lfree
        <4>1. lfree' = lfree
          BY <3>3 DEF mem_malloc
        <4>2. lfree # MEM_SIZE /\ lfree <= MEM_SIZE
          BY <1>1
        <4>3. lfree \in Free'
          BY <4>2, <3>1, <3>3, <2>5
        <4>4. i2 >= lfree
          BY <3>1, <1>1, <1>3
        <4>5. \A j \in Free' : lfree <= j
          BY <4>4, <3>1, <2>5
        <4> QED BY <4>1, <4>2, <4>3, <4>5 DEF LowestFree, Lowest
      <3> QED BY <3>2, <3>3
    <2>9. Owned'
      <3>1. \A j \in Index : alloc'[j] = IF j = i THEN asked ELSE alloc[j]
        BY <1>2 DEF HeapTypeOK
      <3>2. ASSUME NEW j \in Index, j \notin Blocks' PROVE alloc'[j] = 0 /\ (j # MEM_SIZE => j \notin used')
        BY <3>1, <3>2, <2>3, <2>4, <1>1 DEF HeapInv, Owned
      <3>3. ASSUME NEW j \in Blocks' PROVE (j \in used' <=> alloc'[j] > 0) /\ alloc'[j] <= Room(j)'
        <4>1. CASE j = i
          <5>1. Room(i)' = size
            BY <2>2, <2>3, <1>1 DEF Room
          <5> QED BY <5>1, <4>1, <3>1, <2>4, <1>1
        <4>2. CASE j = i2
          <5>1. alloc[i2] = 0 /\ i2 # i
            BY <2>3, <1>1 DEF HeapInv, Owned
          <5>2. Room(i2)' >= MIN_SIZE
            BY <2>3 DEF HeapLinks
          <5>3. Room(i2)' >= 0
            BY <5>2, <2>2, <2>3, <1>1 DEF Room
          <5> QED BY <5>1, <5>3, <4>2, <3>1, <2>3, <2>4
        <4>3. CASE j # i /\ j # i2
          BY <4>3, <3>1, <3>3, <2>3, <2>4 DEF HeapInv, Owned, Room
        <4> QED BY <4>1, <4>2, <4>3
      <3> QED BY <3>2, <3>3 DEF Owned
    <2> QED BY <2>3, <2>6, <2>7, <2>8, <2>9 DEF HeapInv
  <1>5. CASE ~split
    <2>1. used' = used \union {i} /\ mem_next' = mem_next /\ mem_prev' = mem_prev
      BY <1>5 DEF mem_malloc, size, i2
    <2>2. \A j : j \in used' <=> j = i \/ j \in used
      BY <2>1 DEF HeapTypeOK
    <2>3. Blocks' = Blocks /\ \A j : Room(j)' = Room(j)
      BY <2>1 DEF Blocks, Room
    <2>4. \A j : j \in Free' <=> j \in Free /\ j # i
      BY <2>2, <2>3, <1>1 DEF Free
    <2>5. HeapTypeOK'
      BY <2>1, <1>1, <1>2 DEF HeapTypeOK
    <2>6. HeapLinks'
      BY <2>1, <2>3 DEF HeapInv, HeapLinks
    <2>7. FreeApart'
      <3>1. ASSUME NEW j \in Free PROVE mem_next[j] \in Index /\ mem_next[j] \in used
        BY DEF Free, HeapInv, FreeApart
      <3> QED BY <3>1, <2>1, <2>2, <2>4 DEF HeapInv, FreeApart
    <2>8. LowestFree'
      <3>1. lfree \in Free \union {MEM_SIZE} /\ \A j \in Free : lfree <= j
        BY DEF HeapInv, LowestFree, Lowest
      <3>2. CASE i = lfree
        BY <3>1, <3>2, <2>4 DEF mem_malloc, LowestFree, Lowest
      <3>3. CASE i # lfree
        <4>1. lfree' = lfree /\ lfree \in Free' /\ lfree <= MEM_SIZE
          BY <3>1, <3>3, <2>4, <1>1 DEF mem_malloc
        <4> QED BY <4>1, <3>1, <2>4, <1>1 DEF LowestFree, Lowest
      <3> QED BY <3>2, <3>3
    <2>9. Owned'
      <3>1. \A j \in Index : alloc'[j] = IF j = i THEN asked ELSE alloc[j]
        BY <1>2 DEF HeapTypeOK
      <3> QED BY <3>1, <2>2, <2>3, <1>1 DEF HeapInv, Owned
    <2> QED BY <2>5, <2>6, <2>7, <2>8, <2>9 DEF HeapInv
  <1> QED BY <1>4, <1>5

\* No two blocks end at the same place.
LEMMA OneBefore ==
  ASSUME HeapConstants, HeapTypeOK, HeapLinks
  PROVE  /\ \A j, k \in Blocks : mem_next[j] = mem_next[k] => j = k
         /\ \A j \in Blocks : j < mem_next[j]
  <1> USE Numbers
  <1>1. \A j \in Blocks : j < mem_next[j]
    BY DEF HeapLinks, Room
  <1>2. ASSUME NEW j \in Blocks, NEW k \in Blocks, j < k PROVE mem_next[j] # mem_next[k]
    <2>1. mem_next[j] <= k
      BY <1>2 DEF HeapLinks
    <2> QED BY <1>1, <2>1
  <1> QED BY <1>1, <1>2

\* Freeing a block, with the fusions of plug_holes, keeps the invariant.
LEMMA MemFreeStep ==
  ASSUME HeapConstants, HeapInv, NEW m \in Index, mem_free(m)
  PROVE  HeapInv'
  <1> DEFINE n == mem_next[m]
             p == mem_prev[m]
             forward == m # n /\ n \notin used /\ n # MEM_SIZE
             backward == p # m /\ p \notin used
             first == IF backward THEN p ELSE m
             end == IF forward THEN mem_next[n] ELSE n
             low == IF m < lfree THEN m ELSE lfree
  <1>t. HeapTypeOK
    BY DEF HeapInv
  <1> USE Numbers, <1>t
  <1>1. m \in Blocks /\ m \in used /\ m # MEM_SIZE /\ m < n /\ n \in Blocks \union {MEM_SIZE} /\ n \in Index
    BY DEF mem_free, HeapInv, Owned, HeapLinks, Room
  <1>2. forward => n \in Free /\ mem_next[n] \in used /\ mem_next[n] \in Blocks \union {MEM_SIZE} /\ n < mem_next[n]
    BY <1>1 DEF Free, HeapInv, FreeApart, HeapLinks, Room
  <1>3. backward => p \in Free /\ p < m /\ mem_next[p] = m /\ m # 0
    <2>1. backward => m # 0
      BY DEF HeapInv, HeapLinks
    <2>2. m # 0 => p \in Blocks /\ mem_next[p] = m
      BY <1>1 DEF HeapInv, HeapLinks
    <2>3. \A j \in Blocks : j < mem_next[j]
      BY DEF HeapInv, HeapLinks, Room
    <2> QED BY <2>1, <2>2, <2>3 DEF Free
  <1>4. /\ first \in Blocks /\ first <= m /\ first # MEM_SIZE
        /\ end \in Blocks \union {MEM_SIZE} /\ end > m /\ end >= n /\ end \in used /\ end \in Index
    BY <1>1, <1>2, <1>3 DEF Free, HeapInv, FreeApart
  <1>5. /\ \A j \in Index : mem_next'[j] = IF j = first THEN end
                                       ELSE IF (j = n /\ forward) \/ (j = m /\ backward) THEN 0 ELSE mem_next[j]
        /\ mem_next' \in [Index -> Index]
    BY <1>1, <1>4 DEF mem_free, plug_holes, HeapTypeOK
  <1>6. /\ \A j \in Index : mem_prev'[j] = IF (j = n /\ forward) \/ (j = m /\ backward) THEN 0
                                       ELSE IF j = end /\ (forward \/ backward) THEN first ELSE mem_prev[j]
        /\ mem_prev' \in [Index -> Index]
    BY <1>1, <1>4 DEF mem_free, plug_holes, HeapTypeOK
  <1>7. lfree' = IF (low = n /\ forward) \/ low = m THEN first ELSE low
    BY DEF mem_free, plug_holes
  <1>8. used' = used \ {m} /\ \A j \in Index : alloc'[j] = IF j = m THEN 0 ELSE alloc[j]
    BY DEF mem_free, HeapTypeOK
  <1>9. alloc' \in [Index -> Nat]
    BY DEF mem_free, HeapTypeOK
  <1> HIDE DEF n, p, forward, backward, first, end, low
  <1>10. \A j : j \in Blocks' <=> j \in Blocks /\ ~(j = n /\ forward) /\ ~(j = m /\ backward)
    <2>1. end # 0 /\ first \in Blocks /\ first \in Index /\ first # n
      BY <1>1, <1>4
    <2>2. backward => first # m
      BY <1>3 DEF first
    <2>3. \A j : j \in Blocks' <=> j \in Index /\ j # MEM_SIZE /\ mem_next'[j] # 0
      BY DEF Blocks
    <2>4. \A j : j \in Blocks <=> j \in Index /\ j # MEM_SIZE /\ mem_next[j] # 0
      BY DEF Blocks
    <2> QED BY <2>1, <2>2, <2>3, <2>4, <1>5
  <1>11. \A j : j \in Free' <=> j = first \/ (j \in Free /\ ~(j = n /\ forward) /\ ~(j = first))
    <2>1. \A j : j \in Free' <=> j \in Blocks' /\ j \notin used'
      BY DEF Free
    <2>2. \A j : j \in Free <=> j \in Blocks /\ j \notin used
      BY DEF Free
    <2>3. first = m \/ first \in Free
      BY <1>3 DEF first
    <2>4. first = m <=> ~backward
      BY <1>3 DEF first
    <2>5. first # n
      BY <1>1, <1>4
    <2> QED BY <2>1, <2>2, <2>3, <2>4, <2>5, <1>1, <1>4, <1>8, <1>10
  <1>12. /\ \A j, k \in Blocks : mem_next[j] = mem_next[k] => j = k
         /\ \A j \in Blocks : j < mem_next[j]
    BY OneBefore DEF HeapInv
  <1>13. /\ first \in Blocks' /\ mem_next'[first] = end /\ end \in Blocks' \union {MEM_SIZE}
         /\ end - (first + SIZEOF_STRUCT_MEM) >= MIN_SIZE
         /\ end # MEM_SIZE => mem_prev'[end] = first
    <2>1. first \in Blocks' /\ mem_next'[first] = end
      BY <1>3, <1>4, <1>5, <1>11 DEF Free
    <2>2. end # m /\ (forward => end # n)
      BY <1>2, <1>4 DEF end
    <2>3. end \in Blocks' \union {MEM_SIZE}
      BY <2>2, <1>4, <1>10
    <2>4. end - (first + SIZEOF_STRUCT_MEM) >= MIN_SIZE
      <3>1. Room(m) >= MIN_SIZE
        BY <1>1 DEF HeapInv, HeapLinks
      <3> QED BY <3>1, <1>1, <1>4 DEF Room, n
    <2>5. CASE forward \/ backward
      BY <2>1, <2>2, <2>3, <2>4, <2>5, <1>4, <1>6
    <2>6. CASE ~forward /\ ~backward
      <3>1. first = m /\ end = n
        BY <2>6 DEF first, end
      <3>2. n # MEM_SIZE => mem_prev'[n] = m
        BY <2>6, <1>1, <1>6 DEF HeapInv, HeapLinks, n
      <3> QED BY <2>1, <2>3, <2>4, <3>1, <3>2
    <2> QED BY <2>5, <2>6
  <1>14. ASSUME NEW j \in Blocks', j # first
         PROVE  /\ j \in Blocks /\ j # m /\ ~(j = n /\ forward) /\ mem_next'[j] = mem_next[j]
                /\ mem_next[j] # n /\ ~(mem_next[j] = m /\ backward) /\ mem_next[j] # end
    <2>1. j \in Blocks /\ j # m /\ ~(j = n /\ forward)
      BY <1>10, <1>14 DEF first
    <2>2. mem_next'[j] = mem_next[j]
      BY <2>1, <1>5, <1>14
    <2>3. mem_next[j] # n
      BY <2>1, <1>1, <1>12 DEF n
    <2>4. ~(mem_next[j] = m /\ backward)
      <3>1. backward => p \in Blocks /\ mem_next[p] = m /\ j # p
        BY <1>3, <1>14 DEF first, Free
      <3> QED BY <3>1, <2>1, <1>12
    <2>5. mem_next[j] # end
      <3>1. forward => n \in Blocks /\ end = mem_next[n] /\ j # n
        BY <2>1, <1>2 DEF end, Free
      <3>2. ~forward => end = n
        BY DEF end
      <3> QED BY <3>1, <3>2, <2>1, <2>3, <1>12
    <2> QED BY <2>1, <2>2, <2>3, <2>4, <2>5
  <1>15. HeapLinks'
    <2>1. 0 \in Blocks' /\ mem_prev'[0] = 0 /\ mem_next'[MEM_SIZE] = MEM_SIZE
      <3>1. 0 \in Blocks /\ mem_prev[0] = 0 /\ mem_next[MEM_SIZE] = MEM_SIZE
        BY DEF HeapInv, HeapLinks
      <3>2. 0 # n /\ 0 # end /\ ~(0 = m /\ backward)
        BY <1>1, <1>3, <1>4
      <3>3. 0 \in Blocks' /\ mem_prev'[0] = 0
        BY <3>1, <3>2, <1>6, <1>10
      <3>4. mem_next'[MEM_SIZE] = MEM_SIZE
        BY <3>1, <1>1, <1>4, <1>5 DEF forward
      <3> QED BY <3>3, <3>4
    <2>2. ASSUME NEW j \in Blocks'
          PROVE  /\ mem_next'[j] \in Blocks' \union {MEM_SIZE} /\ Room(j)' >= MIN_SIZE
                 /\ mem_next'[j] # MEM_SIZE => mem_prev'[mem_next'[j]] = j
      <3>1. CASE j = first
        BY <3>1, <1>13 DEF Room
      <3>2. CASE j # first
        <4>1. j \in Blocks /\ mem_next'[j] = mem_next[j] /\ mem_next[j] # n /\ ~(mem_next[j] = m /\ backward) /\ mem_next[j] # end
          BY <3>2, <1>14
        <4>2. /\ mem_next[j] \in Blocks \union {MEM_SIZE} /\ Room(j) >= MIN_SIZE
              /\ mem_next[j] # MEM_SIZE => mem_prev[mem_next[j]] = j
          BY <4>1 DEF HeapInv, HeapLinks
        <4>3. Room(j)' = Room(j)
          BY <4>1 DEF Room
        <4> QED BY <4>1, <4>2, <4>3, <1>6, <1>10
      <3> QED BY <3>1, <3>2
    <2>3. ASSUME NEW j \in Blocks', j # 0
          PROVE  mem_prev'[j] \in Blocks' /\ mem_next'[mem_prev'[j]] = j
      <3>1. CASE j = end
        <4>1. end # MEM_SIZE
          BY <3>1, <1>10
        <4> QED BY <3>1, <4>1, <1>13
      <3>2. CASE j # end
        <4>1. j \in Blocks /\ j \in Index /\ mem_prev'[j] = mem_prev[j] /\ ~(j = n /\ forward) /\ ~(j = m /\ backward)
          BY <3>2, <1>6, <1>10
        <4>2. mem_prev[j] \in Blocks /\ mem_next[mem_prev[j]] = j
          BY <4>1, <2>3 DEF HeapInv, HeapLinks
        <4>3. ~(mem_prev[j] = n /\ forward)
          BY <3>2, <4>2 DEF end
        <4>4. mem_prev[j] # m
          BY <3>2, <4>1, <4>2 DEF end, n
        <4>5. mem_prev[j] # first
          BY <4>1, <4>2, <4>4, <1>3 DEF first
        <4> QED BY <4>1, <4>2, <4>3, <4>4, <4>5, <1>5, <1>10
      <3> QED BY <3>1, <3>2
    <2>4. ASSUME NEW j \in Blocks', NEW k \in Blocks', j < k
          PROVE  mem_next'[j] <= k
      <3>1. k \in Blocks /\ ~(k = n /\ forward) /\ ~(k = m /\ backward) /\ j \in Blocks
        BY <1>10
      <3>2. CASE j = first
        <4>1. m < k
          <5>1. CASE backward
            <6>1. mem_next[p] <= k
              BY <5>1, <3>1, <3>2, <2>4, <1>3 DEF HeapInv, HeapLinks, first, Free
            <6> QED BY <5>1, <6>1, <3>1, <1>1, <1>3
          <5>2. CASE ~backward
            BY <5>2, <3>2, <2>4 DEF first
          <5> QED BY <5>1, <5>2
        <4>2. n <= k
          BY <4>1, <3>1, <1>1 DEF HeapInv, HeapLinks, n
        <4>3. CASE forward
          <5>1. n < k /\ n \in Blocks
            BY <4>2, <4>3, <3>1, <1>1
          <5>2. mem_next[n] <= k
            BY <5>1, <3>1 DEF HeapInv, HeapLinks
          <5> QED BY <5>2, <4>3, <3>2, <1>13 DEF end
        <4>4. CASE ~forward
          BY <4>2, <4>4, <3>2, <1>13 DEF end
        <4> QED BY <4>3, <4>4
      <3>3. CASE j # first
        BY <3>1, <3>3, <2>4, <1>14 DEF HeapInv, HeapLinks
      <3> QED BY <3>2, <3>3
    <2> QED BY <2>1, <2>2, <2>3, <2>4 DEF HeapLinks
  <1>16. FreeApart'
    <2>1. mem_next'[first] \in used'
      BY <1>4, <1>8, <1>13
    <2>2. ASSUME NEW j \in Free', j # first PROVE mem_next'[j] \in used'
      <3>1. j \in Free /\ mem_next'[j] = mem_next[j] /\ mem_next[j] # m
        <4>1. j \in Free /\ j \in Blocks' /\ j \in Blocks
          BY <1>11, <2>2 DEF Free
        <4>2. mem_next'[j] = mem_next[j] /\ ~(mem_next[j] = m /\ backward)
          BY <4>1, <2>2, <1>14
        <4>3. CASE mem_next[j] = m
          <5>1. m # 0 /\ mem_prev[m] = j
            BY <4>1, <4>3, <1>1, <1>12 DEF HeapInv, HeapLinks
          <5>2. backward
            BY <5>1, <4>1, <4>3, <1>12 DEF backward, p, Free
          <5> QED BY <5>2, <4>2, <4>3
        <4> QED BY <4>1, <4>2, <4>3
      <3> QED BY <3>1, <1>8 DEF HeapInv, FreeApart
    <2> QED BY <2>1, <2>2, <1>1, <1>8 DEF HeapInv, FreeApart
  <1>17. LowestFree'
    <2>1. lfree \in Free \union {MEM_SIZE} /\ (\A j \in Free : lfree <= j) /\ lfree <= MEM_SIZE
      BY DEF HeapInv, LowestFree, Lowest, Free
    <2>2. low \in Int /\ low <= m /\ low <= lfree /\ (low = m \/ low = lfree)
      BY <1>1 DEF low
    <2>3. backward => lfree <= first
      BY <2>1, <1>3 DEF first
    <2>4. first \in Free' /\ first <= m
      BY <1>4, <1>11
    <2>5. CASE low = m
      <3>1. lfree' = first
        BY <2>5, <1>7
      <3>2. \A j \in Free' : first <= j
        BY <2>1, <2>2, <2>4, <2>5, <1>4, <1>11 DEF Free
      <3> QED BY <3>1, <3>2, <2>4, <1>4 DEF LowestFree, Lowest
    <2>6. CASE low # m
      <3>1. lfree' = lfree /\ lfree < m /\ lfree # n
        BY <2>2, <2>6, <1>1, <1>7
      <3>2. lfree \in Free /\ lfree <= first
        BY <3>1, <2>1, <2>3, <1>1 DEF first
      <3>3. lfree \in Free' /\ \A j \in Free' : lfree <= j
        BY <3>1, <3>2, <2>1, <1>11
      <3> QED BY <3>1, <3>3, <2>1 DEF LowestFree, Lowest
    <2> QED BY <2>5, <2>6
  <1>18. HeapTypeOK'
    <2>1. lfree' \in Index
      BY <1>1, <1>4, <1>7 DEF HeapTypeOK, low
    <2> QED BY <2>1, <1>5, <1>6, <1>8, <1>9 DEF HeapTypeOK
  <1>19. Owned'
    <2>1. ASSUME NEW j \in Index, j \notin Blocks' PROVE alloc'[j] = 0 /\ (j # MEM_SIZE => j \notin used')
      <3>1. j \notin Blocks \/ j = m \/ j \in Free
        BY <2>1, <1>2, <1>10
      <3> QED BY <3>1, <1>8 DEF HeapInv, Owned, Free
    <2>2. ASSUME NEW j \in Blocks' PROVE (j \in used' <=> alloc'[j] > 0) /\ alloc'[j] <= Room(j)'
      <3>1. CASE j = first
        <4>1. j \in Free' /\ alloc'[j] = 0
          <5>1. j = m \/ j \in Free
            BY <3>1, <1>3 DEF first
          <5> QED BY <5>1, <3>1, <1>8, <1>11 DEF HeapInv, Owned, Free
        <4>2. Room(j)' >= 0
          BY <3>1, <1>4, <1>13 DEF Room
        <4> QED BY <4>1, <4>2, <3>1, <1>4, <1>13 DEF Free, Room
      <3>2. CASE j # first
        <4>1. j \in Blocks /\ j # m /\ mem_next'[j] = mem_next[j]
          BY <3>2, <1>14
        <4> QED BY <4>1, <1>8 DEF HeapInv, Owned, Room
      <3> QED BY <3>1, <3>2
    <2> QED BY <2>1, <2>2 DEF Owned
  <1> QED BY <1>15, <1>16, <1>17, <1>18, <1>19 DEF HeapInv

\* mem_trim keeps the invariant when the free neighbour moves down.
LEMMA TrimMovesStep ==
  ASSUME HeapConstants, HeapInv, NEW m \in Index, NEW asked \in HeapSizes \ {0}, asked <= alloc[m], TrimMoves(m, asked)
  PROVE  HeapInv'
  <1> DEFINE n == mem_next[m]
             e == mem_next[n]
             i2 == m + SIZEOF_STRUCT_MEM + Rounded(asked)
  <1>t. HeapTypeOK
    BY DEF HeapInv
  <1> USE Numbers, <1>t
  <1>1. /\ m \in Blocks /\ m \in used /\ m # MEM_SIZE /\ n \in Free /\ n \in Index /\ m < n
        /\ e \in Blocks \union {MEM_SIZE} /\ e \in Index /\ n < e /\ e \in used
        /\ asked \in Nat /\ Rounded(asked) \in Nat /\ Rounded(asked) < Room(m)
    <2>1. /\ m \in Blocks /\ m \in used /\ m # MEM_SIZE /\ n \notin used
          /\ asked \in Nat /\ Rounded(asked) \in Nat /\ Rounded(asked) < Room(m)
      BY DEF TrimMoves, HeapInv, Owned, HeapConstants
    <2>2. n \in Blocks
      BY <2>1 DEF HeapInv, HeapLinks, FreeApart
    <2>3. \A j \in Blocks : j < mem_next[j] /\ mem_next[j] \in Blocks \union {MEM_SIZE}
      BY DEF HeapInv, HeapLinks, Room
    <2>4. e \in used
      BY <2>1, <2>2 DEF HeapInv, FreeApart, Free
    <2> QED BY <2>1, <2>2, <2>3, <2>4 DEF Free
  <1>2. i2 \in Index /\ m < i2 /\ i2 < n /\ i2 \notin Blocks /\ i2 # MEM_SIZE
    <2>1. i2 \in Index /\ m < i2 /\ i2 < n
      BY <1>1 DEF Room
    <2> QED BY <2>1, <1>1 DEF HeapInv, HeapLinks
  <1>3. /\ \A j \in Index : mem_next'[j] = IF j = m THEN i2 ELSE IF j = i2 THEN e ELSE IF j = n THEN 0 ELSE mem_next[j]
        /\ mem_next' \in [Index -> Index]
    BY <1>1, <1>2 DEF TrimMoves, HeapTypeOK
  <1>4. /\ \A j \in Index : mem_prev'[j] = IF j = i2 THEN m ELSE IF j = n THEN 0
                                       ELSE IF j = e /\ j # MEM_SIZE THEN i2 ELSE mem_prev[j]
        /\ mem_prev' \in [Index -> Index]
    BY <1>1, <1>2 DEF TrimMoves, HeapTypeOK
  <1>5. /\ used' = used \ {i2} /\ lfree' = IF lfree = n THEN i2 ELSE lfree
        /\ \A j \in Index : alloc'[j] = IF j = m THEN asked ELSE alloc[j]
    BY DEF TrimMoves, HeapTypeOK
  <1>6. alloc' \in [Index -> Nat]
    BY <1>1 DEF TrimMoves, HeapTypeOK
  <1>7. i2 = m + SIZEOF_STRUCT_MEM + Rounded(asked) /\ Rounded(asked) >= MIN_SIZE /\ Rounded(asked) >= asked
    BY <1>1
  <1>8. /\ \A j, k \in Blocks : mem_next[j] = mem_next[k] => j = k
        /\ \A j \in Blocks : j < mem_next[j]
    BY OneBefore DEF HeapInv
  <1>9. mem_next[m] = n /\ mem_next[n] = e
    OBVIOUS
  <1>o. /\ m \in Int /\ n \in Int /\ e \in Int /\ i2 \in Int
        /\ 0 <= m /\ m < i2 /\ i2 < n /\ n < e /\ e <= MEM_SIZE
    <2>1. m \in Int /\ n \in Int /\ e \in Int /\ i2 \in Int /\ 0 <= m /\ e <= MEM_SIZE
      BY <1>1, <1>2
    <2> QED BY <2>1, <1>1, <1>2
  <1> HIDE DEF n, e, i2
  <1>10. \A j : j \in Blocks' <=> j = i2 \/ (j \in Blocks /\ j # n)
    <2>1. e # 0 /\ i2 # 0 /\ m # i2 /\ n # i2 /\ m # n
      BY <1>o
    <2>2. \A j : j \in Blocks' <=> j \in Index /\ j # MEM_SIZE /\ mem_next'[j] # 0
      BY DEF Blocks
    <2>3. \A j : j \in Blocks <=> j \in Index /\ j # MEM_SIZE /\ mem_next[j] # 0
      BY DEF Blocks
    <2> QED BY <2>1, <2>2, <2>3, <1>1, <1>2, <1>3
  <1>11. \A j : j \in Free' <=> j = i2 \/ (j \in Free /\ j # n)
    BY <1>2, <1>5, <1>10 DEF Free
  <1>12. mem_next'[m] = i2 /\ mem_next'[i2] = e /\ \A j \in Blocks \ {m, n} : mem_next'[j] = mem_next[j] /\ mem_next[j] # n /\ mem_next[j] # e /\ mem_next[j] # i2
    <2>1. \A j \in Blocks \ {m, n} : mem_next[j] # n /\ mem_next[j] # e
      BY <1>1, <1>8, <1>9 DEF Free
    <2>2. \A j \in Blocks : mem_next[j] # i2
      BY <1>2 DEF HeapInv, HeapLinks
    <2> QED BY <2>1, <2>2, <1>1, <1>2, <1>3
  <1>13. HeapLinks'
    <2>1. 0 \in Blocks' /\ mem_prev'[0] = 0 /\ mem_next'[MEM_SIZE] = MEM_SIZE
      <3>1. 0 \in Blocks /\ mem_prev[0] = 0 /\ mem_next[MEM_SIZE] = MEM_SIZE
        BY DEF HeapInv, HeapLinks
      <3>2. n # 0 /\ e # 0 /\ i2 # 0 /\ n # MEM_SIZE
        BY <1>1, <1>2 DEF Free
      <3> QED BY <3>1, <3>2, <1>1, <1>2, <1>3, <1>4, <1>10
    <2>2. ASSUME NEW j \in Blocks'
          PROVE  /\ mem_next'[j] \in Blocks' \union {MEM_SIZE} /\ Room(j)' >= MIN_SIZE
                 /\ mem_next'[j] # MEM_SIZE => mem_prev'[mem_next'[j]] = j
      <3>1. CASE j = m
        BY <3>1, <1>1, <1>2, <1>4, <1>7, <1>10, <1>12 DEF Room
      <3>2. CASE j = i2
        <4>1. Room(n) >= MIN_SIZE
          BY <1>1 DEF HeapInv, HeapLinks, Free
        <4>2. Room(j)' >= MIN_SIZE
          BY <4>1, <3>2, <1>1, <1>2, <1>9, <1>12 DEF Room
        <4>3. e # n /\ e # i2
          BY <1>1, <1>2
        <4> QED BY <4>2, <4>3, <3>2, <1>1, <1>4, <1>10, <1>12
      <3>3. CASE j # m /\ j # i2
        <4>1. j \in Blocks \ {m, n}
          BY <3>3, <1>10
        <4>2. /\ mem_next[j] \in Blocks \union {MEM_SIZE} /\ Room(j) >= MIN_SIZE
              /\ mem_next[j] # MEM_SIZE => mem_prev[mem_next[j]] = j
          BY <4>1 DEF HeapInv, HeapLinks
        <4>3. Room(j)' = Room(j)
          BY <4>1, <1>12 DEF Room
        <4> QED BY <4>1, <4>2, <4>3, <1>4, <1>10, <1>12
      <3> QED BY <3>1, <3>2, <3>3
    <2>3. ASSUME NEW j \in Blocks', j # 0
          PROVE  mem_prev'[j] \in Blocks' /\ mem_next'[mem_prev'[j]] = j
      <3>1. CASE j = i2
        BY <3>1, <1>1, <1>2, <1>4, <1>10, <1>12
      <3>2. CASE j = e /\ j # i2
        <4>1. e # MEM_SIZE /\ e # n
          BY <3>2, <1>1, <1>10
        <4> QED BY <4>1, <3>2, <1>1, <1>4, <1>10, <1>12
      <3>3. CASE j # e /\ j # i2
        <4>1. j \in Blocks /\ j # n /\ mem_prev'[j] = mem_prev[j]
          BY <3>3, <1>4, <1>10
        <4>2. mem_prev[j] \in Blocks /\ mem_next[mem_prev[j]] = j
          BY <4>1, <2>3 DEF HeapInv, HeapLinks
        <4>3. mem_prev[j] # m /\ mem_prev[j] # n
          BY <4>1, <4>2, <3>3, <1>9
        <4> QED BY <4>1, <4>2, <4>3, <1>10, <1>12
      <3> QED BY <3>1, <3>2, <3>3
    <2>4. ASSUME NEW j \in Blocks', NEW k \in Blocks', j < k
          PROVE  mem_next'[j] <= k
      <3>0. \A a, b \in Blocks : a < b => mem_next[a] <= b
        BY DEF HeapInv, HeapLinks
      <3>1. CASE j = m
        <4>1. k = i2 \/ n <= k
          BY <3>0, <3>1, <2>4, <1>1, <1>9, <1>10
        <4> QED BY <4>1, <3>1, <1>o, <1>10, <1>12
      <3>2. CASE j = i2
        <4>1. k \in Blocks /\ k # n /\ m < k
          BY <3>2, <2>4, <1>o, <1>10
        <4>2. n < k /\ n \in Blocks
          BY <4>1, <3>0, <1>1, <1>9 DEF Free
        <4>3. e <= k
          BY <4>1, <4>2, <3>0, <1>9
        <4> QED BY <4>3, <3>2, <1>12
      <3>3. CASE j # m /\ j # i2
        <4>1. j \in Blocks /\ j # n /\ mem_next'[j] = mem_next[j]
          BY <3>3, <1>10, <1>12
        <4>2. CASE k = i2
          <5>1. j < m
            <6>1. n <= j => FALSE
              BY <4>1, <4>2, <2>4, <1>o
            <6>2. m < j => n <= j
              BY <4>1, <3>0, <1>1, <1>9
            <6>3. j \in Int
              BY <4>1
            <6> QED BY <6>1, <6>2, <6>3, <3>3, <1>o
          <5>2. mem_next[j] <= m
            BY <5>1, <4>1, <3>0, <1>1
          <5> QED BY <5>2, <4>1, <4>2, <1>o
        <4>3. CASE k # i2
          BY <4>1, <4>3, <3>0, <2>4, <1>10
        <4> QED BY <4>2, <4>3
      <3> QED BY <3>1, <3>2, <3>3
    <2> QED BY <2>1, <2>2, <2>3, <2>4 DEF HeapLinks
  <1>14. FreeApart'
    <2>1. e \in used' /\ MEM_SIZE \in used'
      BY <1>1, <1>2, <1>5 DEF HeapInv, FreeApart
    <2>2. ASSUME NEW j \in Free, j # n PROVE mem_next'[j] \in used'
      <3>1. j \in Blocks \ {m, n} /\ mem_next[j] \in used
        BY <2>2, <1>1 DEF Free, HeapInv, FreeApart
      <3> QED BY <3>1, <1>5, <1>12
    <2> QED BY <2>1, <2>2, <1>11, <1>12 DEF FreeApart
  <1>15. LowestFree'
    <2>1. lfree \in Free \union {MEM_SIZE} /\ (\A j \in Free : lfree <= j) /\ lfree <= MEM_SIZE
      BY DEF HeapInv, LowestFree, Lowest, Free
    <2>2. lfree <= n /\ lfree # MEM_SIZE
      BY <2>1, <1>1, <1>o
    <2>3. CASE lfree = n
      <3>1. lfree' = i2 /\ i2 \in Free' /\ i2 <= MEM_SIZE
        BY <2>3, <1>o, <1>5, <1>11
      <3>2. \A j \in Free : i2 <= j
        BY <2>1, <2>3, <1>o DEF Free
      <3>3. \A j \in Free' : i2 <= j
        BY <3>2, <1>o, <1>11
      <3> QED BY <3>1, <3>3 DEF LowestFree, Lowest
    <2>4. CASE lfree # n
      <3>1. lfree < m
        <4>1. lfree \in Blocks /\ lfree < n /\ lfree # m
          BY <2>1, <2>2, <2>4, <1>1 DEF Free
        <4>2. \A a, b \in Blocks : a < b => mem_next[a] <= b
          BY DEF HeapInv, HeapLinks
        <4> QED BY <4>1, <4>2, <1>1, <1>9
      <3>2. lfree' = lfree /\ lfree \in Free' /\ \A j \in Free' : lfree <= j
        <4>1. lfree' = lfree /\ lfree \in Free'
          BY <2>1, <2>2, <2>4, <1>5, <1>11
        <4>2. lfree <= i2
          BY <3>1, <1>o
        <4> QED BY <4>1, <4>2, <2>1, <1>11
      <3> QED BY <3>2, <2>1 DEF LowestFree, Lowest
    <2> QED BY <2>3, <2>4
  <1>16. HeapTypeOK'
    BY <1>2, <1>3, <1>4, <1>5, <1>6 DEF HeapTypeOK
  <1>17. Owned'
    <2>1. ASSUME NEW j \in Index, j \notin Blocks' PROVE alloc'[j] = 0 /\ (j # MEM_SIZE => j \notin used')
      <3>1. (j \notin Blocks \/ j = n) /\ j # m
        BY <2>1, <1>1, <1>10
      <3> QED BY <3>1, <1>1, <1>5 DEF HeapInv, Owned, Free
    <2>2. ASSUME NEW j \in Blocks' PROVE (j \in used' <=> alloc'[j] > 0) /\ alloc'[j] <= Room(j)'
      <3>1. CASE j = m
        <4>1. Room(j)' = Rounded(asked) /\ asked > 0
          BY <3>1, <1>1, <1>7, <1>12 DEF Room
        <4> QED BY <4>1, <3>1, <1>1, <1>2, <1>5, <1>7
      <3>2. CASE j = i2
        <4>1. alloc[i2] = 0 /\ i2 # m
          BY <1>1, <1>2 DEF HeapInv, Owned
        <4>2. Room(j)' >= 0
          BY <3>2, <1>1, <1>2, <1>12, <1>13 DEF HeapLinks, Room
        <4> QED BY <4>1, <4>2, <3>2, <1>2, <1>5
      <3>3. CASE j # m /\ j # i2
        <4>1. j \in Blocks \ {m, n} /\ mem_next'[j] = mem_next[j]
          BY <3>3, <1>10, <1>12
        <4> QED BY <4>1, <3>3, <1>5 DEF HeapInv, Owned, Room
      <3> QED BY <3>1, <3>2, <3>3
    <2> QED BY <2>1, <2>2 DEF Owned
  <1> QED BY <1>13, <1>14, <1>15, <1>16, <1>17 DEF HeapInv

\* mem_trim keeps the invariant when the rest becomes a block.
LEMMA TrimSplitsStep ==
  ASSUME HeapConstants, HeapInv, NEW m \in Index, NEW asked \in HeapSizes \ {0}, asked <= alloc[m], TrimSplits(m, asked)
  PROVE  HeapInv'
  <1> DEFINE i2 == m + SIZEOF_STRUCT_MEM + Rounded(asked)
  <1>t. HeapTypeOK
    BY DEF HeapInv
  <1> USE Numbers, <1>t
  <1>1. /\ m \in Blocks /\ m \in used /\ mem_next[m] \in used /\ asked \in Nat /\ asked > 0
        /\ Rounded(asked) \in Nat /\ Rounded(asked) >= MIN_SIZE /\ Rounded(asked) >= asked
    <2>1. asked \in Nat /\ asked > 0
      BY DEF HeapConstants
    <2>2. alloc[m] > 0 /\ mem_next[m] \in used
      BY DEF TrimSplits
    <2>3. m \in Blocks /\ m \in used
      BY <2>2 DEF HeapInv, Owned
    <2> QED BY <2>1, <2>2, <2>3
  <1>2. /\ i2 \in Int /\ i2 = m + SIZEOF_STRUCT_MEM + Rounded(asked)
        /\ m + SIZEOF_STRUCT_MEM + MIN_SIZE <= i2 /\ i2 + SIZEOF_STRUCT_MEM + MIN_SIZE <= mem_next[m]
    BY <1>1 DEF TrimSplits, Room
  <1>3. /\ Spliced(m, i2, mem_next[m]) /\ used' = used \ {i2} /\ lfree' = IF i2 < lfree THEN i2 ELSE lfree
        /\ \A j \in Index : alloc'[j] = IF j = m THEN asked ELSE alloc[j]
    BY DEF TrimSplits, HeapTypeOK
  <1>4. alloc' \in [Index -> Nat]
    BY <1>1 DEF TrimSplits, HeapTypeOK
  <1> HIDE DEF i2
  <1>5. /\ mem_next' \in [Index -> Index] /\ mem_prev' \in [Index -> Index]
        /\ i2 \in Index /\ i2 \notin Blocks /\ i2 # MEM_SIZE /\ Blocks' = Blocks \union {i2}
        /\ mem_next'[m] = i2 /\ mem_next'[i2] = mem_next[m] /\ \A j \in Index \ {m, i2} : mem_next'[j] = mem_next[j]
        /\ HeapLinks'
    BY <1>1, <1>2, <1>3, SplicedKeeps DEF HeapInv
  <1>6. \A j : j \in Free' <=> j = i2 \/ j \in Free
    BY <1>1, <1>3, <1>5 DEF Free
  <1>7. HeapTypeOK'
    BY <1>3, <1>4, <1>5 DEF HeapTypeOK
  <1>8. \A j \in Blocks : mem_next[j] # i2
    BY <1>5 DEF HeapInv, HeapLinks
  <1>9. FreeApart'
    <2>1. mem_next[m] \in used' /\ MEM_SIZE \in used'
      BY <1>1, <1>3, <1>5, <1>8 DEF HeapInv, FreeApart
    <2>2. ASSUME NEW j \in Free PROVE mem_next'[j] \in used'
      <3>1. j \in Blocks /\ mem_next[j] \in used /\ j # m /\ j # i2
        BY <1>1, <1>5 DEF Free, HeapInv, FreeApart
      <3> QED BY <3>1, <1>3, <1>5, <1>8
    <2> QED BY <2>1, <2>2, <1>5, <1>6 DEF FreeApart
  <1>10. LowestFree'
    <2>1. lfree \in Free \union {MEM_SIZE} /\ (\A j \in Free : lfree <= j) /\ lfree <= MEM_SIZE
      BY DEF HeapInv, LowestFree, Lowest, Free
    <2>2. CASE i2 < lfree
      <3>1. lfree' = i2 /\ i2 \in Free' /\ i2 <= MEM_SIZE
        BY <2>2, <1>3, <1>5, <1>6, ZenonT(60)
      <3>2. \A j \in Free : i2 <= j
        BY <2>1, <2>2, <1>2 DEF Free
      <3>3. \A j \in Free' : i2 <= j
        BY <3>2, <1>2, <1>6
      <3> QED BY <3>1, <3>3 DEF LowestFree, Lowest
    <2>3. CASE ~(i2 < lfree)
      <3>1. lfree' = lfree /\ lfree <= i2
        BY <2>3, <1>2, <1>3
      <3>2. lfree \in Free' \union {MEM_SIZE} /\ \A j \in Free' : lfree <= j
        BY <3>1, <2>1, <1>6
      <3> QED BY <3>1, <3>2, <2>1 DEF LowestFree, Lowest
    <2> QED BY <2>2, <2>3
  <1>11. Owned'
    <2>1. ASSUME NEW j \in Index, j \notin Blocks' PROVE alloc'[j] = 0 /\ (j # MEM_SIZE => j \notin used')
      BY <2>1, <1>1, <1>3, <1>5 DEF HeapInv, Owned
    <2>2. ASSUME NEW j \in Blocks' PROVE (j \in used' <=> alloc'[j] > 0) /\ alloc'[j] <= Room(j)'
      <3>1. CASE j = m
        <4>1. Room(j)' = Rounded(asked)
          BY <3>1, <1>1, <1>2, <1>5 DEF Room
        <4> QED BY <4>1, <3>1, <1>1, <1>3, <1>5
      <3>2. CASE j = i2
        <4>1. alloc[i2] = 0 /\ i2 # m
          BY <1>1, <1>5 DEF HeapInv, Owned
        <4>2. Room(j)' >= MIN_SIZE /\ Room(j)' = mem_next[m] - (i2 + SIZEOF_STRUCT_MEM)
          BY <3>2, <1>5 DEF HeapLinks, Room
        <4>3. Room(j)' >= 0
          BY <4>2, <1>1, <1>2
        <4> QED BY <4>1, <4>3, <3>2, <1>3, <1>5
      <3>3. CASE j # m /\ j # i2
        <4>1. j \in Blocks /\ mem_next'[j] = mem_next[j]
          BY <3>3, <1>5
        <4> QED BY <4>1, <3>3, <1>3 DEF HeapInv, Owned, Room
      <3> QED BY <3>1, <3>2, <3>3
    <2> QED BY <2>1, <2>2 DEF Owned
  <1> QED BY <1>5, <1>7, <1>9, <1>10, <1>11 DEF HeapInv

\* mem_trim keeps the invariant when the block keeps its room.
LEMMA TrimKeepsStep ==
  ASSUME HeapConstants, HeapInv, NEW m \in Index, NEW asked \in HeapSizes \ {0}, asked <= alloc[m], TrimKeeps(m, asked)
  PROVE  HeapInv'
  <1>t. HeapTypeOK
    BY DEF HeapInv
  <1> USE Numbers, <1>t
  <1>1. asked \in Nat /\ asked > 0 /\ Rounded(asked) \in Nat /\ Rounded(asked) >= asked /\ Rounded(asked) <= Room(m)
    BY DEF TrimKeeps, HeapConstants
  <1>2. mem_next' = mem_next /\ mem_prev' = mem_prev /\ used' = used /\ lfree' = lfree /\ alloc[m] > 0
    BY DEF TrimKeeps
  <1>3. \A j \in Index : alloc'[j] = IF j = m THEN asked ELSE alloc[j]
    BY DEF TrimKeeps, HeapTypeOK
  <1>4. Blocks' = Blocks /\ Free' = Free /\ \A j : Room(j)' = Room(j)
    BY <1>2 DEF Blocks, Free, Room
  <1>5. HeapTypeOK'
    BY <1>1, <1>2 DEF TrimKeeps, HeapTypeOK
  <1>6. HeapLinks' /\ FreeApart' /\ LowestFree'
    BY <1>2, <1>4 DEF HeapInv, HeapLinks, FreeApart, LowestFree
  <1>7. Owned'
    <2>1. m \in Blocks /\ m \in used /\ asked <= Room(m)
      BY <1>1, <1>2 DEF HeapInv, Owned
    <2> QED BY <2>1, <1>1, <1>2, <1>3, <1>4 DEF HeapInv, Owned
  <1> QED BY <1>5, <1>6, <1>7 DEF HeapInv

\* Every step keeps the invariant.
LEMMA HeapNextInv == ASSUME HeapConstants, HeapInv, [HeapNext]_heapVars PROVE HeapInv'
  <1>1. CASE UNCHANGED heapVars
    BY <1>1 DEF heapVars, HeapInv, HeapTypeOK, HeapLinks, FreeApart, LowestFree, Owned, Lowest, Blocks, Free, Room
  <1>2. ASSUME NEW i \in Index, NEW size \in HeapSizes, mem_malloc(i, size) PROVE HeapInv'
    BY <1>2, MallocStep
  <1>3. ASSUME NEW size \in HeapSizes, MallocFails(size) PROVE HeapInv'
    BY <1>1, <1>3 DEF MallocFails
  <1>4. ASSUME NEW m \in Index, mem_free(m) PROVE HeapInv'
    BY <1>4, MemFreeStep
  <1>5. ASSUME NEW m \in Index, NEW size \in HeapSizes \ {0}, mem_trim(m, size) PROVE HeapInv'
    BY <1>5, TrimMovesStep, TrimSplitsStep, TrimKeepsStep DEF mem_trim
  <1> QED BY <1>1, <1>2, <1>3, <1>4, <1>5 DEF HeapNext

\* mem_malloc, mem_free and mem_trim keep the heap right under any sequence of
\* calls, whatever its size and whatever a header and the smallest block take.
THEOREM HeapCorrect == ASSUME HeapConstants PROVE HeapSpec => []HeapOK
  <1>1. HeapInit => HeapInv
    BY HeapInitInv
  <1>2. HeapInv /\ [HeapNext]_heapVars => HeapInv'
    BY HeapNextInv
  <1>3. HeapInv => HeapOK
    BY Right
  <1> QED BY <1>1, <1>2, <1>3, PTL DEF HeapSpec
=============================================================================
