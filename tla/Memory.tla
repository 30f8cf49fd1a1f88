------------------------------- MODULE Memory -------------------------------
(***************************************************************************)
(* The page allocator of the process manager, vms/pm/memory.c: a doubly    *)
(* linked list of blocks kept in an array with one node per page.  Node i  *)
(* is the node alloc_block_node finds for the i-th page, so a node index   *)
(* stands both for &block_node_array[i] and for its b_start_addr, and the  *)
(* list head blist is node 0.  The allocation loop is one step per         *)
(* iteration; everything else runs to completion, as PM is one thread.     *)
(***************************************************************************)
EXTENDS Integers

CONSTANTS
  NPages,   \* pages managed after memory_init
  MaxReq,   \* bound: largest request tried
  MaxRef    \* bound: most references taken on one block

ASSUME MemoryAssumption ==
  /\ NPages \in Nat \ {0}
  /\ MaxReq \in Nat
  /\ MaxRef \in Nat \ {0}

VARIABLES
  b_pages, b_ref, next, pre,   \* struct block_node, by node index
  current_node,                \* loop variable of alloc_mem_pages
  n_req,                       \* argument n while the loop runs, else 0
  ret,                         \* last address returned, NULL for (phys_addr_t)0
  panicked                     \* panic() halted the process manager

vars == <<b_pages, b_ref, next, pre, current_node, n_req, ret, panicked>>
list == <<b_pages, b_ref, next, pre>>

Pages == 0 .. NPages - 1
NULL == -1
blist == 0

\* memory_init, init_block_node, init_block_list: one free block of all pages.
memory_init ==
  /\ b_pages = [i \in Pages |-> IF i = blist THEN NPages ELSE 0]
  /\ b_ref = [i \in Pages |-> 0]
  /\ next = [i \in Pages |-> NULL]
  /\ pre = [i \in Pages |-> NULL]
  /\ current_node = NULL
  /\ n_req = 0
  /\ ret = NULL
  /\ panicked = FALSE

Idle == ~panicked /\ n_req = 0

Panic ==
  /\ panicked' = TRUE
  /\ ret' = NULL
  /\ UNCHANGED <<b_pages, b_ref, next, pre, current_node, n_req>>
-----------------------------------------------------------------------------
(* alloc_mem_pages *)

\* A call: zero pages is answered at once, otherwise the search starts.
alloc_mem_pages(n) ==
  /\ Idle
  /\ n_req' = n
  /\ current_node' = IF n = 0 THEN NULL ELSE blist
  /\ ret' = NULL
  /\ UNCHANGED <<list, panicked>>

Searching == ~panicked /\ n_req > 0
Unfit(i) == b_ref[i] > 0 \/ b_pages[i] < n_req

\* Mutant: the search wraps around to the head as if the list were circular.
AllocSkipWraps ==
  /\ Searching /\ current_node # NULL
  /\ Unfit(current_node)
  /\ current_node' = IF next[current_node] = NULL THEN blist ELSE next[current_node]
  /\ UNCHANGED <<list, n_req, ret, panicked>>

AllocSkip ==
  /\ Searching /\ current_node # NULL
  /\ Unfit(current_node)
  /\ current_node' = next[current_node]
  /\ UNCHANGED <<list, n_req, ret, panicked>>

AllocExact ==
  /\ Searching /\ current_node # NULL
  /\ ~Unfit(current_node)
  /\ b_pages[current_node] = n_req
  /\ b_ref' = [b_ref EXCEPT ![current_node] = 1]
  /\ ret' = current_node
  /\ n_req' = 0
  /\ current_node' = NULL
  /\ UNCHANGED <<b_pages, next, pre, panicked>>

\* Cut the request off the front of a larger free block.  alloc_block_node
\* panics when the node of the remainder is already in use.
AllocSplit ==
  LET c == current_node
      new == c + n_req
      after == next[c]
  IN
  /\ Searching /\ c # NULL
  /\ ~Unfit(c)
  /\ b_pages[c] > n_req
  /\ IF b_ref[new] > 0
     THEN Panic
     ELSE /\ b_pages' = [b_pages EXCEPT ![new] = b_pages[c] - n_req, ![c] = n_req]
          /\ b_ref' = [b_ref EXCEPT ![new] = 0, ![c] = 1]
          /\ next' = [next EXCEPT ![new] = after, ![c] = new]
          /\ pre' = [i \in Pages |-> IF i = new THEN c
                                     ELSE IF i = after THEN new
                                     ELSE pre[i]]
          /\ ret' = c
          /\ n_req' = 0
          /\ current_node' = NULL
          /\ UNCHANGED panicked

\* The list is exhausted: the caller gets address 0.
AllocFail ==
  /\ Searching /\ current_node = NULL
  /\ ret' = NULL
  /\ n_req' = 0
  /\ UNCHANGED <<list, current_node, panicked>>
-----------------------------------------------------------------------------
(* realloc_mem_block: one more reference to a block in use *)

realloc_mem_block(p) ==
  /\ Idle
  /\ b_ref[p] < MaxRef
  /\ IF b_ref[p] = 0
     THEN Panic
     ELSE /\ b_ref' = [b_ref EXCEPT ![p] = @ + 1]
          /\ ret' = p
          /\ UNCHANGED <<b_pages, next, pre, current_node, n_req, panicked>>
-----------------------------------------------------------------------------
(* free_mem_pages *)

FreeFree(p) ==
  /\ Idle
  /\ b_ref[p] = 0
  /\ Panic

FreeShared(p) ==
  /\ Idle
  /\ b_ref[p] > 1
  /\ b_ref' = [b_ref EXCEPT ![p] = @ - 1]
  /\ ret' = NULL
  /\ UNCHANGED <<b_pages, next, pre, current_node, n_req, panicked>>

FusesNext(p) == next[p] # NULL /\ b_ref[next[p]] = 0

\* Mutant: a freed block is never fused with the one before it.
FusesPreNever(p) == FALSE
FusesPre(p) == pre[p] # NULL /\ b_ref[pre[p]] = 0

\* Mutant: the fused block is not unlinked.
NextOfStale(p) == next[p]

\* What the block is followed by, and how many pages it has, once fused with
\* a free next block.
NextOf(p) == IF FusesNext(p) THEN next[next[p]] ELSE next[p]
PagesOf(p) == b_pages[p] + (IF FusesNext(p) THEN b_pages[next[p]] ELSE 0)

\* The consistency checks of both fusions.
ListCorrupted(p) ==
  \/ FusesNext(p) /\ (next[p] = blist \/ pre[next[p]] # p)
  \/ FusesPre(p) /\ next[pre[p]] # p

\* The last reference goes: fuse with a free next block, then let a free
\* previous block swallow the result.
FreeLast(p) ==
  LET q == pre[p] IN
  /\ Idle
  /\ b_ref[p] = 1
  /\ IF ListCorrupted(p)
     THEN Panic
     ELSE /\ b_pages' = [i \in Pages |->
               IF i = p THEN PagesOf(p)
               ELSE IF FusesPre(p) /\ i = q THEN b_pages[q] + PagesOf(p)
               ELSE b_pages[i]]
          /\ next' = [i \in Pages |->
               IF i = p \/ (FusesPre(p) /\ i = q) THEN NextOf(p) ELSE next[i]]
          /\ pre' = [i \in Pages |->
               IF i # NextOf(p) THEN pre[i]
               ELSE IF FusesPre(p) THEN q
               ELSE IF FusesNext(p) THEN p
               ELSE pre[i]]
          /\ b_ref' = [b_ref EXCEPT ![p] = 0]
          /\ ret' = NULL
          /\ UNCHANGED <<current_node, n_req, panicked>>

free_mem_pages(p) == FreeFree(p) \/ FreeShared(p) \/ FreeLast(p)
-----------------------------------------------------------------------------
Init == memory_init

Next ==
  \/ \E n \in 0 .. MaxReq : alloc_mem_pages(n)
  \/ AllocSkip \/ AllocExact \/ AllocSplit \/ AllocFail
  \/ \E p \in Pages : realloc_mem_block(p) \/ free_mem_pages(p)

\* The process manager never stops in the middle of a search.
Spec == Init /\ [][Next]_vars
FairSpec == Spec /\ WF_vars(AllocSkip \/ AllocExact \/ AllocSplit \/ AllocFail)
-----------------------------------------------------------------------------
TypeOK ==
  /\ b_pages \in [Pages -> Nat]
  /\ b_ref \in [Pages -> Nat]
  /\ next \in [Pages -> Pages \union {NULL}]
  /\ pre \in [Pages -> Pages \union {NULL}]
  /\ current_node \in Pages \union {NULL}
  /\ n_req \in Nat
  /\ ret \in Pages \union {NULL}
  /\ panicked \in BOOLEAN

\* L is the set of nodes on the list: they start at the head, follow one
\* another without gap or overlap to the end of memory, and are linked both ways.
IsBlockList(L) ==
  /\ L \subseteq Pages
  /\ blist \in L /\ pre[blist] = NULL
  /\ \A i \in L :
       /\ b_pages[i] > 0
       /\ i + b_pages[i] <= NPages
       /\ next[i] = IF i + b_pages[i] = NPages THEN NULL ELSE i + b_pages[i]
       /\ next[i] # NULL => next[i] \in L /\ pre[next[i]] = i
       /\ \A j \in L : j > i => j >= i + b_pages[i]
  /\ \A q \in Pages : \E i \in L : i <= q /\ q < i + b_pages[i]

\* Nodes off the list carry no reference, so a stale node left behind by a
\* fusion is never mistaken for a block in use.
StaleNodesFree(L) == \A i \in Pages \ L : b_ref[i] = 0

\* Free neighbours are always fused.
FullyFused(L) ==
  \A i \in L : next[i] # NULL => b_ref[i] > 0 \/ b_ref[next[i]] > 0

\* While alloc_mem_pages searches, every block it has passed was unfit.
SearchSound(L) ==
  /\ n_req > 0 =>
       /\ current_node # NULL => current_node \in L
       /\ \A i \in L : (current_node = NULL \/ i < current_node) => Unfit(i)
  /\ n_req = 0 => current_node = NULL

\* The block list always partitions memory into linked blocks, however calls to
\* alloc_mem_pages, realloc_mem_block and free_mem_pages follow one another.
BlockListOK ==
  \E L \in SUBSET Pages :
    IsBlockList(L) /\ StaleNodesFree(L) /\ FullyFused(L) /\ SearchSound(L)

\* memory.c implements the abstract allocator: every request is served at the
\* lowest address where it fits, address 0 is returned only when no run of free
\* pages is long enough, and the only panics are those for sharing or freeing a
\* block nobody holds (the "list is corrupted" panics never happen).
Abstract == INSTANCE PageAllocator WITH
  len <- [p \in Pages |-> IF b_ref[p] > 0 THEN b_pages[p] ELSE 0],
  refs <- b_ref,
  want <- n_req,
  dead <- panicked
ImplementsPageAllocator == Abstract!Spec

\* The search of alloc_mem_pages ends: the list has no cycle.
SearchEnds == n_req > 0 ~> n_req = 0
=============================================================================
