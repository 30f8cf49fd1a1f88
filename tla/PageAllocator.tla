--------------------------- MODULE PageAllocator ---------------------------
(***************************************************************************)
(* What the page allocator of the process manager promises its callers:    *)
(* a reference-counted allocator of contiguous page extents that always    *)
(* serves a request at the lowest address where it fits, refuses one only  *)
(* when no run of free pages is long enough, and stops the machine when    *)
(* asked to share or release a block nobody holds.  No list, no splitting, *)
(* no merging: module Memory (vms/pm/memory.c) is shown to implement it.   *)
(***************************************************************************)
EXTENDS Integers

CONSTANT NPages   \* pages managed, numbered 0 .. NPages-1

VARIABLES
  len,    \* len[p]: pages of the block that starts at p, 0 if none is held there
  refs,   \* refs[p]: references held on the block that starts at p
  want,   \* pages asked for by the request being served, 0 if there is none
  ret,    \* address the last completed request returned, NoPage if it failed
  dead    \* the allocator has panicked

avars == <<len, refs, want, ret, dead>>

Pages == 0 .. NPages - 1
NoPage == -1

Taken(q) == \E s \in Pages : s <= q /\ q < s + len[s]

\* p is the first page of n consecutive free pages.
Fits(p, n) == p + n <= NPages /\ \A q \in p .. p + n - 1 : ~Taken(q)

Init ==
  /\ len = [p \in Pages |-> 0]
  /\ refs = [p \in Pages |-> 0]
  /\ want = 0
  /\ ret = NoPage
  /\ dead = FALSE

Ask ==
  /\ ~dead /\ want = 0
  /\ want' \in Nat
  /\ ret' = NoPage
  /\ UNCHANGED <<len, refs, dead>>

Grant(p) ==
  /\ ~dead /\ want > 0
  /\ Fits(p, want)
  /\ \A q \in Pages : Fits(q, want) => p <= q
  /\ len' = [len EXCEPT ![p] = want]
  /\ refs' = [refs EXCEPT ![p] = 1]
  /\ ret' = p
  /\ want' = 0
  /\ UNCHANGED dead

Refuse ==
  /\ ~dead /\ want > 0
  /\ \A q \in Pages : ~Fits(q, want)
  /\ ret' = NoPage
  /\ want' = 0
  /\ UNCHANGED <<len, refs, dead>>

Share(p) ==
  /\ ~dead /\ want = 0 /\ refs[p] > 0
  /\ refs' = [refs EXCEPT ![p] = @ + 1]
  /\ ret' = p
  /\ UNCHANGED <<len, want, dead>>

Release(p) ==
  /\ ~dead /\ want = 0 /\ refs[p] > 0
  /\ refs' = [refs EXCEPT ![p] = @ - 1]
  /\ len' = [len EXCEPT ![p] = IF refs[p] = 1 THEN 0 ELSE @]
  /\ ret' = NoPage
  /\ UNCHANGED <<want, dead>>

\* Sharing or releasing a page that starts no held block.
Misuse(p) ==
  /\ ~dead /\ want = 0 /\ refs[p] = 0
  /\ dead' = TRUE
  /\ ret' = NoPage
  /\ UNCHANGED <<len, refs, want>>

Next ==
  \/ Ask
  \/ \E p \in Pages : Grant(p) \/ Share(p) \/ Release(p) \/ Misuse(p)
  \/ Refuse

Spec == Init /\ [][Next]_avars
=============================================================================
