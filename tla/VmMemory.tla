------------------------------ MODULE VmMemory ------------------------------
(***************************************************************************)
(* The memory of virtual machines in the process manager (vms/pm/main.c):  *)
(* what fork, exec, exit and the opening and closing of devices allocate,  *)
(* share, map and free.  PM does one request after the other, so each is   *)
(* one step.  Addresses are page numbers.  The allocator is what module    *)
(* PageAllocator promises: the lowest address that fits.  The two page     *)
(* tables of a VM are one page each (module Pmap has their contents).      *)
(***************************************************************************)
EXTENDS Integers, Sequences, FiniteSets, FiniteSetsExt, SequencesExt

CONSTANTS
  CPUs, InitCpu, Drivers,   \* CPUs with a VM; the one of INIT; drivers among them
  Pages,                 \* pages of memory: first_free_addr is page 1
  Images,                \* programs: pages of their segments, by name of the segment
  MaxChannels,           \* bound: channels a program opens
  MaxCalls               \* bound: requests

Segments == {"code", "data", "rodata", "bss", "stack"}
SegmentOrder == <<"code", "data", "rodata", "bss", "stack">>   \* in which PM allocates them

VARIABLES
  block,      \* the block that starts at a page: [n, ref], ref is 0 if there is none
  vm,         \* cpu_info.vm_info: of every CPU
  map,        \* what its EPT maps: set of [p, w], w if writable
  chans,      \* channel pages of its descriptors
  state,      \* "ok", or the panic that stopped PM
  stale,      \* ghost: pages of closed channels that its EPT still maps
  oom,        \* ghost: an unchecked allocation has failed
  nobss,      \* ghost: exec of a program without bss left the old one in place
  calls       \* requests so far

vars == <<block, vm, map, chans, state, stale, oom, nobss, calls>>

NoBlock == [n |-> 0, ref |-> 0]
\* No VM: nothing is allocated.
NoVm == [st |-> "none", p |-> [s \in Segments |-> 0], n |-> [s \in Segments |-> 0],
         pgtb |-> 0, ept |-> 0, fds |-> 0, channels |-> 0, below |-> 0, span |-> 0, parent |-> InitCpu]
\* INIT is loaded at boot below first_free_addr: pages -9, -8, ...  It has no descriptors.
InitVm == [NoVm EXCEPT
  !.st = "live",
  !.p = [s \in Segments |-> CASE s = "code" -> -9 [] s = "data" -> -8 [] s = "rodata" -> -7
                              [] s = "bss" -> -6 [] s = "stack" -> -5],
  !.n = [s \in Segments |-> 1], !.pgtb = -4, !.ept = -3, !.below = 4, !.span = 5]

\* Pages every VM can reach: the VGA page, the APICs, the bitmap of waiting messages
\* and the window of the network card, the same for all of them; its cpu_info, which
\* it can only read, and its three message pages, of the CPU it runs on.
VGA == -20
APIC == -21
msg_ready_bitmap == -22
CARD == -23
Shared == {VGA, APIC, msg_ready_bitmap, CARD}
cpu_info(c) == -30 - 4 * c
Messages(c) == {cpu_info(c) - 1, cpu_info(c) - 2, cpu_info(c) - 3}
Given(c) == {[p |-> cpu_info(c), w |-> FALSE]} \union {[p |-> q, w |-> TRUE] : q \in Shared \union Messages(c)}

\* boot maps the data of INIT without write access, and not the card
InitMap ==
  {[p |-> q, w |-> q \notin {-9, -8, -7}] : q \in -9 .. -4} \union {m \in Given(InitCpu) : m.p # CARD}

Init ==
  /\ block = [p \in 1 .. Pages |-> NoBlock]
  /\ vm = [c \in CPUs |-> IF c = InitCpu THEN InitVm ELSE NoVm]
  /\ map = [c \in CPUs |-> IF c = InitCpu THEN InitMap ELSE {}]
  /\ chans = [c \in CPUs |-> {}] /\ stale = [c \in CPUs |-> {}]
  /\ state = "ok" /\ oom = FALSE /\ nobss = FALSE /\ calls = 0

is_driver(c) == c \in Drivers
-----------------------------------------------------------------------------
\* The allocator, on B = block.  alloc_mem_pages returns 0 if nothing fits, or if
\* no page is asked for.
Taken(B) == UNION {p .. p + B[p].n - 1 : p \in DOMAIN B}
alloc_mem_pages(B, n) ==
  LET free == (1 .. Pages) \ Taken(B)
      fits == {p \in free : p .. p + n - 1 \subseteq free}
  IN IF n = 0 \/ fits = {} THEN 0 ELSE CHOOSE p \in fits : \A q \in fits : p <= q
Allocated(B, p, n) == IF p = 0 THEN B ELSE [B EXCEPT ![p] = [n |-> n, ref |-> 1]]

\* reallocable: the block can be shared.  The page at first_free_addr itself is
\* taken for memory of boot.
reallocable(p) == p > 1
realloc_mem_block(B, p) == [B EXCEPT ![p].ref = @ + 1]

\* free_mem_pages of the addresses of seq that are not 0, in turn: an address below
\* first_free_addr and a free block are a panic.
FreeOne(B, p) == [B EXCEPT ![p] = IF @.ref > 1 THEN [@ EXCEPT !.ref = @ - 1] ELSE NoBlock]
free_mem_pages(B, seq) ==
  LET f[k \in 0 .. Len(seq)] ==
        IF k = 0 THEN [B |-> B, ok |-> TRUE]
        ELSE LET a == f[k - 1] p == seq[k] IN
             IF ~a.ok \/ p = 0 THEN a
             ELSE IF p < 1 \/ a.B[p].ref = 0 THEN [a EXCEPT !.ok = FALSE]
             ELSE [a EXCEPT !.B = FreeOne(a.B, p)]
  IN f[Len(seq)]
-----------------------------------------------------------------------------
\* What ept_pmap maps for VM v of CPU c with channel pages cs: the pages every VM is
\* given, its tables, segments, descriptors or channel list, and channels.
SegmentPages(v, s) == v.p[s] .. v.p[s] + v.n[s] - 1
EptOf(c, v, cs) ==
  Given(c)
  \union UNION {{[p |-> q, w |-> s \notin {"code", "rodata"}] : q \in SegmentPages(v, s)} : s \in Segments}
  \union {[p |-> q, w |-> TRUE] : q \in ({v.pgtb, v.fds, v.channels} \ {0}) \union cs}

\* Mutant: the data of the parent is shared like its code.
ForkSegmentShares(B, v, s) ==
  IF s \in {"code", "rodata", "data"} /\ reallocable(v.p[s])
  THEN [B |-> realloc_mem_block(B, v.p[s]), p |-> v.p[s]]
  ELSE LET p == alloc_mem_pages(B, v.n[s]) IN [B |-> Allocated(B, p, v.n[s]), p |-> p]

\* One segment of a child: code and rodata are shared if they can be.
ForkSegment(B, v, s) ==
  IF s \in {"code", "rodata"} /\ reallocable(v.p[s])
  THEN [B |-> realloc_mem_block(B, v.p[s]), p |-> v.p[s]]
  ELSE LET p == alloc_mem_pages(B, v.n[s]) IN [B |-> Allocated(B, p, v.n[s]), p |-> p]

\* get for every segment in turn: memory, and where the segments are.
InTurn(B, get(_, _)) ==
  FoldLeft(LAMBDA a, s : LET r == get(a.B, s) IN [B |-> r.B, p |-> [a.p EXCEPT ![s] = r.p]],
           [B |-> B, p |-> [s \in Segments |-> 0]], SegmentOrder)

\* n new pages in turn, each 0 if there is none.
NewPages(B, n) ==
  FoldLeft(LAMBDA a, k : LET p == alloc_mem_pages(a.B, 1) IN [B |-> Allocated(a.B, p, 1), ps |-> Append(a.ps, p)],
           [B |-> B, ps |-> <<>>], [k \in 1 .. n |-> k])

find_free_vm == {c \in CPUs : c > InitCpu /\ vm[c].st = "none"}

\* virt2phys of an address in the stack, k pages above its start (rsp may be the
\* end of the stack), which is below pages above the start of the program.
\* vm_end_vaddr is computed from physical addresses, span pages above that start.
virt2phys_ok(v, k) == v.below + k <= v.span

\* All of the handlers stop PM in the middle when they panic.
Stop(why) == state' = why /\ UNCHANGED <<block, vm, map, chans, stale, oom, nobss>>

\* local_fork, up to the tables: the segments, the descriptors or the channel
\* list.  Nothing is checked, and a segment that was not found is at page 0.
ForkedVm(c, p) ==
  LET v == vm[p] IN
  UNION {{[B |-> t.B, tables |-> t.ps[2] # 0 /\ t.ps[3] # 0,
           v |-> [v EXCEPT !.p = g.p, !.pgtb = t.ps[2], !.ept = t.ps[3], !.parent = p,
                           !.fds = IF is_driver(c) THEN 0 ELSE t.ps[1],
                           !.channels = IF is_driver(c) THEN t.ps[1] ELSE 0]]
          : t \in {NewPages(g.B, 3)}}
         : g \in {InTurn(block, LAMBDA B, s : ForkSegment(B, v, s))}}

\* A descriptor of the parent is copied with a channel of its own (local_channel for
\* each in turn); every channel is mapped in the driver as well.
local_fork(p, rsp) ==
  /\ vm[p].st = "live" /\ ~is_driver(p) /\ find_free_vm # {}
  /\ rsp \in 0 .. vm[p].n["stack"] - 1
  /\ \E c \in {Min(find_free_vm)} : \E f \in ForkedVm(c, p) :
     \E cn \in {NewPages(f.B, IF f.v.fds # 0 THEN Cardinality(chans[p]) ELSE 0)} : \E new \in {Range(cn.ps)} :
       IF ~virt2phys_ok(vm[p], rsp) THEN Stop("virt2phys")
       ELSE IF ~f.tables \/ 0 \in new THEN Stop("no memory")
       ELSE /\ block' = cn.B /\ vm' = [vm EXCEPT ![c] = f.v]
            /\ chans' = [chans EXCEPT ![c] = new]
            /\ map' = [d \in CPUs |-> IF d = c THEN EptOf(c, f.v, new)
                                      ELSE IF is_driver(d) THEN map[d] \union {[p |-> q, w |-> TRUE] : q \in new}
                                      ELSE map[d]]
            /\ stale' = [d \in CPUs |-> IF d = c THEN {} ELSE IF is_driver(d) THEN stale[d] \ new ELSE stale[d]]
            /\ oom' = (oom \/ \E s \in Segments : f.v.n[s] > 0 /\ f.v.p[s] = 0)
            /\ UNCHANGED <<state, nobss>>

Owned(v) == <<v.p["code"], v.p["data"], v.p["rodata"], v.p["bss"], v.p["stack"], v.pgtb, v.ept>>

\* What load_elf frees of the old program.
Replaced(v) == Owned(v)

\* The new segments, then the end of the old ones.  A program without bss keeps the
\* address and size of the old one.  ok: everything freed was allocated.
LoadSegment(B, v, image, s) ==
  IF s = "bss" /\ image["bss"] = 0 THEN [B |-> B, p |-> v.p["bss"]]
  ELSE LET p == alloc_mem_pages(B, image[s]) IN [B |-> Allocated(B, p, image[s]), p |-> p]
load_elf(v, image) ==
  UNION {{[B |-> freed.B, ok |-> freed.ok,
           v |-> [v EXCEPT !.p = g.p,
                           !.n = [s \in Segments |-> IF s = "bss" /\ image["bss"] = 0 THEN v.n["bss"] ELSE image[s]],
                           !.span = g.p["stack"] + image["stack"] - g.p["code"],
                           !.below = image["code"] + image["data"] + image["rodata"] + image["bss"]]]
          : freed \in {free_mem_pages(g.B, Replaced(v))}}
         : g \in {InTurn(block, LAMBDA B, s : LoadSegment(B, v, image, s))}}

\* local_exec once FS has found the file: load_elf, ept_pmap and the arguments on
\* the stack.
local_exec(c, image) ==
  /\ vm[c].st = "live" /\ c # InitCpu
  /\ \E loaded \in load_elf(vm[c], image) : \E t \in {NewPages(loaded.B, 2)} :
     \E new \in {[loaded.v EXCEPT !.pgtb = t.ps[1], !.ept = t.ps[2]]} :
       IF ~loaded.ok THEN Stop("free")
       ELSE IF 0 \in Range(t.ps) THEN Stop("no memory")
       ELSE /\ block' = t.B /\ vm' = [vm EXCEPT ![c] = new]
            /\ map' = [map EXCEPT ![c] = EptOf(c, new, chans[c])]
            /\ stale' = [stale EXCEPT ![c] = {}]
            /\ oom' = (oom \/ \E s \in Segments : new.n[s] > 0 /\ new.p[s] = 0)
            /\ nobss' = (nobss \/ image["bss"] = 0)
            /\ state' = IF virt2phys_ok(new, image["stack"]) THEN "ok" ELSE "virt2phys"
            /\ UNCHANGED chans

\* local_exit: the segments, the tables, every channel (which stays mapped in the
\* driver), the descriptors.  The CPU is free once the parent has waited.
local_exit(c) ==
  LET v == vm[c]
      freed == free_mem_pages(block, Owned(v) \o SetToSeq(chans[c]) \o <<v.fds, v.channels>>)
  IN /\ v.st = "live" /\ c # InitCpu /\ ~is_driver(c)
     /\ IF ~freed.ok THEN Stop("free")
        ELSE /\ block' = freed.B
             /\ vm' = [vm EXCEPT ![c] = [NoVm EXCEPT !.st = "dead", !.parent = v.parent]]
             /\ map' = [map EXCEPT ![c] = {}]
             /\ chans' = [chans EXCEPT ![c] = {}]
             /\ stale' = [d \in CPUs |-> IF d = c THEN {} ELSE IF is_driver(d) THEN stale[d] \union chans[c] ELSE stale[d]]
             /\ UNCHANGED <<state, oom, nobss>>

\* local_waitpid, or the exit of a child whose parent waits.
Reaped(c) ==
  /\ vm[c].st = "dead"
  /\ vm' = [vm EXCEPT ![c] = NoVm]
  /\ UNCHANGED <<block, map, chans, state, stale, oom, nobss>>

\* local_channel: for a program that opens a device.
local_channel(c, d) ==
  LET p == alloc_mem_pages(block, 1) IN
  /\ vm[c].st = "live" /\ ~is_driver(c) /\ vm[c].fds # 0 /\ Cardinality(chans[c]) < MaxChannels
  /\ is_driver(d) /\ vm[d].st = "live"
  /\ IF p = 0 THEN Stop("no memory")
     ELSE /\ block' = Allocated(block, p, 1)
          /\ map' = [e \in CPUs |-> IF e \in {c, d} THEN map[e] \union {[p |-> p, w |-> TRUE]} ELSE map[e]]
          /\ chans' = [chans EXCEPT ![c] = @ \union {p}]
          /\ stale' = [e \in CPUs |-> IF e \in {c, d} THEN stale[e] \ {p} ELSE stale[e]]
          /\ UNCHANGED <<vm, state, oom, nobss>>

\* local_channel_close: the page is freed, and stays mapped at both ends.
local_channel_close(c, q) ==
  LET freed == free_mem_pages(block, <<q>>) IN
  /\ vm[c].st = "live" /\ q \in chans[c]
  /\ IF ~freed.ok THEN Stop("free")
     ELSE /\ block' = freed.B
          /\ chans' = [chans EXCEPT ![c] = @ \ {q}]
          /\ stale' = [d \in CPUs |-> IF d = c \/ is_driver(d) THEN stale[d] \union {q} ELSE stale[d]]
          /\ UNCHANGED <<vm, map, state, oom, nobss>>

Next ==
  /\ state = "ok" /\ calls < MaxCalls /\ calls' = calls + 1
  /\ \E c \in CPUs :
       \/ \E rsp \in 0 .. vm[c].n["stack"] - 1 : local_fork(c, rsp)
       \/ \E image \in Images : local_exec(c, image)
       \/ local_exit(c) \/ Reaped(c)
       \/ \E d \in Drivers : local_channel(c, d)
       \/ \E q \in chans[c] : local_channel_close(c, q)

Spec == Init /\ [][Next]_vars
-----------------------------------------------------------------------------
Live == {c \in CPUs : vm[c].st = "live"}
Holders(p) ==
  Cardinality({<<c, k>> \in Live \X (1 .. 7) : Owned(vm[c])[k] = p})
  + Cardinality({c \in Live : vm[c].fds = p}) + Cardinality({c \in Live : vm[c].channels = p})
  + Cardinality({c \in Live : p \in chans[c]})

\* Reference counts are exact: every block of PM's memory is held by as many VMs as
\* it counts, through fork, exec and exit in any order.  So nothing leaks and
\* nothing is freed while a VM has it, unless a program without bss was executed.
CountsExactUnlessNoBss ==
  (state = "ok" /\ ~nobss) => \A p \in 1 .. Pages :
    block[p].ref = Holders(p)

\* What one VM can write no other VM maps, its message pages and all of its own memory
\* included, but for a channel between the two and for the pages ept_pmap gives to
\* every VM ("sacrifice security stuff", it says of the card); unless a closed channel
\* is still mapped, an allocation failed unchecked, or the program had no bss.
Channel(c, d, q) == (is_driver(d) /\ q \in chans[c]) \/ (is_driver(c) /\ q \in chans[d])
IsolatedUnless ==
  (~oom /\ ~nobss) => \A c, d \in Live : c # d => (\A m \in map[c] :
    (m.w /\ m.p \notin stale[c] /\ m.p \notin stale[d] /\ \E e \in map[d] : e.p = m.p)
      => m.p \in Shared \/ Channel(c, d, m.p))

\* PM frees only what is allocated (unless a program had no bss), and finds the
\* stack of every new program unless a small segment was allocated below its code:
\* vm_end_vaddr assumes that the segments follow each other in memory.
PanicsOnlyUnless ==
  /\ state = "free" => nobss
  /\ state = "virt2phys" =>
       oom \/ nobss \/ \E c \in Live : \E s \in Segments : vm[c].p[s] \in 1 .. vm[c].p["code"] - 1
=============================================================================
