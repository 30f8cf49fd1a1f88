-------------------------------- MODULE Pmap --------------------------------
(***************************************************************************)
(* Page tables built by the process manager (vms/pm/pmap.c) for a VM: its  *)
(* own tables, which map every address to itself, and the extended ones    *)
(* (EPT), which give it its memory.  Both are trees of four levels in      *)
(* physical pages.  Addresses are page numbers, a table has Fan entries    *)
(* instead of 512, and the pages of a size are 1, Fan and Fan^2 long.      *)
(* An entry holds a page and whether that page is memory or the next       *)
(* table; its protection and cache bits are left out.                      *)
(***************************************************************************)
EXTENDS Naturals, Sequences, FiniteSets, FiniteSetsExt, SequencesExt

CONSTANTS
  VMs,        \* CPUs that may hold a program
  Fan,        \* PAGE_TABLE_ENTRIES
  Low,        \* entries of the pdpe that the walks visit: 4, of 1 GB each
  Pools,      \* what memory PM may be given: sets of pages
  INFO,       \* page of cpu_info and the message pages, below that memory
  Program,    \* page at which programs are linked (0x40000000)
  StackPages, \* size of the stack; the code has one page
  MaxChannels \* bound: channels opened at a time

VARIABLES
  free,       \* pages of PM's memory that are not allocated
  tbl,        \* the tables: entry of every page used as one
  vm_page_tables, vm_ept,   \* root of the two trees of a VM, or 0
  segs,       \* pages of a VM's segments, in the order of their addresses
  channels,   \* channel pages of a VM
  state,      \* "ok", or why PM stopped
  memory,     \* the pages PM was given
  has_1GB_page

vars == <<free, tbl, vm_page_tables, vm_ept, segs, channels, state, memory, has_1GB_page>>

_4KB == 1
_2MB == Fan
_1GB == Fan * Fan
_4GB == Low * _1GB               \* end of what the walks visit
Index == 0 .. Fan - 1
Shift == <<1, Fan, Fan ^ 2, Fan ^ 3>>
Idx(v, level) == (v \div Shift[level + 1]) % Fan
NoEntry == [page |-> 0, leaf |-> FALSE]
Cleared == [i \in Index |-> NoEntry]

Init ==
  /\ memory \in Pools /\ free = memory /\ has_1GB_page \in BOOLEAN
  /\ tbl = [p \in memory |-> Cleared]
  /\ vm_page_tables = [v \in VMs |-> 0] /\ vm_ept = [v \in VMs |-> 0]
  /\ segs = [v \in VMs |-> <<>>] /\ channels = [v \in VMs |-> {}]
  /\ state = "ok"
-----------------------------------------------------------------------------
(***************************************************************************)
(* The heap of PM is a record s = [free, tbl, state]; what follows a panic *)
(* changes nothing.                                                        *)
(***************************************************************************)
panic(s) == [s EXCEPT !.state = "panic"]

\* alloc_page_table: one page, cleared; the lowest one, as in PageAllocator.
alloc_page_table(s) ==
  IF s.free = {} THEN [heap |-> s, page |-> 0]
  ELSE LET p == Min(s.free) IN [heap |-> [s EXCEPT !.free = @ \ {p}, !.tbl[p] = Cleared], page |-> p]

\* The table that entry i of table t points to, allocated if there is none.
Under(s, t, i) ==
  LET e == s.tbl[t][i] new == alloc_page_table(s) IN
  IF e # NoEntry THEN [heap |-> IF e.leaf THEN [s EXCEPT !.state = "data overwritten"] ELSE s, page |-> e.page]
  ELSE IF new.page = 0 THEN [heap |-> panic(s), page |-> 0]
  ELSE [heap |-> [new.heap EXCEPT !.tbl[t][i] = [page |-> new.page, leaf |-> FALSE]], page |-> new.page]

\* One turn of the loop: the tables on the way down, and the entry.  level is 0,
\* 1 or 2 for a page of 4 KB, 2 MB or 1 GB.
MapPage(s, root, v, p, level) ==
  LET down[l \in level .. 3] ==
        IF l = 3 THEN [heap |-> s, page |-> root]
        ELSE LET up == down[l + 1] IN
             IF up.heap.state # "ok" THEN up ELSE Under(up.heap, up.page, Idx(v, l + 1))
      t == down[level]
  IN IF t.heap.state # "ok" THEN t.heap
     ELSE [t.heap EXCEPT !.tbl[t.page][Idx(v, level)] = [page |-> p, leaf |-> TRUE]]

LevelOf(size) == IF size = _4KB THEN 0 ELSE IF size = _2MB THEN 1 ELSE 2

\* map_memory with MAP_UPDATE.
map_update(s, root, start, end, paddr, size) ==
  LET pages == (end - start) \div size + (IF (end - start) % size > 0 THEN 1 ELSE 0)
      upto[n \in 0 .. pages] ==
        IF n = 0 THEN s
        ELSE LET before == upto[n - 1] IN
             IF before.state # "ok" THEN before
             ELSE MapPage(before, root, start + (n - 1) * size, paddr + (n - 1) * size, LevelOf(size))
  IN IF s.state # "ok" THEN s
     ELSE IF start >= end \/ paddr % size # 0 THEN panic(s)
     ELSE upto[pages]

\* map_memory with MAP_NEW: returns the new root as well.
map_new(s, start, end, paddr, size) ==
  LET new == alloc_page_table(s) IN
  IF s.state # "ok" \/ start >= end \/ paddr % size # 0 \/ new.page = 0
  THEN [heap |-> panic(s), root |-> 0]
  ELSE [heap |-> map_update(new.heap, new.page, start, end, paddr, size), root |-> new.page]

\* ept_map_memory with MAP_UPDATE: tables without an entry at 0 are refused.
ept_map_memory(s, root, start, end, paddr) ==
  IF s.state = "ok" /\ s.tbl[root][0] = NoEntry THEN panic(s)
  ELSE map_update(s, root, start, end, paddr, _4KB)

\* ept_map_memory of a set of single pages, each mapped to itself.
MapSelf(s, root, pages) ==
  LET upto[S \in SUBSET pages] ==
        IF S = {} THEN s ELSE LET p == Max(S) IN ept_map_memory(upto[S \ {p}], root, p, p + 1, p)
  IN upto[pages]
-----------------------------------------------------------------------------
\* The tables the walks of ept_map_page_tables and free_page_tables find: only
\* entry 0 of the root and the first Low entries of the table under it.
Tables(t) == {i \in Index : t[i] # NoEntry /\ ~t[i].leaf}
WalkedPde(s, root) ==
  LET pdpe == s.tbl[root][0].page IN
  IF pdpe = 0 THEN {} ELSE {s.tbl[pdpe][i].page : i \in Tables(s.tbl[pdpe]) \cap (0 .. Low - 1)}
WalkedPte(s, root) == UNION {{s.tbl[pde][i].page : i \in Tables(s.tbl[pde])} : pde \in WalkedPde(s, root)}
Walked(s, root) == {root, s.tbl[root][0].page} \union WalkedPde(s, root) \union WalkedPte(s, root)

\* Mutant: the tables of the last level are not mapped.
ept_map_upper_tables(s, ept, root) ==
  MapSelf(s, ept, ({root, s.tbl[root][0].page}) \ {0})

ept_map_page_tables(s, ept, root) ==
  IF s.state # "ok" THEN s ELSE MapSelf(s, ept, Walked(s, root) \ {0})

\* free_mem_pages panics on an address that is not PM's, and on a free page.
free_page_tables(s, root) ==
  LET pages == Walked(s, root) IN
  IF s.state # "ok" THEN s
  ELSE IF ~pages \subseteq memory \ s.free THEN panic(s)
  ELSE [s EXCEPT !.free = @ \union pages]
-----------------------------------------------------------------------------
Heap == [free |-> free, tbl |-> tbl, state |-> state]
\* Pages that are not tables are cleared, so that old contents do not count.
Store(s, tables) ==
  /\ free' = s.free /\ state' = s.state
  /\ tbl' = [p \in memory |-> IF p \in tables THEN s.tbl[p] ELSE Cleared]

\* The trees as the processor walks them: all tables under a root, and where an
\* address leads (Fan^4 if nowhere).
Entries(T, p) == IF p = 0 THEN {} ELSE {T[p][i].page : i \in Tables(T[p])}
AllTables(T, root) ==
  IF root = 0 THEN {}
  ELSE LET pdpe == Entries(T, root)
           pde == UNION {Entries(T, p) : p \in pdpe}
           pte == UNION {Entries(T, p) : p \in pde}
       IN {root} \union pdpe \union pde \union pte
Translate(T, root, v) ==
  LET walk[l \in 0 .. 3] ==
        IF l = 3 THEN T[root][Idx(v, 3)]
        ELSE LET up == walk[l + 1] IN
             IF up = NoEntry \/ up.leaf THEN up ELSE T[up.page][Idx(v, l)]
      e == walk[0]
      size == CHOOSE k \in 0 .. 2 : walk[k].leaf /\ (k = 2 \/ ~walk[k + 1].leaf)
  IN IF ~e.leaf THEN Fan ^ 4 ELSE e.page + (v % Shift[size + 1])

\* Address of the i-th page of the segments.
SegStart(i) == Program + i - 1

\* ept_pmap of a VM with the given segment pages, as the list of its calls: the tables
\* of the VM with pages of 2 MB, or of 1 GB if there are any, in three pieces (the second
\* starts at 2 MB, where no page of 1 GB can), and the EPT: the VGA page, the I/O APIC,
\* the tables, cpu_info and message pages, the segments, the channels, the network card.
VmPageSize == IF has_1GB_page THEN _1GB ELSE _2MB
Call(op, start, end, paddr) == [op |-> op, start |-> start, end |-> end, paddr |-> paddr]
Calls(pages, cnls) ==
  <<Call("new vm", 0, _2MB, 0), Call("vm", _2MB, _4GB - _2MB, _2MB), Call("vm", _4GB - _2MB, _4GB, _4GB - _2MB),
    Call("new ept", 1, 2, 1), Call("ept", _4GB - _2MB, _4GB, _4GB - _2MB), Call("tables", 0, 0, 0),
    Call("ept", INFO, INFO + 1, INFO)>>
  \o [n \in 1 .. Len(pages) |-> Call("ept", SegStart(n), SegStart(n) + 1, pages[n])]
  \o [n \in 1 .. Len(cnls) |-> Call("ept", cnls[n], cnls[n] + 1, cnls[n])]
  \o <<Call("ept", _4GB - _2MB - 1, _4GB - _2MB, _4GB - _2MB - 1)>>

\* b has the heap and the roots of the two trees.
Make(b, c) ==
  CASE c.op = "new vm" -> LET new == map_new(b.heap, c.start, c.end, c.paddr, VmPageSize)
                          IN [b EXCEPT !.heap = new.heap, !.vm = new.root]
    [] c.op = "new ept" -> LET new == map_new(b.heap, c.start, c.end, c.paddr, _4KB)
                           IN [b EXCEPT !.heap = new.heap, !.ept = new.root]
    [] c.op = "vm" -> [b EXCEPT !.heap = map_update(@, b.vm, c.start, c.end, c.paddr, VmPageSize)]
    [] c.op = "ept" -> [b EXCEPT !.heap = ept_map_memory(@, b.ept, c.start, c.end, c.paddr)]
    [] c.op = "tables" -> [b EXCEPT !.heap = ept_map_page_tables(@, b.ept, b.vm)]

ept_pmap(s, pages, cnls) ==
  FoldLeft(Make, [heap |-> s, vm |-> 0, ept |-> 0], Calls(pages, SetToSortSeq(cnls, <)))

-----------------------------------------------------------------------------
\* The n lowest free pages of s, in order.
Lowest(s, n) ==
  LET after[k \in 0 .. n] == IF k = 0 THEN s.free ELSE after[k - 1] \ {Min(after[k - 1])}
  IN [k \in 1 .. n |-> Min(after[k - 1])]
Pages(seq) == {seq[k] : k \in DOMAIN seq}
Kept(T, v) == UNION {AllTables(T, vm_page_tables[w]) \union AllTables(T, vm_ept[w]) : w \in VMs \ {v}}

FreeBoth(s, v) == free_page_tables(free_page_tables(s, vm_page_tables[v]), vm_ept[v])

\* A VM gets segments and tables: what local_fork and load_elf do before and after
\* ept_pmap.  With exec the memory of the old program is freed in between.
Build(v) ==
  /\ Cardinality(free) >= 1 + StackPages
  /\ \E new \in {Lowest(Heap, 1 + StackPages)} :
     \E s \in {[Heap EXCEPT !.free = (@ \ Pages(new)) \union Pages(segs[v])]} :
     \E b \in {ept_pmap(IF vm_ept[v] = 0 THEN s ELSE FreeBoth(s, v), new, channels[v])} :
       /\ Store(b.heap, Kept(b.heap.tbl, v) \union AllTables(b.heap.tbl, b.vm) \union AllTables(b.heap.tbl, b.ept))
       /\ vm_page_tables' = [vm_page_tables EXCEPT ![v] = b.vm]
       /\ vm_ept' = [vm_ept EXCEPT ![v] = b.ept]
       /\ segs' = [segs EXCEPT ![v] = new]
       /\ UNCHANGED <<channels, memory, has_1GB_page>>

local_fork(v) == vm_ept[v] = 0 /\ Build(v)
local_exec(v) == vm_ept[v] # 0 /\ Build(v)

\* local_channel, the end of the program.
local_channel(v) ==
  LET new == alloc_page_table(Heap)
      s == IF new.page = 0 THEN panic(Heap)
           ELSE ept_map_memory(new.heap, vm_ept[v], new.page, new.page + 1, new.page)
  IN /\ vm_ept[v] # 0 /\ Cardinality(channels[v]) < MaxChannels
     /\ Store(s, Kept(s.tbl, v) \union AllTables(s.tbl, vm_page_tables[v]) \union AllTables(s.tbl, vm_ept[v]))
     /\ channels' = [channels EXCEPT ![v] = @ \union ({new.page} \ {0})]
     /\ UNCHANGED <<vm_page_tables, vm_ept, segs, memory, has_1GB_page>>

\* local_channel_close: the page is freed and stays mapped.
local_channel_close(v, c) ==
  /\ c \in channels[v]
  /\ free' = free \union {c}
  /\ channels' = [channels EXCEPT ![v] = @ \ {c}]
  /\ UNCHANGED <<tbl, vm_page_tables, vm_ept, segs, state, memory, has_1GB_page>>

local_exit(v) ==
  LET s1 == [Heap EXCEPT !.free = @ \union Pages(segs[v])]
      s2 == FreeBoth(s1, v)
      s3 == IF s2.state = "ok" THEN [s2 EXCEPT !.free = @ \union channels[v]] ELSE s2
  IN /\ vm_ept[v] # 0
     /\ Store(s3, Kept(tbl, v))
     /\ vm_page_tables' = [vm_page_tables EXCEPT ![v] = 0]
     /\ vm_ept' = [vm_ept EXCEPT ![v] = 0]
     /\ segs' = [segs EXCEPT ![v] = <<>>] /\ channels' = [channels EXCEPT ![v] = {}]
     /\ UNCHANGED <<memory, has_1GB_page>>

Next ==
  /\ state = "ok"
  /\ \E v \in VMs :
       \/ local_fork(v) \/ local_exec(v) \/ local_exit(v) \/ local_channel(v)
       \/ \E c \in channels[v] : local_channel_close(v, c)

Spec == Init /\ [][Next]_vars
-----------------------------------------------------------------------------
\* Does memory reach beyond what the tables of a VM cover?
High == \E p \in memory : p >= _4GB
Used(v) == AllTables(tbl, vm_page_tables[v]) \union AllTables(tbl, vm_ept[v]) \union Pages(segs[v]) \union channels[v]

\* Every page of PM's memory has one use: it is free, or a table, segment or channel
\* page of one VM, and nothing is lost when a VM is replaced or ends, unless memory
\* reaches beyond the 4 GB that free_page_tables walks (tables for pages above it
\* are never freed).
OneUseUnlessHigh ==
  state = "ok" =>
    /\ \A v \in VMs : Used(v) \cap free = {}
    /\ \A v, w \in VMs : v # w => Used(v) \cap Used(w) = {}
    /\ \A v \in VMs :
         /\ AllTables(tbl, vm_page_tables[v]) \cap AllTables(tbl, vm_ept[v]) = {}
         /\ (Pages(segs[v]) \union channels[v]) \cap
              (AllTables(tbl, vm_page_tables[v]) \union AllTables(tbl, vm_ept[v])) = {}
         /\ Pages(segs[v]) \cap channels[v] = {}
    /\ ~High => free \union UNION {Used(v) : v \in VMs} = memory

\* A program's address leads where it should through both trees: its segments to
\* their pages, its channels to themselves, and its own tables, which the processor
\* reads through the EPT, to themselves, unless PM's memory reaches the addresses
\* programs are linked at: there a segment and a table or channel hide each other.
SegAddresses == {SegStart(k) : k \in 1 .. 1 + StackPages}
SeesItsMemoryUnlessCovered ==
  state = "ok" => \A v \in {w \in VMs : vm_ept[w] # 0} :
    LET at(p) == Translate(tbl, vm_ept[v], Translate(tbl, vm_page_tables[v], p)) IN
    /\ \A k \in DOMAIN segs[v] : SegStart(k) \notin memory => at(SegStart(k)) = segs[v][k]
    /\ \A p \in channels[v] \ SegAddresses : p < _4GB => at(p) = p
    /\ \A p \in AllTables(tbl, vm_page_tables[v]) \ SegAddresses : Translate(tbl, vm_ept[v], p) = p

\* PM never takes a page of a program for a table, and stops only for lack of memory,
\* unless the processor has pages of 1 GB: then no program is ever given tables.
StopsOnlyWithoutMemoryUnless1GB ==
  /\ state # "data overwritten"
  /\ state = "panic" => free = {} \/ has_1GB_page
  /\ state = "ok" /\ has_1GB_page => \A v \in VMs : vm_ept[v] = 0
=============================================================================
