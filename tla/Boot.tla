-------------------------------- MODULE Boot --------------------------------
(* The boot loader: boot/stage1/loader.c and boot/stage2.  The bootstrap       *)
(* processor (BSP) counts the CPUs, takes memory from an allocator that only   *)
(* moves a pointer, loads the servers to the addresses they are linked at,     *)
(* INIT and one monitor (VMM) per CPU, tells PM where free memory begins, and  *)
(* starts the application processors (APs) one by one through ONE shared word. *)
(* Addresses and sizes are in pages of 4 KB; MB2 pages stand for 2 MB.         *)
EXTENDS Integers, FiniteSets, Sequences, TLAPS

CONSTANTS MB2,           \* 2 MB = VM_MAX_SIZE = VMM_MAX_SIZE
          MIN_CPUS, MAX_CPUS,
          Machines,      \* [size, procs, present]: memory, MP_PROC entries, real CPUs
          Images,        \* [modules, stage2, pm, fs, init, bss, vmm]: end of the modules; sizes without stacks
          VM_STACK_SIZE, \* of a server and of a monitor
          Tables         \* tables that one address space takes

VARIABLES machine, image,
          bsp,           \* where the BSP is, and the CPU it works for
          mem,           \* first_free_addr and what was handed out
          writes,        \* what the loader wrote or gave away as a stack
          ncpus,
          last_used_addr,\* what set_vm_args tells PM; 0: nothing yet
          word,          \* the cpu_info pointer at CPU_INFO_PTR_ADDR
          ap,            \* each AP: what it does, whose cr3 and whose cpu_info it took
          ready

bootVars == <<machine, image, bsp, mem, writes, ncpus, last_used_addr, word, ap, ready>>

PM == 0
FS == 1
INITVM == 2
PmAddr == 6 * MB2        \* pm.ld, fs.ld
FsAddr == 7 * MB2
Cpus == 0..MAX_CPUS
Nobody == MAX_CPUS + 1   \* no CPU

\* Who owns a block: a name, a CPU and a number.
Of(name) == <<name, 0, 0>>

RoundUp(x, bound) == ((x + bound - 1) \div bound) * bound

\* The allocator.  A failed call has moved the pointer to the alignment all the
\* same; it returns 0, and .failed remembers that it happened.
malloc_align(mm, by, n, alignment) ==
    LET at == RoundUp(mm.free, alignment)
    IN  IF alignment >= machine.size
        THEN [mm EXCEPT !.got = 0, !.failed = TRUE]
        ELSE IF at + n > machine.size
        THEN [mm EXCEPT !.free = at, !.got = 0, !.failed = TRUE]
        ELSE [mm EXCEPT !.free = at + n, !.got = at,
                        !.regions = @ \cup {[by |-> by, at |-> at, n |-> n]}]

calloc_align(mm, by, n, alignment) == malloc_align(mm, by, n, alignment)

\* Tables of one page each, as many as there is room for; the first that is not to
\* be had is a panic.
AllocTables(mm, by, n) ==
    LET fit == IF mm.free + n <= machine.size THEN n
               ELSE IF mm.free <= machine.size THEN machine.size - mm.free ELSE 0
    IN  [mm EXCEPT !.free = @ + fit, !.got = IF fit = n THEN mm.free + n - 1 ELSE 0,
                   !.failed = @ \/ fit # n,
                   !.regions = @ \cup {[by |-> <<by[1], by[2], k>>, at |-> mm.free + k - 1, n |-> 1] : k \in 1..fit}]

\* What an address space takes for its page tables, and for its EPT.
map_memory(mm, name, cpu) == AllocTables(mm, <<name, cpu, 0>>, Tables)
ept_map_memory(mm, name, cpu) == IF mm.got = 0 THEN mm ELSE AllocTables(mm, <<name, cpu, 0>>, Tables)

Wrote(by, at, n) == [by |-> by, at |-> at, n |-> n]

StageEnd == MB2 + image.stage2

BootInit ==
    /\ machine \in Machines /\ image \in Images
    /\ bsp = [at |-> "loader", cpu |-> 0]
    /\ mem = [free |-> 0, got |-> 0, regions |-> {}, failed |-> FALSE]
    /\ writes = {} /\ ncpus = 0 /\ last_used_addr = 0
    /\ word = Nobody
    /\ ap = [c \in Cpus |-> [at |-> "halted", cr3 |-> Nobody, info |-> Nobody]]
    /\ ready = [c \in Cpus |-> FALSE]

Goto(place) == bsp' = [bsp EXCEPT !.at = place]
Stop == Goto("panic")
KeepAps == UNCHANGED <<word, ap, ready>>

\* Stage 2 goes to 2 MB, above every module.
load_stage2 == Wrote(Of("stage2"), MB2, image.stage2)

\* A module that reaches 2 MB stops the machine.
boot_loader ==
    /\ bsp.at = "loader"
    /\ IF image.modules > MB2 THEN Stop /\ UNCHANGED writes
       ELSE Goto("stage2") /\ writes' = {load_stage2}
    /\ UNCHANGED <<machine, image, mem, ncpus, last_used_addr>> /\ KeepAps

\* Memory begins where stage 2 ends.  boot_stage2_main maps the device registers,
\* which may take a table.
memory_init ==
    /\ bsp.at = "stage2"
    /\ LET mm == calloc_align([mem EXCEPT !.free = StageEnd], Of("stage2_map"), 1, 1)
       IN  mem' = mm /\ IF mm.got = 0 THEN Stop ELSE Goto("mp")
    /\ UNCHANGED writes
    /\ UNCHANGED <<machine, image, ncpus, last_used_addr>> /\ KeepAps

\* Every MP_PROC entry adds as many CPUs as a package can have.  add_cpu refuses
\* the CPU after the one it should refuse.  The result of calloc_align is used unseen.
add_cpu(n) == [cpus |-> IF n > MAX_CPUS + 1 THEN MAX_CPUS + 1 ELSE n, refused |-> n > MAX_CPUS + 1]

Total(procs) == LET Upto[k \in 0..Len(procs)] == IF k = 0 THEN 0 ELSE Upto[k-1] + procs[k]
                IN  Upto[Len(procs)]

mp_init ==
    /\ bsp.at = "mp"
    /\ LET added == add_cpu(Total(machine.procs))
       IN  /\ mem' = calloc_align(mem, Of("pool"), MB2, MB2)
           /\ ncpus' = added.cpus
           /\ IF added.refused \/ added.cpus < MIN_CPUS THEN Stop ELSE Goto("areas")
    /\ UNCHANGED <<machine, image, writes, last_used_addr>> /\ KeepAps

\* boot_stage2_main: inboxes, outboxes and ready flags, a page each per CPU; one bitmap.
msg_areas ==
    /\ bsp.at = "areas"
    /\ mem' = LET m1 == calloc_align(mem, Of("msg_input"), ncpus, MB2)
                  m2 == calloc_align(m1, Of("msg_output"), ncpus, MB2)
                  m3 == calloc_align(m2, Of("msg_ready"), ncpus, MB2)
              IN  calloc_align(m3, Of("bitmap"), 1, 1)
    /\ bsp' = [at |-> "server", cpu |-> PM]
    /\ UNCHANGED <<machine, image, writes, ncpus, last_used_addr>> /\ KeepAps

\* A server must get exactly the address it is linked at.  Its sections are copied
\* before the size is looked at, and the size that is looked at has no stack.
load_server_vms ==
    /\ bsp.at = "server"
    /\ LET name == Of(IF bsp.cpu = PM THEN "pm" ELSE "fs")
           size == IF bsp.cpu = PM THEN image.pm ELSE image.fs
           addr == IF bsp.cpu = PM THEN PmAddr ELSE FsAddr
           mm == malloc_align(mem, name, MB2, MB2)
       IN  /\ mem' = mm
           /\ IF mm.got = 0 \/ mm.got # addr
              THEN Stop /\ UNCHANGED writes
              ELSE /\ writes' = writes \cup {Wrote(name, addr, size + VM_STACK_SIZE)}
                   /\ IF size > MB2 THEN Stop
                      ELSE bsp' = IF bsp.cpu = PM THEN [at |-> "server", cpu |-> FS]
                                  ELSE [at |-> "other", cpu |-> INITVM]
    /\ UNCHANGED <<machine, image, ncpus, last_used_addr>> /\ KeepAps

\* INIT: its sections, 2 MB for the bss whatever its size, 2 MB of stack; no result is looked at.
load_other_vms ==
    /\ bsp.at = "other"
    /\ LET m1 == malloc_align(mem, Of("init"), image.init, 1)
           m2 == IF image.bss = 0 THEN m1 ELSE malloc_align(m1, Of("init_bss"), MB2, 1)
           m3 == malloc_align(m2, Of("init_stack"), MB2, 1)
       IN  /\ mem' = m3
           /\ writes' = writes \cup {Wrote(Of("init"), m1.got, image.init), Wrote(Of("init_stack"), m3.got, MB2)}
                               \cup IF image.bss = 0 THEN {} ELSE {Wrote(Of("init_bss"), m2.got, image.bss)}
    /\ bsp' = [at |-> "ept", cpu |-> PM]
    /\ UNCHANGED <<machine, image, ncpus, last_used_addr>> /\ KeepAps

\* load_all_vms: page tables and EPT of PM, FS and INIT.
ept_map_memory_vms ==
    /\ bsp.at = "ept"
    /\ LET mm == ept_map_memory(map_memory(mem, "tables", bsp.cpu), "ept", bsp.cpu)
       IN  /\ mem' = mm
           /\ IF mm.got = 0 THEN Stop
              ELSE bsp' = IF bsp.cpu = INITVM THEN [at |-> "vmm", cpu |-> 0]
                          ELSE [bsp EXCEPT !.cpu = @ + 1]
    /\ UNCHANGED <<machine, image, writes, ncpus, last_used_addr>> /\ KeepAps

\* The first loop of load_all_vmms: the monitor's memory, then VMCS and VMXON pages unseen.
load_all_vmms ==
    /\ bsp.at = "vmm"
    /\ LET vmm == malloc_align(mem, <<"vmm", bsp.cpu, 0>>, MB2, MB2)
           vmcs == calloc_align(vmm, <<"vmcs", bsp.cpu, 0>>, 1, 1)
           vmxon == calloc_align(vmcs, <<"vmxon", bsp.cpu, 0>>, 1, 1)
       IN  IF vmm.got = 0 THEN mem' = vmm /\ Stop /\ UNCHANGED writes
           ELSE /\ mem' = vmxon
                /\ writes' = writes \cup {Wrote(<<"vmm", bsp.cpu, 0>>, vmm.got, image.vmm + VM_STACK_SIZE)}
                /\ IF image.vmm + VM_STACK_SIZE > MB2 THEN Stop
                   ELSE bsp' = IF bsp.cpu = ncpus - 1 THEN [at |-> "map", cpu |-> 0]
                               ELSE [bsp EXCEPT !.cpu = @ + 1]
    /\ UNCHANGED <<machine, image, ncpus, last_used_addr>> /\ KeepAps

\* Its second loop: the page tables of each monitor.
map_all_vmms ==
    /\ bsp.at = "map"
    /\ LET mm == map_memory(mem, "vmm_map", bsp.cpu)
       IN  /\ mem' = mm
           /\ IF mm.got = 0 THEN Stop
              ELSE bsp' = IF bsp.cpu = ncpus - 1 THEN [at |-> "args", cpu |-> 0]
                          ELSE [bsp EXCEPT !.cpu = @ + 1]
    /\ UNCHANGED <<machine, image, writes, ncpus, last_used_addr>> /\ KeepAps

set_vm_args ==
    /\ bsp.at = "args"
    /\ last_used_addr' = mem.free
    /\ bsp' = [at |-> "start", cpu |-> 1]
    /\ UNCHANGED <<machine, image, mem, writes, ncpus>> /\ KeepAps

KeepMemory == UNCHANGED <<machine, image, mem, writes, ncpus, last_used_addr>>

\* lapic_startaps: the word, then INIT; an AP that exists now waits for STARTUP.
lapic_startaps ==
    /\ bsp.at = "start" /\ bsp.cpu < ncpus
    /\ word' = bsp.cpu
    /\ ap' = IF bsp.cpu \in machine.present THEN [ap EXCEPT ![bsp.cpu].at = "sipi"] ELSE ap
    /\ Goto("first") /\ UNCHANGED ready /\ KeepMemory

\* Two STARTUP messages; the first may be missed, the second finds the AP running or waiting.
lapic_startup ==
    /\ bsp.at \in {"first", "second"}
    /\ \E lost \in {FALSE, bsp.at = "first"} :
          ap' = IF ~lost /\ ap[bsp.cpu].at = "sipi" THEN [ap EXCEPT ![bsp.cpu].at = "cr3"] ELSE ap
    /\ Goto(IF bsp.at = "first" THEN "second" ELSE "wait")
    /\ UNCHANGED <<word, ready>> /\ KeepMemory

\* mp_bootothers without its loop "while (!cpu->ready)".
wait_ready_not ==
    /\ bsp.at = "wait"
    /\ bsp' = [at |-> "start", cpu |-> bsp.cpu + 1]
    /\ KeepAps /\ KeepMemory

wait_ready ==
    /\ bsp.at = "wait" /\ ready[bsp.cpu]
    /\ bsp' = [at |-> "start", cpu |-> bsp.cpu + 1]
    /\ KeepAps /\ KeepMemory

\* The end of mp_bootothers: the BSP becomes the monitor of PM.
enter_pm ==
    /\ bsp.at = "start" /\ bsp.cpu = ncpus
    /\ word' = PM /\ bsp' = [at |-> "pm", cpu |-> PM]
    /\ ready' = [ready EXCEPT ![PM] = TRUE]
    /\ UNCHANGED ap /\ KeepMemory

\* boot_aps.S reads the word twice: for the page tables, and for stack and rdi.
ap_load_cr3(c) ==
    /\ ap[c].at = "cr3"
    /\ ap' = [ap EXCEPT ![c].at = "stack", ![c].cr3 = word]
    /\ UNCHANGED <<bsp, word, ready>> /\ KeepMemory

ap_load_stack(c) ==
    /\ ap[c].at = "stack"
    /\ ap' = [ap EXCEPT ![c].at = "vmm", ![c].info = word]
    /\ UNCHANGED <<bsp, word, ready>> /\ KeepMemory

\* vmm_main of the AP: ready, then the start barrier (module ProcMgr).
vmm_main(c) ==
    /\ ap[c].at = "vmm"
    /\ ready' = [ready EXCEPT ![ap[c].info] = TRUE]
    /\ ap' = [ap EXCEPT ![c].at = "barrier"]
    /\ UNCHANGED <<bsp, word>> /\ KeepMemory

Load == boot_loader \/ memory_init \/ mp_init \/ msg_areas \/ load_server_vms \/ load_other_vms \/ ept_map_memory_vms
        \/ load_all_vmms \/ map_all_vmms \/ set_vm_args
Start == lapic_startaps \/ lapic_startup \/ wait_ready \/ enter_pm
RunAp(c) == ap_load_cr3(c) \/ ap_load_stack(c) \/ vmm_main(c)
BootNext == Load \/ Start \/ \E c \in Cpus : RunAp(c)

-----------------------------------------------------------------------------
Overlap(one, two) == one.at < two.at + two.n /\ two.at < one.at + one.n
Inside(part, whole) == whole.at <= part.at /\ part.at + part.n <= whole.at + whole.n

\* The cases the sizes checked by the loader leave open.
BeyondMax(by) ==
    \/ by = Of("pm") /\ image.pm + VM_STACK_SIZE > MB2
    \/ by = Of("fs") /\ image.fs + VM_STACK_SIZE > MB2
    \/ by = Of("init_bss") /\ image.bss > MB2

\* When PM is told where free memory begins, no allocation has failed, although
\* most results were never looked at: whatever fails makes a later, checked one
\* fail.  What was handed out is disjoint, above stage 2 (so above every module
\* and the initrd) and below the address PM is told; and everything written lies
\* in the writer's own region, unless a server with its stack, or the bss of
\* INIT, is larger than the 2 MB set aside.
BootMemoryUnlessBeyondMax ==
    last_used_addr # 0 =>
        /\ ~mem.failed
        /\ \A one, two \in mem.regions : one # two => ~Overlap(one, two)
        /\ \A one \in mem.regions : StageEnd <= one.at /\ one.at + one.n <= last_used_addr
        /\ last_used_addr <= machine.size
        /\ \A w \in writes : w.by # Of("stage2") =>
              \/ \E one \in mem.regions : one.by = w.by /\ Inside(w, one)
              \/ BeyondMax(w.by)

\* An AP enters its monitor with its own page tables, stack and cpu_info, although
\* it reads one word shared by all twice, while the BSP goes on; and a CPU is
\* ready only by itself.
ApTakesItsOwn ==
    \A c \in Cpus :
        /\ ap[c].at \in {"stack", "vmm", "barrier"} => ap[c].cr3 = c
        /\ ap[c].at \in {"vmm", "barrier"} => ap[c].info = c
        /\ ready[c] /\ c # PM => ap[c].at = "barrier"

\* What the monitors and PM rely on when they start.
BootOK == BootMemoryUnlessBeyondMax /\ ApTakesItsOwn

\* The start ends: all CPUs are ready and the BSP runs PM, also if a STARTUP
\* message is missed, unless a CPU that was counted does not exist.
Told == last_used_addr # 0 /\ (0..(ncpus - 1)) \subseteq machine.present
AllStarted == bsp.at = "pm" /\ \A c \in 0..(ncpus - 1) : ready[c]
-----------------------------------------------------------------------------
(* Why one word is enough, for any machine: the word names an AP from the time *)
(* the BSP wakes it until it is ready (Waking), and the BSP starts the APs in   *)
(* order, so that one that is ready has not been woken by mistake (InOrder).    *)

BootSpec == BootInit /\ [][BootNext]_bootVars

Loading == {"loader", "panic", "stage2", "mp", "areas", "server", "other", "ept", "vmm", "map", "args"}
Woken == {"first", "second", "wait"}

BootTypeOK ==
    /\ bsp \in [at : Loading \cup Woken \cup {"start", "pm"}, cpu : Nat]
    /\ bsp.at \in Woken \cup {"start"} => bsp.cpu # PM
    /\ word \in Nat
    /\ ap \in [Cpus -> [at : {"halted", "sipi", "cr3", "stack", "vmm", "barrier"}, cr3 : Nat, info : Nat]]
    /\ ready \in [Cpus -> BOOLEAN]

Waking ==
    \A c \in Cpus : ap[c].at \in {"sipi", "cr3", "stack", "vmm"} => bsp.at \in Woken /\ bsp.cpu = c /\ word = c

InOrder ==
    \A c \in Cpus : ready[c] /\ c # PM =>
        \/ bsp.at = "start" /\ c < bsp.cpu
        \/ bsp.at \in Woken /\ c <= bsp.cpu
        \/ bsp.at = "pm"

BootInv == BootTypeOK /\ Waking /\ InOrder /\ ApTakesItsOwn

(* Why no failure goes unnoticed, for any machine: the pointer only grows, so    *)
(* that a request that failed leaves less than 2 MB (Sound), and the memory of   *)
(* the next monitor, whose allocation is looked at, fails as well.  The pages    *)
(* after the last monitor leave less than a page (LastPages).                    *)

\* Sizes are numbers; the messages of all CPUs fit into 2 MB; the sections of INIT
\* are part of its module.
BootConstants ==
    /\ MB2 \in Nat \ {0} /\ MAX_CPUS \in Nat /\ MAX_CPUS + 1 <= MB2
    /\ VM_STACK_SIZE \in Nat /\ Tables \in Nat \ {0}
    /\ \A m \in Machines : m.size \in Nat /\ Total(m.procs) \in Nat
    /\ \A i \in Images : /\ i.modules \in Nat /\ i.stage2 \in Nat /\ i.pm \in Nat /\ i.fs \in Nat
                         /\ i.init \in Nat /\ i.bss \in Nat /\ i.vmm \in Nat
                         /\ i.init <= i.modules

Names == {"stage2_map", "pool", "msg_input", "msg_output", "msg_ready", "bitmap", "pm", "fs", "init", "init_bss",
          "init_stack", "tables", "ept", "vmm", "vmcs", "vmxon", "vmm_map"}
Extents == [by : Names \X Nat \X Nat, at : Nat, n : Nat]
Allocators == [free : Nat, got : Nat, regions : SUBSET Extents, failed : BOOLEAN]

Sound(mm) ==
    /\ mm \in Allocators /\ StageEnd <= mm.free
    /\ \A one \in mm.regions : StageEnd <= one.at /\ one.at + one.n <= mm.free
    /\ \A one, two \in mm.regions : one # two => ~Overlap(one, two)
    /\ IF mm.failed THEN mm.free + MB2 > machine.size ELSE mm.free <= machine.size

OwnPlace(w, mm) == (\E one \in mm.regions : one.by = w.by /\ Inside(w, one)) \/ BeyondMax(w.by)

LastPages ==
    /\ bsp.at = "map" /\ mem.failed => mem.free >= machine.size
    /\ bsp.at \in {"args", "start", "pm"} \cup Woken => ~mem.failed

MemoryInv ==
    /\ machine \in Machines /\ image \in Images /\ ncpus \in 0..(MAX_CPUS + 1)
    /\ bsp.at \in {"loader", "stage2"} => mem = [free |-> 0, got |-> 0, regions |-> {}, failed |-> FALSE]
    /\ bsp.at \notin {"loader", "panic"} => image.modules <= MB2
    /\ bsp.at \notin {"loader", "stage2", "panic"} => Sound(mem)
    /\ LastPages
    /\ bsp.at # "panic" /\ ~mem.failed => \A w \in writes : w.by # Of("stage2") => OwnPlace(w, mem)
    /\ last_used_addr # 0 => last_used_addr = mem.free /\ bsp.at \in {"start", "pm"} \cup Woken
-----------------------------------------------------------------------------
(* The start of the machine, for any number of CPUs. *)

\* Loading starts nobody.
LEMMA LoadStep == ASSUME MAX_CPUS \in Nat, BootInv, Load PROVE BootInv'
<1>1. /\ word' = word /\ ap' = ap /\ ready' = ready /\ bsp.at \in Loading
      /\ bsp' \in [at : Loading \cup {"start"}, cpu : Nat]
      /\ bsp'.at = "start" => bsp'.cpu = 1
  <2>1. CASE boot_loader
    BY <2>1 DEF boot_loader, KeepAps, Stop, Goto, BootInv, BootTypeOK, Loading
  <2>2. CASE memory_init
    BY <2>2, ZenonT(60) DEF memory_init, KeepAps, Stop, Goto, BootInv, BootTypeOK, Loading
  <2>3. CASE mp_init
    BY <2>3 DEF mp_init, KeepAps, Stop, Goto, BootInv, BootTypeOK, Loading
  <2>4. CASE msg_areas
    BY <2>4 DEF msg_areas, KeepAps, Stop, Goto, BootInv, BootTypeOK, Loading, PM
  <2>5. CASE load_server_vms
    BY <2>5 DEF load_server_vms, KeepAps, Stop, Goto, BootInv, BootTypeOK, Loading, PM, FS, INITVM
  <2>6. CASE load_other_vms
    BY <2>6, ZenonT(60) DEF load_other_vms, KeepAps, Stop, Goto, BootInv, BootTypeOK, Loading, PM
  <2>7. CASE ept_map_memory_vms
    BY <2>7 DEF ept_map_memory_vms, KeepAps, Stop, Goto, BootInv, BootTypeOK, Loading
  <2>8. CASE load_all_vmms
    BY <2>8 DEF load_all_vmms, KeepAps, Stop, Goto, BootInv, BootTypeOK, Loading
  <2>9. CASE map_all_vmms
    <3>1. /\ word' = word /\ ap' = ap /\ ready' = ready /\ bsp.at = "map"
          /\ \/ bsp' = [bsp EXCEPT !.at = "panic"]
             \/ bsp' = [at |-> "args", cpu |-> 0]
             \/ bsp' = [bsp EXCEPT !.cpu = @ + 1]
      BY <2>9, ZenonT(60) DEF map_all_vmms, KeepAps, Stop, Goto
    <3> QED BY <3>1 DEF BootInv, BootTypeOK, Loading
  <2>10. CASE set_vm_args
    BY <2>10 DEF set_vm_args, KeepAps, Stop, Goto, BootInv, BootTypeOK, Loading
  <2> QED BY <2>1, <2>2, <2>3, <2>4, <2>5, <2>6, <2>7, <2>8, <2>9, <2>10 DEF Load
<1>2. BootTypeOK'
  BY <1>1 DEF BootInv, BootTypeOK, Loading, Woken, PM
<1>3. Waking' /\ InOrder'
  BY <1>1 DEF BootInv, Waking, InOrder, Loading, Woken
<1>4. ApTakesItsOwn'
  BY <1>1 DEF BootInv, ApTakesItsOwn
<1> QED BY <1>2, <1>3, <1>4 DEF BootInv

\* lapic_startaps: no other AP is being started, and this one is not ready.
LEMMA StartapsStep == ASSUME MAX_CPUS \in Nat, BootInv, lapic_startaps PROVE BootInv'
<1>1. /\ bsp.at = "start" /\ word' = bsp.cpu /\ ready' = ready
      /\ ap' = ap \/ ap' = [ap EXCEPT ![bsp.cpu] = [ap[bsp.cpu] EXCEPT !.at = "sipi"]]
      /\ bsp' = [bsp EXCEPT !.at = "first"]
  BY DEF lapic_startaps, Goto
<1>2. bsp' \in [at : Woken, cpu : Nat] /\ bsp'.at = "first" /\ bsp'.cpu = bsp.cpu /\ bsp.cpu # PM
  BY <1>1 DEF BootInv, BootTypeOK, Woken
<1>3. ap' \in [Cpus -> [at : {"halted", "sipi", "cr3", "stack", "vmm", "barrier"}, cr3 : Nat, info : Nat]]
  BY <1>1 DEF BootInv, BootTypeOK
<1>4. /\ \A c \in Cpus : c # bsp.cpu => ap'[c] = ap[c]
      /\ bsp.cpu \in Cpus => ap'[bsp.cpu] = ap[bsp.cpu] \/ ap'[bsp.cpu].at = "sipi"
  BY <1>1 DEF BootInv, BootTypeOK
<1>5. BootTypeOK'
  BY <1>1, <1>2, <1>3 DEF BootInv, BootTypeOK
<1>6. \A c \in Cpus : ap[c].at \notin {"sipi", "cr3", "stack", "vmm"} /\ (ready[c] /\ c # PM => c < bsp.cpu)
  BY <1>1 DEF BootInv, Waking, InOrder, Woken
<1>7. Waking' /\ InOrder'
  BY <1>1, <1>2, <1>4, <1>6 DEF BootInv, BootTypeOK, Waking, InOrder, Woken, Cpus
<1>8. ApTakesItsOwn'
  BY <1>1, <1>2, <1>4, <1>6 DEF BootInv, BootTypeOK, ApTakesItsOwn, Cpus
<1> QED BY <1>5, <1>7, <1>8 DEF BootInv

\* lapic_startup: the AP may begin.
LEMMA StartupStep == ASSUME MAX_CPUS \in Nat, BootInv, lapic_startup PROVE BootInv'
<1>1. /\ bsp.at \in Woken /\ word' = word /\ ready' = ready
      /\ \/ ap' = ap
         \/ ap[bsp.cpu].at = "sipi" /\ ap' = [ap EXCEPT ![bsp.cpu] = [ap[bsp.cpu] EXCEPT !.at = "cr3"]]
      /\ bsp' = [bsp EXCEPT !.at = IF bsp.at = "first" THEN "second" ELSE "wait"]
  BY DEF lapic_startup, Goto, Woken
<1>2. bsp' \in [at : Woken, cpu : Nat] /\ bsp'.cpu = bsp.cpu /\ bsp.cpu # PM
  BY <1>1 DEF BootInv, BootTypeOK, Woken
<1>3. ap' \in [Cpus -> [at : {"halted", "sipi", "cr3", "stack", "vmm", "barrier"}, cr3 : Nat, info : Nat]]
  BY <1>1 DEF BootInv, BootTypeOK
<1>4. /\ \A c \in Cpus : c # bsp.cpu => ap'[c] = ap[c]
      /\ bsp.cpu \in Cpus => ap'[bsp.cpu] = ap[bsp.cpu] \/ (ap[bsp.cpu].at = "sipi" /\ ap'[bsp.cpu].at = "cr3")
  BY <1>1 DEF BootInv, BootTypeOK
<1>5. BootTypeOK'
  BY <1>1, <1>2, <1>3 DEF BootInv, BootTypeOK
<1>6. Waking' /\ InOrder'
  BY <1>1, <1>2, <1>4 DEF BootInv, BootTypeOK, Waking, InOrder, Woken, Cpus
<1>7. ApTakesItsOwn'
  BY <1>1, <1>2, <1>4 DEF BootInv, BootTypeOK, ApTakesItsOwn, Cpus
<1> QED BY <1>5, <1>6, <1>7 DEF BootInv

\* wait_ready: the AP has passed its reads of the word.
LEMMA ReadyStep == ASSUME MAX_CPUS \in Nat, BootInv, wait_ready PROVE BootInv'
<1>1. /\ bsp.at = "wait" /\ ready[bsp.cpu] /\ word' = word /\ ap' = ap /\ ready' = ready
      /\ bsp' = [at |-> "start", cpu |-> bsp.cpu + 1]
  BY DEF wait_ready, KeepAps
<1>2. bsp.cpu \in Nat /\ bsp.cpu # PM /\ bsp'.at = "start" /\ bsp'.cpu = bsp.cpu + 1
  BY <1>1 DEF BootInv, BootTypeOK, Woken
<1>3. BootTypeOK'
  BY <1>1, <1>2 DEF BootInv, BootTypeOK, PM
<1>4. \A c \in Cpus : ap[c].at \notin {"sipi", "cr3", "stack", "vmm"}
  BY <1>1, <1>2 DEF BootInv, Waking, ApTakesItsOwn
<1>5. Waking' /\ InOrder'
  BY <1>1, <1>2, <1>4 DEF BootInv, Waking, InOrder, Woken, Cpus
<1>6. ApTakesItsOwn'
  BY <1>1 DEF BootInv, ApTakesItsOwn
<1> QED BY <1>3, <1>5, <1>6 DEF BootInv

\* enter_pm: nobody is being started when the word becomes PM.
LEMMA EnterStep == ASSUME MAX_CPUS \in Nat, BootInv, enter_pm PROVE BootInv'
<1>1. /\ bsp.at = "start" /\ word' = PM /\ ap' = ap /\ bsp' = [at |-> "pm", cpu |-> PM]
      /\ ready' = [ready EXCEPT ![PM] = TRUE]
  BY DEF enter_pm
<1>2. BootTypeOK'
  BY <1>1, ZenonT(60) DEF BootInv, BootTypeOK, PM, Woken
<1>3. Waking' /\ InOrder'
  BY <1>1 DEF BootInv, Waking, InOrder, Woken
<1>4. \A c \in Cpus : c # PM => ready'[c] = ready[c]
  BY <1>1 DEF BootInv, BootTypeOK
<1>5. ApTakesItsOwn'
  BY <1>1, <1>4 DEF BootInv, ApTakesItsOwn
<1> QED BY <1>2, <1>3, <1>5 DEF BootInv

\* The AP reads the word twice: both times it is its own.
LEMMA ApStep == ASSUME MAX_CPUS \in Nat, BootInv, NEW c \in Cpus, RunAp(c) PROVE BootInv'
<1>1. /\ bsp' = bsp /\ word' = word
      /\ ap[c].at \in {"cr3", "stack", "vmm"}
      /\ \A d \in Cpus : d # c => ap'[d] = ap[d] /\ ready'[d] = ready[d]
      /\ ap' \in [Cpus -> [at : {"halted", "sipi", "cr3", "stack", "vmm", "barrier"}, cr3 : Nat, info : Nat]]
      /\ ready' \in [Cpus -> BOOLEAN]
      /\ \/ ap'[c].at = "stack" /\ ap'[c].cr3 = c /\ ready'[c] = ready[c]
         \/ ap'[c].at = "vmm" /\ ap'[c].cr3 = c /\ ap'[c].info = c /\ ready'[c] = ready[c]
         \/ ap'[c].at = "barrier" /\ ap'[c].cr3 = c /\ ap'[c].info = c
  <2>0. /\ ap \in [Cpus -> [at : {"halted", "sipi", "cr3", "stack", "vmm", "barrier"}, cr3 : Nat, info : Nat]]
        /\ ready \in [Cpus -> BOOLEAN] /\ word \in Nat
        /\ ap[c].at \in {"cr3", "stack", "vmm"} => word = c
        /\ ap[c].at \in {"stack", "vmm"} => ap[c].cr3 = c
        /\ ap[c].at = "vmm" => ap[c].info = c
    BY DEF BootInv, BootTypeOK, Waking, ApTakesItsOwn
  <2>1. CASE ap_load_cr3(c)
    BY <2>0, <2>1, ZenonT(60) DEF ap_load_cr3
  <2>2. CASE ap_load_stack(c)
    BY <2>0, <2>2, ZenonT(60) DEF ap_load_stack
  <2>3. CASE vmm_main(c)
    BY <2>0, <2>3, ZenonT(60) DEF vmm_main
  <2> QED BY <2>1, <2>2, <2>3, ZenonT(60) DEF RunAp
<1>2. bsp.at \in Woken /\ bsp.cpu = c /\ word = c
  BY <1>1 DEF BootInv, Waking
<1>3. BootTypeOK'
  BY <1>1 DEF BootInv, BootTypeOK
<1>4. Waking' /\ InOrder'
  <2>1. Waking'
    BY <1>1, <1>2 DEF BootInv, Waking
  <2>2. c <= bsp.cpu
    BY <1>2 DEF Cpus
  <2>3. InOrder'
    BY <1>1, <1>2, <2>2 DEF BootInv, InOrder
  <2> QED BY <2>1, <2>3
<1>5. ApTakesItsOwn'
  <2>1. ready[c] /\ c # PM => FALSE
    BY <1>1 DEF BootInv, ApTakesItsOwn
  <2> QED BY <1>1, <2>1 DEF BootInv, ApTakesItsOwn
<1> QED BY <1>3, <1>4, <1>5 DEF BootInv

\* On every machine, also one whose STARTUP messages are missed or whose CPUs do not
\* all exist, an AP enters its monitor with its own page tables, stack and cpu_info.
LEMMA OneWordIsEnough == ASSUME MAX_CPUS \in Nat PROVE BootSpec => []BootTypeOK /\ []ApTakesItsOwn
<1>1. BootInit => BootInv
  <2> SUFFICES ASSUME BootInit PROVE BootInv
    OBVIOUS
  <2>1. BootTypeOK
    BY DEF BootInit, BootTypeOK, Nobody, Loading, Woken
  <2>2. Waking /\ InOrder /\ ApTakesItsOwn
    BY DEF BootInit, Waking, InOrder, ApTakesItsOwn
  <2> QED BY <2>1, <2>2 DEF BootInv
<1>2. BootInv /\ [BootNext]_bootVars => BootInv'
  <2>1. ASSUME BootInv, UNCHANGED bootVars PROVE BootInv'
    BY <2>1 DEF bootVars, BootInv, BootTypeOK, Waking, InOrder, ApTakesItsOwn
  <2> QED BY <2>1, LoadStep, StartapsStep, StartupStep, ReadyStep, EnterStep, ApStep DEF BootNext, Start
<1>3. BootInv => BootTypeOK /\ ApTakesItsOwn
  BY DEF BootInv
<1> QED BY <1>1, <1>2, <1>3, PTL DEF BootSpec

-----------------------------------------------------------------------------
(* The memory of the boot loader. *)

\* What is known of the sizes in every state.
SizesKnown ==
    /\ MB2 \in Nat \ {0} /\ MAX_CPUS \in Nat /\ MAX_CPUS + 1 <= MB2
    /\ VM_STACK_SIZE \in Nat /\ Tables \in Nat \ {0}
    /\ machine.size \in Nat /\ Total(machine.procs) \in Nat
    /\ image.modules \in Nat /\ image.stage2 \in Nat /\ image.pm \in Nat /\ image.fs \in Nat
    /\ image.init \in Nat /\ image.bss \in Nat /\ image.vmm \in Nat /\ image.init <= image.modules

\* What an allocation may do to the allocator.
Grown(mm, nn) == mm.regions \subseteq nn.regions /\ mm.free <= nn.free /\ (mm.failed => nn.failed)

\* What is aligned is not below what was asked for.
LEMMA RoundUpFacts ==
  ASSUME NEW x \in Nat, NEW b \in Nat \ {0}
  PROVE  RoundUp(x, b) \in Nat /\ x <= RoundUp(x, b)
<1> DEFINE q == (x + b - 1) \div b
           r == (x + b - 1) % b
<1>1. q \in Nat /\ r \in Nat /\ r < b /\ x + b - 1 = b * q + r
  OBVIOUS
<1>2. q * b \in Nat /\ q * b = b * q
  BY <1>1
<1> HIDE DEF q, r
<1>3. x <= q * b
  BY <1>1, <1>2
<1> QED BY <1>2, <1>3 DEF RoundUp, q

Below(blocks, top) == \A one \in blocks : one.at \in Nat /\ one.n \in Nat /\ one.at + one.n <= top
Apart(blocks) == \A one, two \in blocks : one # two => ~Overlap(one, two)

\* A block above all others overlaps none of them.
LEMMA AddedApart ==
  ASSUME NEW old, NEW top \in Nat, NEW blk,
         Below(old, top), Apart(old), blk.at \in Nat, blk.n \in Nat, top <= blk.at
  PROVE  Apart(old \cup {blk})
<1> SUFFICES ASSUME NEW one \in old \cup {blk}, NEW two \in old \cup {blk}, one # two PROVE ~Overlap(one, two)
  BY DEF Apart
<1>1. CASE one \in old /\ two \in old BY <1>1 DEF Apart
<1>2. CASE one \in old /\ two = blk BY <1>2 DEF Overlap, Below
<1>3. CASE one = blk /\ two \in old BY <1>3 DEF Overlap, Below
<1> QED BY <1>1, <1>2, <1>3

\* malloc_align and calloc_align: the pointer only grows, what is handed out lies
\* above all that was handed out before, and a failure leaves less than 2 MB.
LEMMA MallocFacts ==
  ASSUME SizesKnown, NEW mm, Sound(mm), NEW by \in Names \X Nat \X Nat,
         NEW n \in Nat, n <= MB2, NEW alignment \in {1, MB2}, NEW nn, nn = malloc_align(mm, by, n, alignment)
  PROVE  /\ Sound(nn) /\ Grown(mm, nn)
         /\ nn.got = 0 => nn.failed
         /\ nn.got # 0 => /\ [by |-> by, at |-> nn.got, n |-> n] \in nn.regions
                          /\ nn.failed => mm.failed
         /\ mm.failed /\ n = MB2 => nn.got = 0
         /\ nn.got = 0 /\ n = 1 /\ alignment = 1 => nn.free >= machine.size
<1> DEFINE at == RoundUp(mm.free, alignment)
           blk == [by |-> by, at |-> at, n |-> n]
<1>1. /\ mm \in Allocators /\ mm.free \in Nat /\ mm.got \in Nat /\ mm.regions \subseteq Extents /\ mm.failed \in BOOLEAN
      /\ StageEnd \in Nat /\ MB2 <= StageEnd /\ StageEnd <= mm.free
  BY DEF Sound, Allocators, SizesKnown, StageEnd
<1>2. /\ \A one \in mm.regions : one.at \in Nat /\ one.n \in Nat /\ StageEnd <= one.at /\ one.at + one.n <= mm.free
      /\ \A one, two \in mm.regions : one # two => ~Overlap(one, two)
      /\ IF mm.failed THEN mm.free + MB2 > machine.size ELSE mm.free <= machine.size
  BY <1>1 DEF Sound, Extents
<1>3. /\ MB2 \in Nat /\ MB2 > 0 /\ machine.size \in Nat /\ alignment \in Nat \ {0} /\ alignment <= MB2
  BY DEF SizesKnown
<1>4. at \in Nat /\ mm.free <= at
  BY <1>1, <1>3, RoundUpFacts
<1>5. alignment = 1 => at = mm.free
  BY <1>1 DEF RoundUp
<1>6. \/ /\ alignment >= machine.size
         /\ nn = [mm EXCEPT !.got = 0, !.failed = TRUE]
      \/ /\ at + n > machine.size
         /\ nn = [mm EXCEPT !.free = at, !.got = 0, !.failed = TRUE]
      \/ /\ alignment < machine.size /\ at + n <= machine.size
         /\ nn = [mm EXCEPT !.free = at + n, !.got = at, !.regions = @ \cup {blk}]
  BY <1>1, <1>3, <1>4 DEF malloc_align
<1>7. blk \in Extents /\ blk.at = at /\ blk.n = n
  BY <1>4 DEF Extents
<1> HIDE DEF at, blk
<1>8. CASE alignment >= machine.size /\ nn = [mm EXCEPT !.got = 0, !.failed = TRUE]
  <2>1. nn \in Allocators /\ nn.free = mm.free /\ nn.got = 0 /\ nn.regions = mm.regions /\ nn.failed = TRUE
    <3>1. nn = [free |-> mm.free, got |-> 0, regions |-> mm.regions, failed |-> TRUE]
      BY <1>1, <1>8 DEF Allocators
    <3> QED BY <1>1, <3>1 DEF Allocators
  <2>2. nn.free + MB2 > machine.size
    BY <1>1, <1>3, <1>8, <2>1
  <2>3. Sound(nn)
    BY <1>1, <1>2, <2>1, <2>2 DEF Sound
  <2>4. alignment = 1 => nn.free >= machine.size
    BY <1>1, <1>3, <1>8, <2>1
  <2> QED BY <1>1, <2>1, <2>3, <2>4 DEF Grown
<1>9. CASE at + n > machine.size /\ nn = [mm EXCEPT !.free = at, !.got = 0, !.failed = TRUE]
  <2>1. nn \in Allocators /\ nn.free = at /\ nn.got = 0 /\ nn.regions = mm.regions /\ nn.failed = TRUE
    <3>1. nn = [free |-> at, got |-> 0, regions |-> mm.regions, failed |-> TRUE]
      BY <1>1, <1>9 DEF Allocators
    <3> QED BY <1>1, <1>4, <3>1 DEF Allocators
  <2>2. nn.free + MB2 > machine.size
    BY <1>3, <1>4, <1>9, <2>1
  <2>3. Sound(nn)
    <3>1. \A one \in nn.regions : StageEnd <= one.at /\ one.at + one.n <= nn.free
      BY <1>1, <1>2, <1>4, <2>1
    <3> QED BY <1>1, <1>2, <1>4, <2>1, <2>2, <3>1 DEF Sound
  <2>4. n = 1 => nn.free >= machine.size
    BY <1>3, <1>4, <1>9, <2>1
  <2> QED BY <1>1, <1>4, <2>1, <2>3, <2>4 DEF Grown
<1>10. CASE at + n <= machine.size /\ nn = [mm EXCEPT !.free = at + n, !.got = at, !.regions = @ \cup {blk}]
  <2>1. nn \in Allocators /\ nn.free = at + n /\ nn.got = at /\ nn.regions = mm.regions \cup {blk} /\ nn.failed = mm.failed
    <3>1. mm.regions \cup {blk} \subseteq Extents /\ at + n \in Nat
      BY <1>1, <1>4, <1>7
    <3> QED BY <1>1, <1>4, <1>10, <3>1 DEF Allocators
  <2>2. \A one, two \in nn.regions : one # two => ~Overlap(one, two)
    <3>1. Below(mm.regions, mm.free) /\ Apart(mm.regions) /\ mm.free \in Nat
      BY <1>1, <1>2 DEF Below, Apart
    <3>2. blk.at \in Nat /\ blk.n \in Nat /\ mm.free <= blk.at
      BY <1>4, <1>7
    <3>3. Apart(mm.regions \cup {blk})
      BY <3>1, <3>2, AddedApart
    <3> QED BY <2>1, <3>3 DEF Apart
  <2>3. \A one \in nn.regions : StageEnd <= one.at /\ one.at + one.n <= nn.free
    BY <1>1, <1>2, <1>4, <1>7, <2>1
  <2>4. IF nn.failed THEN nn.free + MB2 > machine.size ELSE nn.free <= machine.size
    BY <1>1, <1>2, <1>3, <1>4, <1>10, <2>1
  <2>5. Sound(nn)
    BY <1>1, <1>4, <2>1, <2>2, <2>3, <2>4 DEF Sound
  <2>6. nn.got # 0 /\ ~(mm.failed /\ n = MB2)
    BY <1>1, <1>2, <1>3, <1>4, <1>10, <2>1
  <2> QED BY <1>1, <1>4, <2>1, <2>5, <2>6 DEF Grown, blk
<1> QED BY <1>6, <1>8, <1>9, <1>10

\* One page: if it is not to be had, the memory is used up.
LEMMA PageFacts ==
  ASSUME SizesKnown, NEW mm, Sound(mm), NEW by \in Names \X Nat \X Nat, NEW nn, nn = malloc_align(mm, by, 1, 1)
  PROVE  /\ Sound(nn) /\ Grown(mm, nn)
         /\ nn.got # 0 /\ nn.failed => mm.failed
         /\ nn.got = 0 => nn.free >= machine.size
<1>1. 1 \in Nat /\ 1 <= MB2 /\ 1 \in {1, MB2} /\ MB2 \in Nat
  BY DEF SizesKnown
<1> QED BY <1>1, MallocFacts

\* The tables of an address space: all of them, or the memory is used up.
LEMMA TablesFacts ==
  ASSUME SizesKnown, NEW mm, Sound(mm), NEW name \in Names, NEW c \in Nat, NEW nn,
         nn = AllocTables(mm, <<name, c, 0>>, Tables)
  PROVE  /\ Sound(nn) /\ Grown(mm, nn)
         /\ nn.got # 0 => mm.free < machine.size /\ (nn.failed => mm.failed)
<1> DEFINE by == <<name, c, 0>>
           fit == IF mm.free + Tables <= machine.size THEN Tables
                  ELSE IF mm.free <= machine.size THEN machine.size - mm.free ELSE 0
           Blk(k) == [by |-> <<by[1], by[2], k>>, at |-> mm.free + k - 1, n |-> 1]
           new == {Blk(k) : k \in 1..fit}
<1>1. /\ mm \in Allocators /\ mm.free \in Nat /\ mm.got \in Nat /\ mm.regions \subseteq Extents /\ mm.failed \in BOOLEAN
      /\ StageEnd \in Nat /\ MB2 <= StageEnd /\ StageEnd <= mm.free
  BY DEF Sound, Allocators, SizesKnown, StageEnd
<1>2. /\ \A one \in mm.regions : one.at \in Nat /\ one.n \in Nat /\ StageEnd <= one.at /\ one.at + one.n <= mm.free
      /\ \A one, two \in mm.regions : one # two => ~Overlap(one, two)
      /\ IF mm.failed THEN mm.free + MB2 > machine.size ELSE mm.free <= machine.size
  BY <1>1 DEF Sound, Extents
<1>3. /\ MB2 \in Nat /\ MB2 > 0 /\ machine.size \in Nat /\ Tables \in Nat \ {0}
  BY DEF SizesKnown
<1>4. /\ fit \in Nat /\ fit <= Tables
      /\ fit = Tables => mm.free + Tables <= machine.size
      /\ fit # Tables => mm.free + fit >= machine.size
      /\ mm.free <= machine.size => mm.free + fit <= machine.size
  BY <1>1, <1>3
<1>5. nn = [mm EXCEPT !.free = @ + fit, !.got = IF fit = Tables THEN mm.free + Tables - 1 ELSE 0,
                     !.failed = @ \/ fit # Tables, !.regions = @ \cup new]
  BY DEF AllocTables
<1>6. \A b \in new : \E k \in 1..fit : b = Blk(k)
  OBVIOUS
<1>7. ASSUME NEW k \in 1..fit PROVE Blk(k) \in Extents /\ Blk(k).at = mm.free + k - 1 /\ Blk(k).n = 1
  <2>1. mm.free + k - 1 \in Nat
    BY <1>1, <1>4
  <2>2. by[1] = name /\ by[2] = c /\ <<by[1], by[2], k>> \in Names \X Nat \X Nat
    BY <1>4
  <2> QED BY <2>1, <2>2 DEF Extents
<1> HIDE DEF fit, Blk, new, by
<1>8. \A b \in new : b \in Extents /\ b.at \in Nat /\ b.n = 1 /\ mm.free <= b.at /\ b.at + b.n <= mm.free + fit
  <2> SUFFICES ASSUME NEW b \in new
               PROVE b \in Extents /\ b.at \in Nat /\ b.n = 1 /\ mm.free <= b.at /\ b.at + b.n <= mm.free + fit
    OBVIOUS
  <2>1. PICK k \in 1..fit : b = Blk(k)
    BY <1>6
  <2>2. b \in Extents /\ b.at = mm.free + k - 1 /\ b.n = 1
    BY <1>7, <2>1
  <2> QED BY <1>1, <1>4, <2>2
<1>9. \A one, two \in new : one # two => ~Overlap(one, two)
  <2> SUFFICES ASSUME NEW one \in new, NEW two \in new, Overlap(one, two) PROVE one = two
    OBVIOUS
  <2>1. PICK k \in 1..fit : one = Blk(k)
    BY <1>6
  <2>2. PICK l \in 1..fit : two = Blk(l)
    BY <1>6
  <2>3. one.at = mm.free + k - 1 /\ one.n = 1 /\ two.at = mm.free + l - 1 /\ two.n = 1
    BY <1>7, <2>1, <2>2
  <2>4. k = l
    BY <1>1, <1>4, <2>3 DEF Overlap
  <2> QED BY <2>1, <2>2, <2>4
<1>10. /\ nn \in Allocators /\ nn.free = mm.free + fit /\ nn.regions = mm.regions \cup new
       /\ nn.failed = (mm.failed \/ fit # Tables)
       /\ nn.got = IF fit = Tables THEN mm.free + Tables - 1 ELSE 0
  <2>1. mm.free + fit \in Nat /\ (IF fit = Tables THEN mm.free + Tables - 1 ELSE 0) \in Nat
    BY <1>1, <1>3, <1>4
  <2>2. mm.regions \cup new \subseteq Extents
    BY <1>1, <1>8
  <2> QED BY <1>1, <1>5, <2>1, <2>2 DEF Allocators
<1>11. \A one \in nn.regions : StageEnd <= one.at /\ one.at + one.n <= nn.free
  BY <1>1, <1>2, <1>4, <1>8, <1>10
<1>12. \A one, two \in nn.regions : one # two => ~Overlap(one, two)
  <2> SUFFICES ASSUME NEW one \in nn.regions, NEW two \in nn.regions, one # two PROVE ~Overlap(one, two)
    OBVIOUS
  <2>1. CASE one \in mm.regions /\ two \in mm.regions BY <1>2, <2>1
  <2>2. CASE one \in new /\ two \in new BY <1>9, <2>2
  <2>3. CASE one \in mm.regions /\ two \in new BY <1>1, <1>2, <1>8, <2>3 DEF Overlap
  <2>4. CASE one \in new /\ two \in mm.regions BY <1>1, <1>2, <1>8, <2>4 DEF Overlap
  <2> QED BY <1>10, <2>1, <2>2, <2>3, <2>4
<1>13. IF nn.failed THEN nn.free + MB2 > machine.size ELSE nn.free <= machine.size
  BY <1>1, <1>2, <1>3, <1>4, <1>10
<1>14. Sound(nn)
  BY <1>1, <1>4, <1>10, <1>11, <1>12, <1>13 DEF Sound
<1>15. nn.got # 0 => mm.free < machine.size /\ (nn.failed => mm.failed)
  BY <1>1, <1>3, <1>4, <1>10
<1> QED BY <1>1, <1>4, <1>10, <1>14, <1>15 DEF Grown

\* The assumptions on all machines and images, for the machine and the image that boot.
LEMMA SizesAreKnown == ASSUME BootConstants, MemoryInv PROVE SizesKnown
<1>1. machine \in Machines /\ image \in Images
  BY DEF MemoryInv
<1> QED BY <1>1 DEF BootConstants, SizesKnown

\* A step of the loader keeps the invariant if what it allocates is sound, what it
\* writes is its own, and nothing has failed where all is loaded.
LEMMA LoadKeeps ==
  ASSUME MemoryInv, UNCHANGED <<machine, image, last_used_addr>>,
         bsp.at \notin {"loader", "start", "pm", "panic"} \cup Woken, bsp'.at \notin {"loader", "stage2", "start", "pm"} \cup Woken,
         ncpus' \in 0..(MAX_CPUS + 1), NEW nn, mem' = nn, NEW new, writes' = writes \cup new,
         bsp'.at # "panic" => Sound(nn),
         mem.regions \subseteq nn.regions, mem.failed => nn.failed,
         bsp'.at # "panic" /\ ~nn.failed => \A w \in new : OwnPlace(w, nn),
         bsp'.at = "map" /\ nn.failed => nn.free >= machine.size,
         bsp'.at = "args" => ~nn.failed
  PROVE  MemoryInv'
<1>1. /\ machine' \in Machines /\ image' \in Images /\ bsp.at # "panic" /\ last_used_addr' = 0
      /\ image'.modules <= MB2
  BY DEF MemoryInv
<1>2. (bsp.at \notin {"loader", "stage2", "panic"} => Sound(mem))'
  BY DEF Sound, StageEnd
<1>3. LastPages'
  BY DEF LastPages, Woken
<1>4. (bsp.at # "panic" /\ ~mem.failed => \A w \in writes : w.by # Of("stage2") => OwnPlace(w, mem))'
  <2> SUFFICES ASSUME bsp'.at # "panic", ~nn.failed, NEW w \in writes', w.by # Of("stage2") PROVE OwnPlace(w, mem)'
    BY DEF Of
  <2>1. OwnPlace(w, nn)
    <3>1. CASE w \in new BY <3>1
    <3>2. CASE w \in writes
      <4>1. OwnPlace(w, mem)
        BY <1>1, <3>2 DEF MemoryInv
      <4> QED BY <4>1 DEF OwnPlace
    <3> QED BY <3>1, <3>2
  <2> QED BY <2>1 DEF OwnPlace, BeyondMax
<1> QED BY <1>1, <1>2, <1>3, <1>4 DEF MemoryInv

\* What the loader calls the blocks it takes.
LEMMA OwnerNames ==
  /\ \A name \in Names : Of(name) \in Names \X Nat \X Nat
  /\ \A name \in Names, c \in Nat : <<name, c, 0>> \in Names \X Nat \X Nat
BY DEF Of

\* Stage 1: nothing has been allocated, and only stage 2 has been written.
LEMMA BootLoaderKeeps == ASSUME BootConstants, BootTypeOK, MemoryInv, boot_loader PROVE MemoryInv'
<1>1. /\ UNCHANGED <<machine, image, mem, ncpus, last_used_addr>> /\ bsp.at = "loader"
      /\ \/ bsp'.at = "panic" /\ writes' = writes
         \/ bsp'.at = "stage2" /\ writes' = {load_stage2} /\ ~(image.modules > MB2)
  BY DEF boot_loader, Goto, Stop, BootTypeOK
<1>2. machine \in Machines /\ image \in Images /\ ncpus \in 0..(MAX_CPUS + 1) /\ last_used_addr = 0
  BY <1>1 DEF MemoryInv, Woken
<1>3. image.modules \in Nat /\ MB2 \in Nat
  BY SizesAreKnown DEF SizesKnown
<1>4. mem' = [free |-> 0, got |-> 0, regions |-> {}, failed |-> FALSE]
  BY <1>1 DEF MemoryInv
<1>5. LastPages'
  BY <1>1 DEF LastPages, Woken
<1>6. bsp'.at # "panic" => image'.modules <= MB2 /\ \A w \in writes' : w.by = Of("stage2")
  BY <1>1, <1>3 DEF load_stage2, Wrote, Of
<1> QED BY <1>1, <1>2, <1>4, <1>5, <1>6 DEF MemoryInv, Of

\* If stage 2 does not end within the memory, its first table is not to be had.
LEMMA MemoryInitKeeps == ASSUME BootConstants, BootTypeOK, MemoryInv, memory_init PROVE MemoryInv'
<1> DEFINE m0 == [mem EXCEPT !.free = StageEnd]
           nn == calloc_align(m0, Of("stage2_map"), 1, 1)
<1>1. /\ UNCHANGED <<machine, image, writes, ncpus, last_used_addr>> /\ bsp.at = "stage2" /\ mem' = nn
      /\ bsp'.at = IF nn.got = 0 THEN "panic" ELSE "mp"
  BY DEF memory_init, Goto, Stop, BootTypeOK
<1>2. ncpus \in 0..(MAX_CPUS + 1) /\ mem = [free |-> 0, got |-> 0, regions |-> {}, failed |-> FALSE]
  BY <1>1 DEF MemoryInv
<1>3. SizesKnown
  BY SizesAreKnown
<1>4. /\ mem \in Allocators /\ mem.regions = {} /\ mem.failed = FALSE
      /\ m0 = [free |-> StageEnd, got |-> mem.got, regions |-> mem.regions, failed |-> mem.failed]
  <2>1. mem \in Allocators /\ mem.regions = {} /\ mem.failed = FALSE
    BY <1>2 DEF Allocators
  <2> QED BY <2>1 DEF Allocators
<1>5. StageEnd \in Nat /\ machine.size \in Nat
  BY <1>3 DEF SizesKnown, StageEnd
<1>6. nn = malloc_align(m0, Of("stage2_map"), 1, 1)
  BY DEF calloc_align
<1> HIDE DEF m0, nn
<1>7. nn.got # 0 => Sound(nn)
  <2>1. CASE StageEnd <= machine.size
    <3>1. m0 \in Allocators
      BY <1>4, <1>5 DEF Allocators
    <3>2. Sound(m0)
      BY <1>4, <1>5, <2>1, <3>1 DEF Sound
    <3>3. 1 <= MB2 /\ 1 \in {1, MB2} /\ 1 \in Nat
      BY <1>3 DEF SizesKnown
    <3>4. Of("stage2_map") \in Names \X Nat \X Nat
      BY OwnerNames DEF Names
    <3> QED BY <1>3, <1>6, <3>2, <3>3, <3>4, MallocFacts
  <2>2. CASE StageEnd > machine.size
    <3>1. RoundUp(m0.free, 1) = StageEnd /\ StageEnd + 1 > machine.size
      BY <1>4, <1>5, <2>2 DEF RoundUp
    <3>2. nn = [m0 EXCEPT !.got = 0, !.failed = TRUE] \/ nn = [m0 EXCEPT !.free = StageEnd, !.got = 0, !.failed = TRUE]
      BY <1>6, <3>1 DEF malloc_align
    <3>3. m0 \in Allocators
      BY <1>4, <1>5 DEF Allocators
    <3>4. nn.got = 0
      BY <3>2, <3>3 DEF Allocators
    <3> QED BY <3>4
  <2> QED BY <1>5, <2>1, <2>2
<1>8. writes' = writes \cup {}
  BY <1>1
<1>9. /\ bsp.at \notin {"loader", "start", "pm", "panic"} \cup Woken
      /\ bsp'.at \notin {"loader", "stage2", "start", "pm"} \cup Woken
      /\ bsp'.at # "map" /\ bsp'.at # "args"
  BY <1>1 DEF Woken
<1>10. mem.regions = {} /\ mem.failed = FALSE
  BY <1>2
<1> QED BY <1>1, <1>2, <1>7, <1>8, <1>9, <1>10, LoadKeeps

\* The pool is not looked at; what fails here leaves less than 2 MB.
LEMMA MpInitKeeps == ASSUME BootConstants, BootTypeOK, MemoryInv, mp_init PROVE MemoryInv'
<1> DEFINE nn == calloc_align(mem, Of("pool"), MB2, MB2)
           total == Total(machine.procs)
<1>1. /\ UNCHANGED <<machine, image, writes, last_used_addr>> /\ bsp.at = "mp" /\ mem' = nn
      /\ ncpus' = (IF total > MAX_CPUS + 1 THEN MAX_CPUS + 1 ELSE total)
      /\ bsp'.at \in {"panic", "areas"}
  BY DEF mp_init, add_cpu, Goto, Stop, BootTypeOK
<1>2. SizesKnown /\ Sound(mem)
  BY <1>1, SizesAreKnown DEF MemoryInv
<1>3. nn = malloc_align(mem, Of("pool"), MB2, MB2) /\ Of("pool") \in Names \X Nat \X Nat
  BY OwnerNames DEF calloc_align, Names
<1>4. ncpus' \in 0..(MAX_CPUS + 1) /\ MB2 \in Nat /\ MB2 <= MB2 /\ MB2 \in {1, MB2}
  BY <1>1, <1>2 DEF SizesKnown
<1> HIDE DEF nn
<1>5. Sound(nn) /\ Grown(mem, nn)
  BY <1>2, <1>3, <1>4, MallocFacts
<1>6. /\ bsp.at \notin {"loader", "start", "pm", "panic"} \cup Woken
      /\ bsp'.at \notin {"loader", "stage2", "start", "pm"} \cup Woken
      /\ bsp'.at # "map" /\ bsp'.at # "args" /\ writes' = writes \cup {}
  BY <1>1 DEF Woken
<1> QED BY <1>1, <1>4, <1>5, <1>6, LoadKeeps DEF Grown

\* The areas of the messages take at most 2 MB each, so that the same holds for them.
LEMMA MsgAreasKeep == ASSUME BootConstants, BootTypeOK, MemoryInv, msg_areas PROVE MemoryInv'
<1> DEFINE m1 == calloc_align(mem, Of("msg_input"), ncpus, MB2)
           m2 == calloc_align(m1, Of("msg_output"), ncpus, MB2)
           m3 == calloc_align(m2, Of("msg_ready"), ncpus, MB2)
           m4 == calloc_align(m3, Of("bitmap"), 1, 1)
<1>1. /\ UNCHANGED <<machine, image, writes, ncpus, last_used_addr>> /\ bsp.at = "areas" /\ mem' = m4
      /\ bsp'.at = "server"
  BY DEF msg_areas
<1>2. SizesKnown /\ Sound(mem) /\ ncpus \in 0..(MAX_CPUS + 1)
  BY <1>1, SizesAreKnown DEF MemoryInv
<1>3. /\ Of("msg_input") \in Names \X Nat \X Nat /\ Of("msg_output") \in Names \X Nat \X Nat
      /\ Of("msg_ready") \in Names \X Nat \X Nat /\ Of("bitmap") \in Names \X Nat \X Nat
  BY OwnerNames DEF Names
<1>4. /\ ncpus \in Nat /\ ncpus <= MB2 /\ MB2 \in {1, MB2} /\ 1 \in {1, MB2} /\ 1 \in Nat /\ 1 <= MB2
  BY <1>2 DEF SizesKnown
<1>5. /\ m1 = malloc_align(mem, Of("msg_input"), ncpus, MB2)
      /\ m2 = malloc_align(m1, Of("msg_output"), ncpus, MB2)
      /\ m3 = malloc_align(m2, Of("msg_ready"), ncpus, MB2)
      /\ m4 = malloc_align(m3, Of("bitmap"), 1, 1)
  BY DEF calloc_align
<1> HIDE DEF m1, m2, m3, m4
<1>6. Sound(m1) /\ Grown(mem, m1)
  BY <1>2, <1>3, <1>4, <1>5, MallocFacts
<1>7. Sound(m2) /\ Grown(m1, m2)
  BY <1>2, <1>3, <1>4, <1>5, <1>6, MallocFacts
<1>8. Sound(m3) /\ Grown(m2, m3)
  BY <1>2, <1>3, <1>4, <1>5, <1>7, MallocFacts
<1>9. Sound(m4) /\ Grown(m3, m4)
  BY <1>2, <1>3, <1>4, <1>5, <1>8, MallocFacts
<1>10. mem.regions \subseteq m4.regions /\ (mem.failed => m4.failed)
  BY <1>6, <1>7, <1>8, <1>9 DEF Grown
<1>11. /\ bsp.at \notin {"loader", "start", "pm", "panic"} \cup Woken
      /\ bsp'.at \notin {"loader", "stage2", "start", "pm"} \cup Woken
      /\ bsp'.at # "map" /\ bsp'.at # "args" /\ writes' = writes \cup {} /\ ncpus' \in 0..(MAX_CPUS + 1)
  BY <1>1, <1>2 DEF Woken
<1> QED BY <1>1, <1>9, <1>10, <1>11, LoadKeeps

\* A server that gets its address lies in its own 2 MB, unless it is larger with its stack.
LEMMA ServersKeep == ASSUME BootConstants, BootTypeOK, MemoryInv, load_server_vms PROVE MemoryInv'
<1> DEFINE name == Of(IF bsp.cpu = PM THEN "pm" ELSE "fs")
           size == IF bsp.cpu = PM THEN image.pm ELSE image.fs
           addr == IF bsp.cpu = PM THEN PmAddr ELSE FsAddr
           nn == malloc_align(mem, name, MB2, MB2)
           wrote == Wrote(name, addr, size + VM_STACK_SIZE)
<1>1. /\ UNCHANGED <<machine, image, ncpus, last_used_addr>> /\ bsp.at = "server" /\ mem' = nn
      /\ \/ bsp'.at = "panic" /\ writes' \in {writes, writes \cup {wrote}}
         \/ /\ bsp'.at \in {"server", "other"} /\ writes' = writes \cup {wrote}
            /\ nn.got # 0 /\ nn.got = addr
  BY DEF load_server_vms, Goto, Stop, BootTypeOK
<1>2. SizesKnown /\ Sound(mem) /\ ncpus \in 0..(MAX_CPUS + 1)
  BY <1>1, SizesAreKnown DEF MemoryInv
<1>3. name \in {Of("pm"), Of("fs")} /\ name \in Names \X Nat \X Nat
  BY OwnerNames DEF Names
<1>4. MB2 \in Nat /\ MB2 <= MB2 /\ MB2 \in {1, MB2}
  BY <1>2 DEF SizesKnown
<1>5. size \in Nat /\ VM_STACK_SIZE \in Nat /\ (size + VM_STACK_SIZE > MB2 => BeyondMax(name))
  BY <1>2 DEF SizesKnown, BeyondMax
<1> HIDE DEF nn, name, size, addr
<1>6. /\ Sound(nn) /\ Grown(mem, nn)
      /\ nn.got # 0 => [by |-> name, at |-> nn.got, n |-> MB2] \in nn.regions
  BY <1>2, <1>3, <1>4, MallocFacts DEF nn
<1>7. nn.got # 0 /\ nn.got = addr => OwnPlace(wrote, nn)
  <2> SUFFICES ASSUME nn.got # 0, nn.got = addr, size + VM_STACK_SIZE <= MB2
               PROVE  \E one \in nn.regions : one.by = wrote.by /\ Inside(wrote, one)
    BY <1>4, <1>5 DEF OwnPlace, Wrote
  <2>1. [by |-> name, at |-> addr, n |-> MB2] \in nn.regions /\ addr \in Nat
    BY <1>6 DEF Sound, Allocators
  <2> QED BY <1>4, <1>5, <2>1 DEF Wrote, Inside
<1>8. /\ bsp.at \notin {"loader", "start", "pm", "panic"} \cup Woken
      /\ bsp'.at \notin {"loader", "stage2", "start", "pm"} \cup Woken
      /\ bsp'.at # "map" /\ bsp'.at # "args" /\ ncpus' \in 0..(MAX_CPUS + 1)
  BY <1>1, <1>2 DEF Woken
<1> HIDE DEF wrote
<1> DEFINE new == IF writes' = writes THEN {} ELSE {wrote}
<1>9. writes' = writes \cup new /\ (bsp'.at # "panic" => \A w \in new : OwnPlace(w, nn))
  BY <1>1, <1>7
<1> HIDE DEF new
<1> QED BY <1>1, <1>6, <1>8, <1>9, LoadKeeps DEF Grown

\* If nothing failed, INIT lies in the blocks it asked for.
LEMMA OthersKeep == ASSUME BootConstants, BootTypeOK, MemoryInv, load_other_vms PROVE MemoryInv'
<1> DEFINE m1 == malloc_align(mem, Of("init"), image.init, 1)
           mb == malloc_align(m1, Of("init_bss"), MB2, 1)
           m2 == IF image.bss = 0 THEN m1 ELSE mb
           m3 == malloc_align(m2, Of("init_stack"), MB2, 1)
           w1 == Wrote(Of("init"), m1.got, image.init)
           w2 == Wrote(Of("init_bss"), m2.got, image.bss)
           w3 == Wrote(Of("init_stack"), m3.got, MB2)
           new == {w1, w3} \cup IF image.bss = 0 THEN {} ELSE {w2}
<1>1. /\ UNCHANGED <<machine, image, ncpus, last_used_addr>> /\ bsp.at = "other" /\ mem' = m3
      /\ bsp'.at = "ept" /\ writes' = writes \cup new
  BY DEF load_other_vms
<1>2. SizesKnown /\ Sound(mem) /\ ncpus \in 0..(MAX_CPUS + 1) /\ image.modules <= MB2
  BY <1>1, SizesAreKnown DEF MemoryInv
<1>3. /\ Of("init") \in Names \X Nat \X Nat /\ Of("init_bss") \in Names \X Nat \X Nat
      /\ Of("init_stack") \in Names \X Nat \X Nat
  BY OwnerNames DEF Names
<1>4. /\ image.init \in Nat /\ image.init <= MB2 /\ image.bss \in Nat
      /\ MB2 \in Nat /\ MB2 <= MB2 /\ 1 \in {1, MB2}
  BY <1>2 DEF SizesKnown
<1> HIDE DEF m1, mb, m2, m3
<1>5. /\ Sound(m1) /\ Grown(mem, m1) /\ (m1.got = 0 => m1.failed)
      /\ m1.got # 0 => [by |-> Of("init"), at |-> m1.got, n |-> image.init] \in m1.regions
  BY <1>2, <1>3, <1>4, MallocFacts DEF m1
<1>6. /\ Sound(mb) /\ Grown(m1, mb) /\ (mb.got = 0 => mb.failed)
      /\ mb.got # 0 => [by |-> Of("init_bss"), at |-> mb.got, n |-> MB2] \in mb.regions
  BY <1>2, <1>3, <1>4, <1>5, MallocFacts DEF mb
<1>7. /\ Sound(m2) /\ Grown(m1, m2)
      /\ image.bss # 0 => /\ m2.got = 0 => m2.failed
                          /\ m2.got # 0 => [by |-> Of("init_bss"), at |-> m2.got, n |-> MB2] \in m2.regions
  <2>1. CASE image.bss = 0
    <3>1. m2 = m1
      BY <2>1 DEF m2
    <3>2. m1.free \in Nat
      BY <1>5 DEF Sound, Allocators
    <3>3. Grown(m1, m1)
      BY <3>2 DEF Grown
    <3> QED BY <1>5, <2>1, <3>1, <3>3
  <2>2. CASE image.bss # 0
    BY <1>6, <2>2 DEF m2
  <2> QED BY <2>1, <2>2
<1>8. /\ Sound(m3) /\ Grown(m2, m3) /\ (m3.got = 0 => m3.failed)
      /\ m3.got # 0 => [by |-> Of("init_stack"), at |-> m3.got, n |-> MB2] \in m3.regions
  BY <1>2, <1>3, <1>4, <1>7, MallocFacts DEF m3
<1>9. /\ mem.regions \subseteq m3.regions /\ (mem.failed => m3.failed)
      /\ m1.regions \subseteq m3.regions /\ m2.regions \subseteq m3.regions
      /\ (~m3.failed => ~m1.failed /\ ~m2.failed)
  BY <1>5, <1>7, <1>8 DEF Grown
<1>10. m1.got \in Nat /\ m2.got \in Nat /\ m3.got \in Nat
  BY <1>5, <1>7, <1>8 DEF Sound, Allocators
<1>11. ASSUME ~m3.failed PROVE OwnPlace(w1, m3)
  <2>1. [by |-> Of("init"), at |-> m1.got, n |-> image.init] \in m3.regions
    BY <1>5, <1>9, <1>11
  <2> QED BY <1>4, <1>10, <2>1 DEF OwnPlace, Wrote, Inside
<1>12. ASSUME ~m3.failed, image.bss # 0 PROVE OwnPlace(w2, m3)
  <2>1. [by |-> Of("init_bss"), at |-> m2.got, n |-> MB2] \in m3.regions
    BY <1>7, <1>9, <1>12
  <2>2. CASE image.bss > MB2
    BY <2>2 DEF OwnPlace, Wrote, BeyondMax
  <2>3. CASE image.bss <= MB2
    BY <1>4, <1>10, <2>1, <2>3 DEF OwnPlace, Wrote, Inside
  <2> QED BY <1>4, <2>2, <2>3
<1>13. ASSUME ~m3.failed PROVE OwnPlace(w3, m3)
  <2>1. [by |-> Of("init_stack"), at |-> m3.got, n |-> MB2] \in m3.regions
    BY <1>8, <1>13
  <2> QED BY <1>4, <1>10, <2>1 DEF OwnPlace, Wrote, Inside
<1> HIDE DEF w1, w2, w3
<1>14. ~m3.failed => \A w \in new : OwnPlace(w, m3)
  BY <1>11, <1>12, <1>13
<1>15. /\ bsp.at \notin {"loader", "start", "pm", "panic"} \cup Woken
       /\ bsp'.at \notin {"loader", "stage2", "start", "pm"} \cup Woken
       /\ bsp'.at # "map" /\ bsp'.at # "args" /\ ncpus' \in 0..(MAX_CPUS + 1)
  BY <1>1, <1>2 DEF Woken
<1> HIDE DEF new
<1> QED BY <1>1, <1>8, <1>9, <1>14, <1>15, LoadKeeps

\* The tables of PM, FS and INIT.
LEMMA EptKeeps == ASSUME BootConstants, BootTypeOK, MemoryInv, ept_map_memory_vms PROVE MemoryInv'
<1> DEFINE m1 == AllocTables(mem, <<"tables", bsp.cpu, 0>>, Tables)
           m2 == AllocTables(m1, <<"ept", bsp.cpu, 0>>, Tables)
           nn == IF m1.got = 0 THEN m1 ELSE m2
<1>1. /\ UNCHANGED <<machine, image, writes, ncpus, last_used_addr>> /\ bsp.at = "ept" /\ mem' = nn
      /\ bsp'.at \in {"panic", "vmm", "ept"}
  BY DEF ept_map_memory_vms, map_memory, ept_map_memory, Goto, Stop, BootTypeOK
<1>2. SizesKnown /\ Sound(mem) /\ ncpus \in 0..(MAX_CPUS + 1) /\ bsp.cpu \in Nat
  BY <1>1, SizesAreKnown DEF MemoryInv, BootTypeOK
<1>3. "tables" \in Names /\ "ept" \in Names
  BY DEF Names
<1> HIDE DEF m1, m2
<1>4. Sound(m1) /\ Grown(mem, m1)
  BY <1>2, <1>3, TablesFacts DEF m1
<1>5. Sound(m2) /\ Grown(m1, m2)
  BY <1>2, <1>3, <1>4, TablesFacts DEF m2
<1>6. Sound(nn) /\ mem.regions \subseteq nn.regions /\ (mem.failed => nn.failed)
  BY <1>4, <1>5 DEF Grown
<1>7. /\ bsp.at \notin {"loader", "start", "pm", "panic"} \cup Woken
      /\ bsp'.at \notin {"loader", "stage2", "start", "pm"} \cup Woken
      /\ bsp'.at # "map" /\ bsp'.at # "args" /\ ncpus' \in 0..(MAX_CPUS + 1) /\ writes' = writes \cup {}
  BY <1>1, <1>2 DEF Woken
<1> HIDE DEF nn
<1> QED BY <1>1, <1>6, <1>7, LoadKeeps

\* The monitor's memory is looked at: it is not to be had after any failure.
LEMMA MonitorsKeep == ASSUME BootConstants, BootTypeOK, MemoryInv, load_all_vmms PROVE MemoryInv'
<1> DEFINE by == <<"vmm", bsp.cpu, 0>>
           m1 == malloc_align(mem, by, MB2, MB2)
           m2 == calloc_align(m1, <<"vmcs", bsp.cpu, 0>>, 1, 1)
           m3 == calloc_align(m2, <<"vmxon", bsp.cpu, 0>>, 1, 1)
           size == image.vmm + VM_STACK_SIZE
           wrote == Wrote(by, m1.got, size)
<1>1. /\ UNCHANGED <<machine, image, ncpus, last_used_addr>> /\ bsp.at = "vmm"
      /\ \/ mem' = m1 /\ bsp'.at = "panic" /\ writes' = writes
         \/ mem' = m3 /\ bsp'.at = "panic" /\ writes' = writes \cup {wrote}
         \/ /\ mem' = m3 /\ bsp'.at \in {"vmm", "map"} /\ writes' = writes \cup {wrote}
            /\ m1.got # 0 /\ ~(size > MB2)
  BY DEF load_all_vmms, Goto, Stop, BootTypeOK
<1>2. SizesKnown /\ Sound(mem) /\ ncpus \in 0..(MAX_CPUS + 1) /\ bsp.cpu \in Nat
  BY <1>1, SizesAreKnown DEF MemoryInv, BootTypeOK
<1>3. /\ by \in Names \X Nat \X Nat /\ <<"vmcs", bsp.cpu, 0>> \in Names \X Nat \X Nat
      /\ <<"vmxon", bsp.cpu, 0>> \in Names \X Nat \X Nat
  BY <1>2 DEF Names
<1>4. /\ MB2 \in Nat /\ MB2 <= MB2 /\ MB2 \in {1, MB2} /\ 1 \in {1, MB2} /\ 1 \in Nat /\ 1 <= MB2
      /\ size \in Nat /\ machine.size \in Nat
  BY <1>2 DEF SizesKnown
<1>5. /\ m2 = malloc_align(m1, <<"vmcs", bsp.cpu, 0>>, 1, 1)
      /\ m3 = malloc_align(m2, <<"vmxon", bsp.cpu, 0>>, 1, 1)
  BY DEF calloc_align
<1> HIDE DEF by, m1, m2, m3, size
<1>6. /\ Sound(m1) /\ Grown(mem, m1)
      /\ m1.got # 0 => [by |-> by, at |-> m1.got, n |-> MB2] \in m1.regions /\ (m1.failed => mem.failed)
      /\ mem.failed => m1.got = 0
  BY <1>2, <1>3, <1>4, MallocFacts DEF m1
<1>7. /\ Sound(m2) /\ Grown(m1, m2)
      /\ m2.got # 0 /\ m2.failed => m1.failed
      /\ m2.got = 0 => m2.free >= machine.size
  <2>1. Sound(m1)
    BY <1>6
  <2> QED BY <1>2, <1>3, <1>5, <2>1, PageFacts
<1>8. /\ Sound(m3) /\ Grown(m2, m3)
      /\ m3.got # 0 /\ m3.failed => m2.failed
      /\ m3.got = 0 => m3.free >= machine.size
  <2>1. Sound(m2)
    BY <1>7
  <2> QED BY <1>2, <1>3, <1>5, <2>1, PageFacts
<1>9. m2.free \in Nat /\ m3.free \in Nat /\ m2.free <= m3.free
  BY <1>7, <1>8 DEF Sound, Allocators, Grown
<1>10. m1.got # 0 /\ m3.failed => m3.free >= machine.size
  BY <1>4, <1>6, <1>7, <1>8, <1>9
<1>11. /\ mem.regions \subseteq m1.regions /\ (mem.failed => m1.failed)
       /\ mem.regions \subseteq m3.regions /\ (mem.failed => m3.failed) /\ m1.regions \subseteq m3.regions
  BY <1>6, <1>7, <1>8 DEF Grown
<1>12. ASSUME m1.got # 0, ~(size > MB2) PROVE OwnPlace(wrote, m3)
  <2>1. [by |-> by, at |-> m1.got, n |-> MB2] \in m3.regions /\ m1.got \in Nat
    BY <1>6, <1>11, <1>12 DEF Sound, Allocators
  <2> QED BY <1>4, <1>12, <2>1 DEF OwnPlace, Wrote, Inside
<1>13. /\ bsp.at \notin {"loader", "start", "pm", "panic"} \cup Woken
       /\ bsp'.at \notin {"loader", "stage2", "start", "pm"} \cup Woken
       /\ bsp'.at # "args" /\ ncpus' \in 0..(MAX_CPUS + 1)
  BY <1>1, <1>2 DEF Woken
<1> HIDE DEF wrote
<1>14. CASE mem' = m1 /\ bsp'.at = "panic" /\ writes' = writes
  <2>1. writes' = writes \cup {}
    BY <1>14
  <2> QED BY <1>1, <1>11, <1>13, <1>14, <2>1, LoadKeeps
<1>15. CASE mem' = m3 /\ bsp'.at = "panic" /\ writes' = writes \cup {wrote}
  BY <1>1, <1>11, <1>13, <1>15, LoadKeeps
<1>16. CASE /\ mem' = m3 /\ bsp'.at \in {"vmm", "map"} /\ writes' = writes \cup {wrote}
            /\ m1.got # 0 /\ ~(size > MB2)
  <2>1. \A w \in {wrote} : OwnPlace(w, m3)
    BY <1>12, <1>16
  <2> QED BY <1>1, <1>8, <1>10, <1>11, <1>13, <1>16, <2>1, LoadKeeps
<1> QED BY <1>1, <1>14, <1>15, <1>16

\* The tables of the first monitor are not to be had after a failure.
LEMMA MapsKeep == ASSUME BootConstants, BootTypeOK, MemoryInv, map_all_vmms PROVE MemoryInv'
<1> DEFINE nn == AllocTables(mem, <<"vmm_map", bsp.cpu, 0>>, Tables)
<1>1. /\ UNCHANGED <<machine, image, writes, ncpus, last_used_addr>> /\ bsp.at = "map" /\ mem' = nn
      /\ bsp'.at = "panic" \/ (bsp'.at \in {"args", "map"} /\ nn.got # 0)
  BY DEF map_all_vmms, map_memory, Goto, Stop, BootTypeOK
<1>2. SizesKnown /\ Sound(mem) /\ ncpus \in 0..(MAX_CPUS + 1) /\ bsp.cpu \in Nat /\ "vmm_map" \in Names
  BY <1>1, SizesAreKnown DEF MemoryInv, BootTypeOK, Names
<1> HIDE DEF nn
<1>3. /\ Sound(nn) /\ Grown(mem, nn)
      /\ nn.got # 0 => mem.free < machine.size /\ (nn.failed => mem.failed)
  <2>1. nn = AllocTables(mem, <<"vmm_map", bsp.cpu, 0>>, Tables)
    BY DEF nn
  <2>2. Sound(nn) /\ Grown(mem, nn)
    BY <1>2, <2>1, TablesFacts
  <2>3. nn.got # 0 => mem.free < machine.size /\ (nn.failed => mem.failed)
    BY <1>2, <2>1, TablesFacts
  <2> QED BY <2>2, <2>3
<1>4. mem.free \in Nat /\ machine.size \in Nat /\ (mem.failed => mem.free >= machine.size)
  BY <1>1, <1>2 DEF Sound, Allocators, SizesKnown, MemoryInv, LastPages
<1>5. nn.got # 0 => ~nn.failed
  BY <1>3, <1>4
<1>6. /\ bsp.at \notin {"loader", "start", "pm", "panic"} \cup Woken
      /\ bsp'.at \notin {"loader", "stage2", "start", "pm"} \cup Woken
      /\ ncpus' \in 0..(MAX_CPUS + 1) /\ writes' = writes \cup {}
  BY <1>1, <1>2 DEF Woken
<1>7. mem.regions \subseteq nn.regions /\ (mem.failed => nn.failed)
  BY <1>3 DEF Grown
<1> QED BY <1>1, <1>3, <1>5, <1>6, <1>7, LoadKeeps

\* From there on nothing is allocated.
LEMMA MemoryStays ==
  ASSUME MemoryInv, UNCHANGED <<machine, image, mem, writes, ncpus>>,
         \/ UNCHANGED <<bsp, last_used_addr>>
         \/ /\ bsp.at \in {"args", "start", "pm"} \cup Woken /\ bsp'.at \in {"start", "pm"} \cup Woken
            /\ last_used_addr' \in {last_used_addr, mem.free}
  PROVE  MemoryInv'
<1>1. CASE UNCHANGED <<bsp, last_used_addr>>
  BY <1>1 DEF MemoryInv, LastPages, Sound, StageEnd, OwnPlace, BeyondMax
<1>2. CASE /\ bsp.at \in {"args", "start", "pm"} \cup Woken /\ bsp'.at \in {"start", "pm"} \cup Woken
           /\ last_used_addr' \in {last_used_addr, mem.free}
  <2>1. /\ bsp.at \notin {"loader", "stage2", "panic"} /\ bsp'.at \notin {"loader", "stage2", "panic", "map"}
    BY <1>2 DEF Woken
  <2>2. LastPages'
    BY <1>2, <2>1 DEF MemoryInv, LastPages
  <2>3. Sound(mem)' /\ image'.modules <= MB2
    BY <2>1 DEF MemoryInv, Sound, StageEnd
  <2>4. (\A w \in writes : w.by # Of("stage2") => OwnPlace(w, mem))'
    <3>1. \A w \in writes : w.by # Of("stage2") => OwnPlace(w, mem)
      BY <1>2, <2>1 DEF MemoryInv, LastPages
    <3> QED BY <3>1 DEF OwnPlace, BeyondMax, Of
  <2>5. last_used_addr' # 0 => last_used_addr' = mem'.free
    BY <1>2 DEF MemoryInv
  <2> QED BY <1>2, <2>1, <2>2, <2>3, <2>4, <2>5 DEF MemoryInv
<1> QED BY <1>1, <1>2

\* PM is told the address, and the APs start.
LEMMA StartKeeps == ASSUME BootTypeOK, MemoryInv, set_vm_args \/ Start \/ \E c \in Cpus : RunAp(c) PROVE MemoryInv'
<1>1. CASE set_vm_args
  BY <1>1, MemoryStays DEF set_vm_args
<1>2. CASE Start
  <2>1. /\ KeepMemory /\ bsp.at \in {"start"} \cup Woken /\ bsp'.at \in {"start", "pm"} \cup Woken
    BY <1>2 DEF Start, lapic_startaps, lapic_startup, wait_ready, enter_pm, Goto, BootTypeOK, Woken
  <2> QED BY <2>1, MemoryStays DEF KeepMemory
<1>3. CASE \E c \in Cpus : RunAp(c)
  <2>1. KeepMemory /\ UNCHANGED bsp
    BY <1>3 DEF RunAp, ap_load_cr3, ap_load_stack, vmm_main
  <2> QED BY <2>1, MemoryStays DEF KeepMemory
<1> QED BY <1>1, <1>2, <1>3

\* On every machine and for all images, when PM is told where free memory begins, no
\* allocation has failed, what was handed out is disjoint and below that address, and
\* everything written lies in its own block unless a server with its stack or the bss
\* of INIT is larger than 2 MB; and every AP enters its monitor with what is its own.
THEOREM BootCorrect == ASSUME BootConstants PROVE BootSpec => []BootOK
<1>1. BootInit => MemoryInv
  <2> SUFFICES ASSUME BootInit PROVE MemoryInv
    OBVIOUS
  <2>1. bsp.at = "loader" /\ machine \in Machines /\ image \in Images /\ ncpus = 0 /\ last_used_addr = 0 /\ writes = {}
        /\ mem = [free |-> 0, got |-> 0, regions |-> {}, failed |-> FALSE]
    BY DEF BootInit
  <2>2. ncpus \in 0..(MAX_CPUS + 1)
    BY <2>1 DEF BootConstants
  <2>3. LastPages
    BY <2>1 DEF LastPages, Woken
  <2> QED BY <2>1, <2>2, <2>3 DEF MemoryInv
<1>2. BootTypeOK /\ MemoryInv /\ [BootNext]_bootVars => MemoryInv'
  <2> SUFFICES ASSUME BootTypeOK, MemoryInv, [BootNext]_bootVars PROVE MemoryInv'
    OBVIOUS
  <2>1. CASE UNCHANGED bootVars
    BY <2>1, MemoryStays DEF bootVars
  <2> QED BY <2>1, BootLoaderKeeps, MemoryInitKeeps, MpInitKeeps, MsgAreasKeep, ServersKeep, OthersKeep, EptKeeps,
             MonitorsKeep, MapsKeep, StartKeeps DEF BootNext, Load
<1>3. MemoryInv => BootMemoryUnlessBeyondMax
  <2> SUFFICES ASSUME MemoryInv, last_used_addr # 0 PROVE BootMemoryUnlessBeyondMax
    BY DEF BootMemoryUnlessBeyondMax
  <2>1. bsp.at \in {"start", "pm"} \cup Woken /\ bsp.at \notin {"loader", "stage2", "panic"} /\ last_used_addr = mem.free
    BY DEF MemoryInv, Woken
  <2>2. ~mem.failed /\ Sound(mem)
    BY <2>1 DEF MemoryInv, LastPages
  <2>3. \A w \in writes : w.by # Of("stage2") => OwnPlace(w, mem)
    BY <2>1, <2>2 DEF MemoryInv
  <2> QED BY <2>1, <2>2, <2>3 DEF BootMemoryUnlessBeyondMax, Sound, OwnPlace
<1>4. BootMemoryUnlessBeyondMax /\ ApTakesItsOwn => BootOK
  BY DEF BootOK
<1>5. BootSpec => []BootTypeOK /\ []ApTakesItsOwn
  BY OneWordIsEnough DEF BootConstants
<1> QED BY <1>1, <1>2, <1>3, <1>4, <1>5, PTL DEF BootSpec
=============================================================================
