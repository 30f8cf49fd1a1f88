------------------------------ MODULE ProcMgr ------------------------------
(***************************************************************************)
(* The life of the virtual machines: fork, exec, exit and waitpid between  *)
(* the programs (lib/pm.c), the process manager (vms/pm/main.c) and the    *)
(* virtual machine monitor of every CPU (vmm/main.c, vmm/vmx.c).           *)
(*                                                                         *)
(* PM is one thread, but every other CPU runs beside it: a handler of PM   *)
(* is cut into steps wherever another CPU can see or change something in   *)
(* between.  A process is its CPU.  The ready bitmap of PM is a set here   *)
(* (its word is modelled in module Ipc) and PM's conversation with FS and  *)
(* with drivers is in module Servers.                                      *)
(***************************************************************************)
EXTENDS Integers

CONSTANTS
  Slots,         \* CPUs ALWAYS_BUSY .. ncpus-1, the ones fork can use
  ParentsLeave,  \* may a program that has forked call exit or exec?
  MaxCalls       \* bound: system calls made by all programs together

INIT == 2
CPUs == Slots \union {INIT}

ASSUME ProcMgrAssumption ==
  /\ Slots \subseteq {n \in Nat : n > INIT}
  /\ ParentsLeave \in BOOLEAN
  /\ MaxCalls \in Nat

VARIABLES
  vmm_has_vm, vm_parent, vm_state,   \* struct cpu_info, by CPU
  mem,         \* memory and EPT of the VM: "none", "partial", "built", "freed"
  bitmap,      \* CPUs whose bit is set in msg_ready_bitmap[PM]
  msg_output,  \* outbox of a CPU: [number, arg]
  msg_input,   \* box of a CPU for messages from PM: [number, data]
  pc,          \* what a CPU is doing
  kid,         \* what the last successful fork returned to the program
  forked,      \* has the program on this CPU forked?
  pm,          \* PM: [at, from, child]
  calls        \* system calls left

table == <<vmm_has_vm, vm_parent, vm_state, mem>>
boxes == <<bitmap, msg_output, msg_input>>
progs == <<kid, forked, calls>>
vars == <<table, boxes, progs, pc, pm>>

Lowest(S) == CHOOSE i \in S : \A j \in S : i <= j

NoMsg == [number |-> "none", data |-> 0]
Msg(n, d) == [number |-> n, data |-> d]
Idle == [at |-> "idle", from |-> INIT, child |-> -1]

\* msg_reply (PM, to, number, data): the box is written whatever it holds.
msg_reply(to, number, data) ==
  msg_input' = [msg_input EXCEPT ![to] = Msg(number, data)]
-----------------------------------------------------------------------------
(* The programs, lib/pm.c *)

\* msg_send (PM, number, arg) and what the CPU does next.
Call(c, number, arg, next) ==
  /\ pc[c] = "run" /\ calls > 0
  /\ calls' = calls - 1
  /\ msg_output' = [msg_output EXCEPT ![c] = [number |-> number, arg |-> arg]]
  /\ bitmap' = bitmap \union {c}
  /\ pc' = [pc EXCEPT ![c] = next]
  /\ UNCHANGED <<table, msg_input, pm, kid>>

fork_internal(c) ==
  /\ Call(c, "FORK_IPC", 0, "fork")
  /\ forked' = [forked EXCEPT ![c] = TRUE]

\* waitpid for the child last forked, or for any.
waitpid(c) ==
  /\ \E p \in {kid[c], -1} \ {0} : Call(c, "WAITPID_IPC", p, "wait")
  /\ UNCHANGED forked

\* exit and exec send and then leave the VM with vmcall, as two steps.  INIT is
\* loaded at boot and never calls them.
MayLeave(c) == c # INIT /\ (ParentsLeave \/ ~forked[c])

exit(c) ==
  /\ MayLeave(c)
  /\ Call(c, "EXIT_IPC", 0, "exiting")
  /\ UNCHANGED forked

exec(c) ==
  /\ MayLeave(c)
  /\ Call(c, "EXEC_IPC", 0, "execing")
  /\ UNCHANGED forked

vmcall(c) ==
  /\ pc[c] \in {"exiting", "execing"}
  /\ pc' = [pc EXCEPT ![c] = "vmcall"]
  /\ UNCHANGED <<table, boxes, progs, pm>>

\* msg_receive (PM): takes whatever is in the box.
msg_receive(c) ==
  /\ msg_input[c].number # "none"
  /\ msg_input' = [msg_input EXCEPT ![c].number = "none"]

ForkReturns(c) ==
  /\ pc[c] = "fork"
  /\ msg_receive(c)
  /\ kid' = [kid EXCEPT ![c] = IF msg_input[c].data > 0 THEN msg_input[c].data ELSE @]
  /\ pc' = [pc EXCEPT ![c] = "run"]
  /\ UNCHANGED <<table, bitmap, msg_output, pm, forked, calls>>

WaitReturns(c) ==
  /\ pc[c] = "wait"
  /\ msg_receive(c)
  /\ pc' = [pc EXCEPT ![c] = "run"]
  /\ UNCHANGED <<table, bitmap, msg_output, pm, progs>>
-----------------------------------------------------------------------------
(* The virtual machine monitors, vmm/main.c and host_entry of vmm/vmx.c *)

\* vmlaunch: the VM runs what cpu_info describes, a child of fork or a new
\* program of exec; what it has forked so far is none of its business.
Launch(c) ==
  /\ pc' = [pc EXCEPT ![c] = "run"]
  /\ kid' = [kid EXCEPT ![c] = 0]
  /\ forked' = [forked EXCEPT ![c] = FALSE]

\* vmm_main: wait for PM, then look whether there is a VM to run.
VmmBarrier(c) ==
  /\ pc[c] = "barrier"
  /\ msg_receive(c)
  /\ pc' = [pc EXCEPT ![c] = "check"]
  /\ UNCHANGED <<table, bitmap, msg_output, progs, pm>>

VmmHasVm(c) ==
  /\ pc[c] = "check" /\ vmm_has_vm[c]
  /\ Launch(c)
  /\ UNCHANGED <<table, boxes, pm, calls>>

VmmNoVm(c) ==
  /\ pc[c] = "check" /\ ~vmm_has_vm[c]
  /\ pc' = [pc EXCEPT ![c] = "no_vm"]
  /\ UNCHANGED <<table, boxes, progs, pm>>

VmmFirstVm(c) ==
  /\ pc[c] = "no_vm"
  /\ msg_receive(c)
  /\ Launch(c)
  /\ UNCHANGED <<table, bitmap, msg_output, pm, calls>>

\* host_entry after a vmcall: the message decides between resuming the VM and
\* launching what cpu_info describes now.
HostResume(c) ==
  /\ pc[c] = "vmcall"
  /\ msg_receive(c) /\ msg_input[c].data = -1
  /\ pc' = [pc EXCEPT ![c] = "run"]
  /\ UNCHANGED <<table, bitmap, msg_output, progs, pm>>

HostLaunch(c) ==
  /\ pc[c] = "vmcall"
  /\ msg_receive(c) /\ msg_input[c].data # -1
  /\ Launch(c)
  /\ UNCHANGED <<table, bitmap, msg_output, pm, calls>>
-----------------------------------------------------------------------------
(* The process manager, vm_main of vms/pm/main.c *)

\* msg_check: the lowest bit is cleared; m points into that CPU's outbox, which
\* is read in a later step.
msg_check ==
  /\ pm.at = "idle" /\ bitmap # {}
  /\ pm' = [at |-> "dispatch", from |-> Lowest(bitmap), child |-> -1]
  /\ bitmap' = bitmap \ {Lowest(bitmap)}
  /\ UNCHANGED <<table, msg_output, msg_input, progs, pc>>

m == msg_output[pm.from]

Request(number) == pm.at = "dispatch" /\ m.number = number

find_free_vm == {c \in Slots : ~vmm_has_vm[c]}

\* Mutant: without a free CPU the caller gets no answer.
ForkFullSilent ==
  /\ Request("FORK_IPC") /\ find_free_vm = {}
  /\ pm' = Idle
  /\ UNCHANGED <<table, boxes, progs, pc>>

ForkFull ==
  /\ Request("FORK_IPC") /\ find_free_vm = {}
  /\ pm' = [pm EXCEPT !.at = "parent"]
  /\ UNCHANGED <<table, boxes, progs, pc>>

\* Mutant: the child is answered before it is built.
ForkStartEarlyReply ==
  /\ Request("FORK_IPC") /\ find_free_vm # {}
  /\ LET c == Lowest(find_free_vm) IN
       /\ vmm_has_vm' = [vmm_has_vm EXCEPT ![c] = TRUE]
       /\ vm_parent' = [vm_parent EXCEPT ![c] = pm.from]
       /\ vm_state' = [vm_state EXCEPT ![c] = "RUNNING"]
       /\ mem' = [mem EXCEPT ![c] = "partial"]
       /\ pm' = [pm EXCEPT !.at = "fork", !.child = c]
       /\ msg_reply(c, "FORK_IPC", c)
  /\ UNCHANGED <<bitmap, msg_output, progs, pc>>

\* local_fork up to the state of the child: vmm_has_vm is set first.
ForkStart ==
  /\ Request("FORK_IPC") /\ find_free_vm # {}
  /\ LET c == Lowest(find_free_vm) IN
       /\ vmm_has_vm' = [vmm_has_vm EXCEPT ![c] = TRUE]
       /\ vm_parent' = [vm_parent EXCEPT ![c] = pm.from]
       /\ vm_state' = [vm_state EXCEPT ![c] = "RUNNING"]
       /\ mem' = [mem EXCEPT ![c] = "partial"]
       /\ pm' = [pm EXCEPT !.at = "fork", !.child = c]
  /\ UNCHANGED <<boxes, progs, pc>>

\* The rest of local_fork: sections, EPT, descriptors, registers.
ForkBuild ==
  /\ pm.at = "fork"
  /\ mem' = [mem EXCEPT ![pm.child] = "built"]
  /\ pm' = [pm EXCEPT !.at = "child"]
  /\ UNCHANGED <<vmm_has_vm, vm_parent, vm_state, boxes, progs, pc>>

\* Mutant: only the parent is answered.
ForkReplyChildSkips ==
  /\ pm.at = "child"
  /\ pm' = [pm EXCEPT !.at = "parent"]
  /\ UNCHANGED <<table, boxes, progs, pc>>

ForkReplyChild ==
  /\ pm.at = "child"
  /\ msg_reply(pm.child, "FORK_IPC", pm.child)
  /\ pm' = [pm EXCEPT !.at = "parent"]
  /\ UNCHANGED <<table, bitmap, msg_output, progs, pc>>

ForkReplyParent ==
  /\ pm.at = "parent"
  /\ msg_reply(pm.from, "FORK_IPC", pm.child)
  /\ pm' = Idle
  /\ UNCHANGED <<table, bitmap, msg_output, progs, pc>>

\* local_exec: FS is asked for the program; without one the VM goes on.
ExecLoad ==
  /\ Request("EXEC_IPC")
  /\ pm' = [pm EXCEPT !.at = "load"]
  /\ UNCHANGED <<table, boxes, progs, pc>>

ExecNotFound ==
  /\ pm.at = "load"
  /\ msg_reply(pm.from, "EXEC_IPC", -1)
  /\ pm' = Idle
  /\ UNCHANGED <<table, bitmap, msg_output, progs, pc>>

\* load_elf and ept_pmap replace the memory of the VM.
ExecReplace ==
  /\ pm.at = "load"
  /\ mem' = [mem EXCEPT ![pm.from] = "partial"]
  /\ pm' = [pm EXCEPT !.at = "elf"]
  /\ UNCHANGED <<vmm_has_vm, vm_parent, vm_state, boxes, progs, pc>>

ExecDone ==
  /\ pm.at = "elf"
  /\ mem' = [mem EXCEPT ![pm.from] = "built"]
  /\ msg_reply(pm.from, "EXEC_IPC", 0)
  /\ pm' = Idle
  /\ UNCHANGED <<vmm_has_vm, vm_parent, vm_state, bitmap, msg_output, progs, pc>>

\* local_exit: everything the VM held is freed ...
ExitFree ==
  /\ Request("EXIT_IPC")
  /\ mem' = [mem EXCEPT ![pm.from] = "freed"]
  /\ pm' = [pm EXCEPT !.at = "exit"]
  /\ UNCHANGED <<vmm_has_vm, vm_parent, vm_state, boxes, progs, pc>>

\* Mutant: the CPU is released but the waiting parent is not answered.
ExitNotifySilent ==
  /\ pm.at = "exit"
  /\ vmm_has_vm' = [vmm_has_vm EXCEPT ![pm.from] = FALSE]
  /\ pm' = Idle
  /\ UNCHANGED <<vm_parent, vm_state, mem, boxes, progs, pc>>

\* Mutant: the CPU of the parent is released.
ExitNotifyWrongCpu ==
  /\ pm.at = "exit"
  /\ IF vm_state[vm_parent[pm.from]] = "WAIT_CHLD"
     THEN /\ vmm_has_vm' = [vmm_has_vm EXCEPT ![vm_parent[pm.from]] = FALSE]
          /\ msg_reply(vm_parent[pm.from], "WAITPID_IPC", pm.from)
     ELSE UNCHANGED <<vmm_has_vm, msg_input>>
  /\ pm' = Idle
  /\ UNCHANGED <<vm_parent, vm_state, mem, bitmap, msg_output, progs, pc>>

\* Mutant: the parent is answered whether it waits or not.
ExitNotifyAlways ==
  /\ pm.at = "exit"
  /\ vmm_has_vm' = [vmm_has_vm EXCEPT ![pm.from] = FALSE]
  /\ msg_reply(vm_parent[pm.from], "WAITPID_IPC", pm.from)
  /\ pm' = Idle
  /\ UNCHANGED <<vm_parent, vm_state, mem, bitmap, msg_output, progs, pc>>

\* ... then a waiting parent is answered and the CPU released; without one only
\* the exit status is kept.
ExitNotify ==
  /\ pm.at = "exit"
  /\ IF vm_state[vm_parent[pm.from]] = "WAIT_CHLD"
     THEN /\ vmm_has_vm' = [vmm_has_vm EXCEPT ![pm.from] = FALSE]
          /\ msg_reply(vm_parent[pm.from], "WAITPID_IPC", pm.from)
     ELSE UNCHANGED <<vmm_has_vm, msg_input>>
  /\ pm' = Idle
  /\ UNCHANGED <<vm_parent, vm_state, mem, bitmap, msg_output, progs, pc>>

\* local_waitpid: a zombie child is answered at once, a stranger with -1, and
\* otherwise the caller is marked as waiting and gets no answer yet.
Zombies ==
  {c \in Slots : /\ vm_parent[c] = pm.from
                 /\ vm_state[c] = "ZOMBIE"
                 /\ m.arg \in {c, -1}}

WaitpidStep ==
  /\ Request("WAITPID_IPC")
  /\ IF m.arg # -1 /\ vm_parent[m.arg] # pm.from
     THEN /\ msg_reply(pm.from, "WAITPID_IPC", -1)
          /\ UNCHANGED <<vmm_has_vm, vm_state>>
     ELSE IF Zombies # {}
     THEN /\ msg_reply(pm.from, "WAITPID_IPC", Lowest(Zombies))
          /\ vmm_has_vm' = [vmm_has_vm EXCEPT ![Lowest(Zombies)] = FALSE]
          /\ UNCHANGED vm_state
     ELSE /\ vm_state' = [vm_state EXCEPT ![pm.from] = "WAIT_CHLD"]
          /\ UNCHANGED <<vmm_has_vm, msg_input>>
  /\ pm' = Idle
  /\ UNCHANGED <<vm_parent, mem, bitmap, msg_output, progs, pc>>
-----------------------------------------------------------------------------
\* The boot loader gives INIT its VM; PM has just answered the start barrier of
\* every CPU.
Init ==
  /\ vmm_has_vm = [c \in CPUs |-> c = INIT]
  /\ vm_parent = [c \in CPUs |-> 0]
  /\ vm_state = [c \in CPUs |-> "none"]
  /\ mem = [c \in CPUs |-> IF c = INIT THEN "built" ELSE "none"]
  /\ bitmap = {}
  /\ msg_output = [c \in CPUs |-> [number |-> "none", arg |-> 0]]
  /\ msg_input = [c \in CPUs |-> Msg("BARRIER", 0)]
  /\ pc = [c \in CPUs |-> "barrier"]
  /\ kid = [c \in CPUs |-> 0]
  /\ forked = [c \in CPUs |-> FALSE]
  /\ pm = Idle
  /\ calls = MaxCalls

\* The same, once every VMM has looked at vmm_has_vm.
InitBooted ==
  /\ vmm_has_vm = [c \in CPUs |-> c = INIT]
  /\ vm_parent = [c \in CPUs |-> 0]
  /\ vm_state = [c \in CPUs |-> "none"]
  /\ mem = [c \in CPUs |-> IF c = INIT THEN "built" ELSE "none"]
  /\ bitmap = {}
  /\ msg_output = [c \in CPUs |-> [number |-> "none", arg |-> 0]]
  /\ msg_input = [c \in CPUs |-> NoMsg]
  /\ pc = [c \in CPUs |-> IF c = INIT THEN "run" ELSE "no_vm"]
  /\ kid = [c \in CPUs |-> 0]
  /\ forked = [c \in CPUs |-> FALSE]
  /\ pm = Idle
  /\ calls = MaxCalls

Program(c) == fork_internal(c) \/ waitpid(c) \/ exit(c) \/ exec(c)

Monitor(c) ==
  \/ VmmBarrier(c) \/ VmmHasVm(c) \/ VmmNoVm(c) \/ VmmFirstVm(c)
  \/ HostResume(c) \/ HostLaunch(c)

Returns(c) == ForkReturns(c) \/ WaitReturns(c) \/ vmcall(c)

PM ==
  \/ msg_check
  \/ ForkFull \/ ForkStart \/ ForkBuild \/ ForkReplyChild \/ ForkReplyParent
  \/ ExecLoad \/ ExecNotFound \/ ExecReplace \/ ExecDone
  \/ ExitFree \/ ExitNotify
  \/ WaitpidStep

Next == PM \/ \E c \in CPUs : Program(c) \/ Returns(c) \/ Monitor(c)

\* Every CPU keeps executing: PM, the monitors, and a guest inside a call.
Fairness ==
  /\ WF_vars(PM)
  /\ \A c \in CPUs : WF_vars(Returns(c)) /\ WF_vars(Monitor(c))

Spec == InitBooted /\ [][Next]_vars /\ Fairness
BootSpec == Init /\ [][Next]_vars /\ Fairness
-----------------------------------------------------------------------------
Numbers == {"none", "BARRIER", "FORK_IPC", "EXEC_IPC", "EXIT_IPC", "WAITPID_IPC"}

TypeOK ==
  /\ vmm_has_vm \in [CPUs -> BOOLEAN]
  /\ vm_parent \in [CPUs -> CPUs \union {0}]
  /\ vm_state \in [CPUs -> {"none", "RUNNING", "WAIT_CHLD", "ZOMBIE"}]
  /\ mem \in [CPUs -> {"none", "partial", "built", "freed"}]
  /\ bitmap \in SUBSET CPUs
  /\ msg_output \in [CPUs -> [number : Numbers, arg : Slots \union {0, -1}]]
  /\ msg_input \in [CPUs -> [number : Numbers, data : Slots \union {0, -1}]]
  /\ pc \in [CPUs -> {"barrier", "check", "no_vm", "run", "fork", "wait",
                      "exiting", "execing", "vmcall"}]
  /\ kid \in [CPUs -> Slots \union {0}]
  /\ forked \in [CPUs -> BOOLEAN]
  /\ pm \in [at : {"idle", "dispatch", "fork", "child", "parent", "load", "elf", "exit"},
             from : CPUs, child : Slots \union {-1}]
  /\ calls \in Nat

\* find_free_vm only finds CPUs that run nothing: a CPU whose vmm_has_vm is clear
\* has no VM yet, or its VM has asked to exit and been freed.
FreeMeansVacant ==
  \A c \in Slots : ~vmm_has_vm[c] =>
    /\ pc[c] \in {"barrier", "check", "no_vm", "exiting", "vmcall"}
    /\ mem[c] \in {"none", "freed"}

\* A guest only ever executes memory that PM finished building: vmm_main and
\* host_entry enter a VM only after local_fork or local_exec is through with it.
\* (A guest on its way to its exit vmcall is no longer counted.)
RunsOnlyBuilt ==
  \A c \in CPUs : pc[c] \in {"run", "fork", "wait"} => mem[c] = "built"

\* A VMM whose vmm_has_vm is set enters a VM that is there: the field answers
\* "Does this VMM have any VM to run?" (include/cpu.h:221).
HasVmToRun ==
  [][\A c \in CPUs :
       vmm_has_vm[c] /\ (VmmHasVm(c) \/ VmmFirstVm(c) \/ HostLaunch(c))
         => mem[c] = "built"]_vars

\* fork returns -1 or a CPU whose VM is the caller's child, never the answer to
\* something else, unless the caller has waited before: PM never takes WAIT_CHLD
\* back, so the exit of a child may then write into the box as well.
ForkReturnsChild ==
  [][\A c \in CPUs :
       ForkReturns(c) /\ vm_state[c] # "WAIT_CHLD" =>
         /\ msg_input[c].number = "FORK_IPC"
         /\ msg_input[c].data # -1 => vm_parent[msg_input[c].data] = c]_vars

\* Every fork returns, with a child or with -1.
ForkAnswered == \A c \in CPUs : pc[c] = "fork" ~> pc[c] # "fork"

\* PM has built a VM for c, whose monitor has not entered it yet (a new guest on
\* its way out would have its bit set) and is at one of the places S.
BuiltFor(c, S) == pm.at = "child" /\ pm.child = c /\ pc[c] \in S /\ c \notin bitmap
Enters(c) == pc[c] = "run" /\ mem[c] = "built"

\* A child that fork reports gets to run in its finished VM: its monitor enters
\* from wherever it is when PM is through, late at the start, waiting for PM, or
\* still to come back from the guest that exited there; and one that waits for
\* PM takes the message, which is not left for the child's own calls.  A late
\* monitor that saw vmm_has_vm, which is set before the child is built
\* (pm/main.c:389), and entered the half-built VM is not counted.
ForkedChildRunsUnlessEarly ==
  \A c \in Slots :
    /\ BuiltFor(c, {"barrier", "check"}) ~> Enters(c)
    /\ BuiltFor(c, {"no_vm", "exiting", "vmcall"}) ~> Enters(c) /\ msg_input[c].number = "none"

\* p is blocked in waitpid and PM has registered it as waiting.
Registered(p) ==
  /\ pc[p] = "wait" /\ vm_state[p] = "WAIT_CHLD"
  /\ p \notin bitmap /\ (pm.at = "idle" \/ pm.from # p)

\* A parent registered as waiting is woken by the exit of any of its children.
WaiterWoken ==
  \A p \in CPUs : \A c \in Slots :
    (Registered(p) /\ vm_parent[c] = p /\ pc[c] = "exiting" /\ c \in bitmap)
      ~> pc[p] # "wait"

\* waitpid returns once the child it waits for has exited, also when the child
\* was faster than its parent.
WaitpidReturns ==
  \A p \in CPUs : \A c \in Slots :
    (pc[p] = "wait" /\ msg_output[p].arg = c /\ vm_parent[c] = p /\ mem[c] = "freed")
      ~> pc[p] # "wait"
=============================================================================
