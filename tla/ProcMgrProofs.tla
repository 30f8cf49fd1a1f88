--------------------------- MODULE ProcMgrProofs ---------------------------
(***************************************************************************)
(* Proofs about the life of the virtual machines (module ProcMgr), for any *)
(* number of CPUs and any number of calls, from the state after boot.  As  *)
(* long as no program that has forked leaves (ParentsLeave), the table of  *)
(* PM tells the truth and fork returns children of the caller.             *)
(*                                                                         *)
(* The inductive invariant IInv says of every CPU what its program counter *)
(* allows (InsideInv while a program is there, AwayInv while none is), and *)
(* of every CPU that has forked that it has one request and one answer at  *)
(* a time until it is registered as waiting (ReplyInv).  A step touches at *)
(* most two CPUs; lemma Frame covers all the others.                       *)
(***************************************************************************)
EXTENDS ProcMgr, WellFoundedInduction, TLAPS

Inside == {"run", "fork", "wait"}
Away == {"no_vm", "exiting", "execing", "vmcall"}

\* PM has c's request in hand, or still to take up.
InHand(c) == pm.at # "idle" /\ pm.from = c
Pending(c) == c \in bitmap \/ InHand(c)
\* PM is building a VM for c.
Building(c) == pm.at \in {"fork", "child"} /\ pm.child = c
Full(c) == msg_input[c].number # "none"

\* A CPU whose program runs, or waits for an answer.
InsideInv(c) ==
  /\ mem[c] = "built" /\ vmm_has_vm[c] /\ ~Building(c)
  /\ pc[c] = "fork" => forked[c]
  /\ ~forked[c] => /\ ~Full(c)
                   /\ InHand(c) => pm.at = "dispatch"
                   /\ pc[c] = "run" => ~Pending(c)
                   /\ pc[c] = "wait" => msg_output[c].number = "WAITPID_IPC"

\* A CPU that has left its program, or never had one.
AwayInv(c) ==
  /\ c # INIT /\ ~forked[c]
  /\ Full(c) => mem[c] = "built" /\ vmm_has_vm[c] /\ ~Pending(c) /\ ~Building(c)
  /\ Building(c) => /\ ~Pending(c) /\ vmm_has_vm[c]
                    /\ pm.at = "child" => mem[c] = "built"
  /\ Pending(c) => vmm_has_vm[c] /\ pc[c] # "no_vm"
  /\ c \in bitmap => mem[c] = "built"
  /\ InHand(c) => /\ pm.at \in {"dispatch", "load", "elf", "exit"}
                  /\ pm.at \in {"dispatch", "load"} => mem[c] = "built"
                  /\ pm.at = "exit" => mem[c] = "freed" /\ msg_output[c].number = "EXIT_IPC"
                  /\ pm.at = "elf" => mem[c] = "partial"
                  /\ pm.at \in {"load", "elf"} => msg_output[c].number = "EXEC_IPC"
  /\ pc[c] = "exiting" => msg_output[c].number = "EXIT_IPC"
  /\ pc[c] = "execing" => msg_output[c].number = "EXEC_IPC"
  /\ pc[c] = "vmcall" => msg_output[c].number \in {"EXIT_IPC", "EXEC_IPC"}
  /\ (~Full(c) /\ ~Pending(c) /\ ~Building(c)) =>
       mem[c] \in {"none", "freed"} /\ (pc[c] = "no_vm" \/ msg_output[c].number = "EXIT_IPC")

CpuInv(c) ==
  /\ pc[c] \in Inside \union Away
  /\ vm_state[c] # "ZOMBIE"
  /\ msg_output[c].number = "FORK_IPC" => forked[c]
  /\ msg_output[c].number = "WAITPID_IPC" /\ msg_output[c].arg # -1 => forked[c]
  /\ kid[c] # 0 => forked[c]
  /\ forked[c] => /\ pc[c] \in Inside /\ msg_output[c].number \in {"FORK_IPC", "WAITPID_IPC"}
                  /\ InHand(c) => pm.at \in {"dispatch", "fork", "child", "parent"}
  /\ ~forked[c] => ~(c \in bitmap /\ InHand(c))
  /\ pc[c] \in Inside => InsideInv(c)
  /\ pc[c] \in Away => AwayInv(c)

FamilyInv ==
  /\ \A c \in Slots : vmm_has_vm[c] => vm_parent[c] \in CPUs /\ forked[vm_parent[c]]
  /\ pm.at \in {"fork", "child", "parent"} => forked[pm.from]
  /\ pm.at \in {"fork", "child"} => pm.child \in Slots
  /\ pm.at = "dispatch" => pm.child = -1

\* The child of a fork, as its parent hears of it.
ChildOf(c, d) == d # -1 => d \in Slots /\ vm_parent[d] = c /\ vmm_has_vm[d]

\* One request, one answer, until c is registered as waiting.
ReplyInv(c) ==
  (forked[c] /\ vm_state[c] # "WAIT_CHLD") =>
    /\ pc[c] = "run" => ~Full(c) /\ ~Pending(c)
    /\ Pending(c) => ~Full(c)
    /\ ~(c \in bitmap /\ InHand(c))
    /\ pc[c] = "fork" => msg_output[c].number = "FORK_IPC"
    /\ pc[c] = "wait" => msg_output[c].number = "WAITPID_IPC"
    /\ InHand(c) /\ pm.at \in {"fork", "child", "parent"} => pc[c] = "fork" /\ ChildOf(c, pm.child)
    /\ Full(c) /\ pc[c] = "fork" =>
         msg_input[c].number = "FORK_IPC" /\ ChildOf(c, msg_input[c].data)

IInv ==
  /\ TypeOK /\ FamilyInv
  /\ \A c \in CPUs : CpuInv(c)
  /\ \A c \in CPUs : ReplyInv(c)

\* What the invariants say of d does not change: its own part of the tables and
\* boxes, what PM is doing for it, and the children it may hear of.
Same(d) ==
  /\ pc'[d] = pc[d] /\ mem'[d] = mem[d] /\ vmm_has_vm'[d] = vmm_has_vm[d]
  /\ vm_state'[d] = vm_state[d] /\ forked'[d] = forked[d] /\ kid'[d] = kid[d]
  /\ msg_output'[d] = msg_output[d] /\ msg_input'[d] = msg_input[d]
  /\ d \in bitmap' <=> d \in bitmap
SamePm(d) ==
  /\ InHand(d)' <=> InHand(d)
  /\ Building(d)' <=> Building(d)
  /\ InHand(d) \/ Building(d) => pm'.at = pm.at /\ pm'.child = pm.child
KeepsChildren(d) ==
  vm_state[d] # "WAIT_CHLD" =>
    \A e \in Slots : vm_parent[e] = d /\ vmm_has_vm[e] => vm_parent'[e] = d /\ vmm_has_vm'[e]
-----------------------------------------------------------------------------
\* The initial states satisfy the inductive invariant.
LEMMA InitIInv == InitBooted => IInv
<1> SUFFICES ASSUME InitBooted PROVE IInv
  OBVIOUS
<1> USE ProcMgrAssumption DEF InitBooted, CPUs, INIT, Idle, NoMsg
<1>1. TypeOK
  BY DEF TypeOK, Numbers
<1>2. FamilyInv
  <2>1. ASSUME NEW c \in Slots PROVE ~vmm_has_vm[c]
    <3>1. c # INIT /\ c \in CPUs
      OBVIOUS
    <3> QED BY <3>1, Zenon
  <2> QED BY <2>1 DEF FamilyInv
<1>3. ASSUME NEW c \in CPUs PROVE CpuInv(c) /\ ReplyInv(c)
  BY <1>3, ZenonT(60)
  DEF CpuInv, ReplyInv, InsideInv, AwayInv, Full, Pending, InHand, Building, Inside, Away
<1> QED BY <1>1, <1>2, <1>3 DEF IInv

\* A step that does not touch d keeps what the invariants say of d.
LEMMA Frame ==
  ASSUME TypeOK, NEW d \in CPUs, CpuInv(d), ReplyInv(d), Same(d), SamePm(d), KeepsChildren(d)
  PROVE  CpuInv(d)' /\ ReplyInv(d)'
<1>1. CpuInv(d)'
  BY DEF Same, SamePm, CpuInv, InsideInv, AwayInv, Full, Pending, Inside, Away
<1>2. ReplyInv(d)'
  <2>1. msg_input[d].data \in Slots \union {0, -1} /\ pm.child \in Slots \union {-1}
    BY DEF TypeOK
  <2> QED
    BY <2>1 DEF Same, SamePm, KeepsChildren, ReplyInv, ChildOf, Full, Pending
<1> QED BY <1>1, <1>2

\* A program calls fork: from now on it has forked.
LEMMA ForkCall ==
  ASSUME IInv, NEW c \in CPUs, fork_internal(c)
  PROVE  IInv'
<1> USE ProcMgrAssumption DEF CPUs, INIT, fork_internal, Call, table
<1>1. TypeOK'
  BY DEF IInv, TypeOK, Numbers
<1>2. FamilyInv'
  BY DEF IInv, TypeOK, FamilyInv
<1>3. ASSUME NEW d \in CPUs, d # c PROVE CpuInv(d)' /\ ReplyInv(d)'
  <2>1. Same(d)
    BY <1>3 DEF IInv, TypeOK, Same
  <2>2. SamePm(d) /\ KeepsChildren(d)
    BY DEF SamePm, KeepsChildren, InHand, Building
  <2> QED BY <2>1, <2>2, Frame DEF IInv
<1>4. CpuInv(c)' /\ ReplyInv(c)'
  <2>1. CpuInv(c) /\ ReplyInv(c)
    BY DEF IInv
  <2>2. /\ pm' = pm /\ mem' = mem /\ vmm_has_vm' = vmm_has_vm /\ vm_state' = vm_state
        /\ vm_parent' = vm_parent
        /\ pc[c] = "run" /\ pc'[c] = "fork" /\ msg_output'[c].number = "FORK_IPC"
        /\ bitmap' = bitmap \union {c}
        /\ msg_input' = msg_input /\ forked'[c] /\ kid' = kid
    BY DEF IInv, TypeOK
  <2>3. CpuInv(c)'
    BY <2>1, <2>2 DEF CpuInv, InsideInv, AwayInv, Full, Pending, InHand, Building, Inside, Away
  <2> QED BY <2>1, <2>2, <2>3, ZenonT(60)
    DEF ReplyInv, ChildOf, CpuInv, InsideInv, AwayInv, Full, Pending, InHand, Inside, Away
<1> QED BY <1>1, <1>2, <1>3, <1>4 DEF IInv

\* A program calls waitpid.
LEMMA WaitCall ==
  ASSUME IInv, NEW c \in CPUs, waitpid(c)
  PROVE  IInv'
<1> USE ProcMgrAssumption DEF CPUs, INIT, waitpid, Call, table
<1>1. TypeOK'
  BY DEF IInv, TypeOK, Numbers
<1>2. FamilyInv'
  BY DEF IInv, TypeOK, FamilyInv
<1>3. ASSUME NEW d \in CPUs, d # c PROVE CpuInv(d)' /\ ReplyInv(d)'
  <2>1. Same(d)
    BY <1>3 DEF IInv, TypeOK, Same
  <2>2. SamePm(d) /\ KeepsChildren(d)
    BY DEF SamePm, KeepsChildren, InHand, Building
  <2> QED BY <2>1, <2>2, Frame DEF IInv
<1>4. CpuInv(c)' /\ ReplyInv(c)'
  <2>1. CpuInv(c) /\ ReplyInv(c)
    BY DEF IInv
  <2>2. /\ pm' = pm /\ mem' = mem /\ vmm_has_vm' = vmm_has_vm /\ vm_state' = vm_state
        /\ vm_parent' = vm_parent
        /\ pc[c] = "run" /\ pc'[c] = "wait" /\ msg_output'[c].number = "WAITPID_IPC"
        /\ (msg_output'[c].arg = -1 \/ kid[c] # 0) /\ bitmap' = bitmap \union {c}
        /\ msg_input' = msg_input /\ forked' = forked /\ kid' = kid
    BY DEF IInv, TypeOK
  <2>3. CpuInv(c)'
    BY <2>1, <2>2 DEF CpuInv, InsideInv, AwayInv, Full, Pending, InHand, Building, Inside, Away
  <2> QED BY <2>1, <2>2, <2>3, ZenonT(60)
    DEF ReplyInv, ChildOf, CpuInv, InsideInv, AwayInv, Full, Pending, InHand, Inside, Away
<1> QED BY <1>1, <1>2, <1>3, <1>4 DEF IInv

\* A program calls exit, which no program that has forked does.
LEMMA ExitCall ==
  ASSUME IInv, NEW c \in CPUs, exit(c), ParentsLeave = FALSE
  PROVE  IInv'
<1> USE ProcMgrAssumption DEF CPUs, INIT, exit, MayLeave, Call, table
<1>1. TypeOK'
  BY DEF IInv, TypeOK, Numbers
<1>2. FamilyInv'
  BY DEF IInv, TypeOK, FamilyInv
<1>3. ASSUME NEW d \in CPUs, d # c PROVE CpuInv(d)' /\ ReplyInv(d)'
  <2>1. Same(d)
    BY <1>3 DEF IInv, TypeOK, Same
  <2>2. SamePm(d) /\ KeepsChildren(d)
    BY DEF SamePm, KeepsChildren, InHand, Building
  <2> QED BY <2>1, <2>2, Frame DEF IInv
<1>4. CpuInv(c)' /\ ReplyInv(c)'
  <2>1. CpuInv(c) /\ ReplyInv(c)
    BY DEF IInv
  <2>2. /\ pm' = pm /\ mem' = mem /\ vmm_has_vm' = vmm_has_vm /\ vm_state' = vm_state
        /\ vm_parent' = vm_parent
        /\ pc[c] = "run" /\ pc'[c] = "exiting" /\ msg_output'[c].number = "EXIT_IPC"
        /\ bitmap' = bitmap \union {c}
        /\ msg_input' = msg_input /\ forked' = forked /\ kid' = kid /\ ~forked[c] /\ c # INIT
    BY DEF IInv, TypeOK
  <2>3. CpuInv(c)'
    BY <2>1, <2>2 DEF CpuInv, InsideInv, AwayInv, Full, Pending, InHand, Building, Inside, Away
  <2> QED BY <2>1, <2>2, <2>3, ZenonT(60)
    DEF ReplyInv, ChildOf, CpuInv, InsideInv, AwayInv, Full, Pending, InHand, Inside, Away
<1> QED BY <1>1, <1>2, <1>3, <1>4 DEF IInv

\* A program calls exec, which no program that has forked does.
LEMMA ExecCall ==
  ASSUME IInv, NEW c \in CPUs, exec(c), ParentsLeave = FALSE
  PROVE  IInv'
<1> USE ProcMgrAssumption DEF CPUs, INIT, exec, MayLeave, Call, table
<1>1. TypeOK'
  BY DEF IInv, TypeOK, Numbers
<1>2. FamilyInv'
  BY DEF IInv, TypeOK, FamilyInv
<1>3. ASSUME NEW d \in CPUs, d # c PROVE CpuInv(d)' /\ ReplyInv(d)'
  <2>1. Same(d)
    BY <1>3 DEF IInv, TypeOK, Same
  <2>2. SamePm(d) /\ KeepsChildren(d)
    BY DEF SamePm, KeepsChildren, InHand, Building
  <2> QED BY <2>1, <2>2, Frame DEF IInv
<1>4. CpuInv(c)' /\ ReplyInv(c)'
  <2>1. CpuInv(c) /\ ReplyInv(c)
    BY DEF IInv
  <2>2. /\ pm' = pm /\ mem' = mem /\ vmm_has_vm' = vmm_has_vm /\ vm_state' = vm_state
        /\ vm_parent' = vm_parent
        /\ pc[c] = "run" /\ pc'[c] = "execing" /\ msg_output'[c].number = "EXEC_IPC"
        /\ bitmap' = bitmap \union {c}
        /\ msg_input' = msg_input /\ forked' = forked /\ kid' = kid /\ ~forked[c] /\ c # INIT
    BY DEF IInv, TypeOK
  <2>3. CpuInv(c)'
    BY <2>1, <2>2, ZenonT(60)
      DEF CpuInv, InsideInv, AwayInv, Full, Pending, InHand, Building, Inside, Away
  <2> QED BY <2>1, <2>2, <2>3, ZenonT(60)
    DEF ReplyInv, ChildOf, CpuInv, InsideInv, AwayInv, Full, Pending, InHand, Inside, Away
<1> QED BY <1>1, <1>2, <1>3, <1>4 DEF IInv

\* The vmcall after exit or exec.
LEMMA VmcallStep ==
  ASSUME IInv, NEW c \in CPUs, vmcall(c)
  PROVE  IInv'
<1> USE ProcMgrAssumption DEF CPUs, INIT, vmcall, table, boxes, progs
<1>1. TypeOK'
  BY DEF IInv, TypeOK, Numbers
<1>2. FamilyInv'
  BY DEF IInv, TypeOK, FamilyInv
<1>3. ASSUME NEW d \in CPUs, d # c PROVE CpuInv(d)' /\ ReplyInv(d)'
  <2>1. Same(d)
    BY <1>3 DEF IInv, TypeOK, Same
  <2>2. SamePm(d) /\ KeepsChildren(d)
    BY DEF SamePm, KeepsChildren, InHand, Building
  <2> QED BY <2>1, <2>2, Frame DEF IInv
<1>4. CpuInv(c)' /\ ReplyInv(c)'
  <2>1. CpuInv(c) /\ ReplyInv(c)
    BY DEF IInv
  <2>2. /\ pm' = pm /\ mem' = mem /\ vmm_has_vm' = vmm_has_vm /\ vm_state' = vm_state
        /\ vm_parent' = vm_parent
        /\ pc[c] \in {"exiting", "execing"} /\ pc'[c] = "vmcall"
        /\ bitmap' = bitmap /\ msg_output' = msg_output /\ msg_input' = msg_input
        /\ forked' = forked /\ kid' = kid
    BY DEF IInv, TypeOK
  <2>3. CpuInv(c)'
    BY <2>1, <2>2, ZenonT(60)
      DEF CpuInv, InsideInv, AwayInv, Full, Pending, InHand, Building, Inside, Away
  <2> QED BY <2>1, <2>2, <2>3, ZenonT(60)
    DEF ReplyInv, ChildOf, CpuInv, InsideInv, AwayInv, Full, Pending, InHand, Inside, Away
<1> QED BY <1>1, <1>2, <1>3, <1>4 DEF IInv

\* fork returns.
LEMMA ForkReturn ==
  ASSUME IInv, NEW c \in CPUs, ForkReturns(c)
  PROVE  IInv'
<1> USE ProcMgrAssumption DEF CPUs, INIT, ForkReturns, msg_receive, table
<1>1. TypeOK'
  BY DEF IInv, TypeOK, Numbers
<1>2. FamilyInv'
  BY DEF IInv, TypeOK, FamilyInv
<1>3. ASSUME NEW d \in CPUs, d # c PROVE CpuInv(d)' /\ ReplyInv(d)'
  <2>1. Same(d)
    BY <1>3 DEF IInv, TypeOK, Same
  <2>2. SamePm(d) /\ KeepsChildren(d)
    BY DEF SamePm, KeepsChildren, InHand, Building
  <2> QED BY <2>1, <2>2, Frame DEF IInv
<1>4. CpuInv(c)' /\ ReplyInv(c)'
  <2>1. CpuInv(c) /\ ReplyInv(c)
    BY DEF IInv
  <2>2. /\ pm' = pm /\ mem' = mem /\ vmm_has_vm' = vmm_has_vm /\ vm_state' = vm_state
        /\ vm_parent' = vm_parent
        /\ pc[c] = "fork" /\ pc'[c] = "run" /\ msg_input[c].number # "none"
        /\ msg_input'[c].number = "none"
        /\ bitmap' = bitmap /\ msg_output' = msg_output
        /\ forked' = forked
    BY DEF IInv, TypeOK
  <2>3. CpuInv(c)'
    BY <2>1, <2>2 DEF CpuInv, InsideInv, AwayInv, Full, Pending, InHand, Building, Inside, Away
  <2> QED BY <2>1, <2>2, <2>3, ZenonT(60)
    DEF ReplyInv, ChildOf, CpuInv, InsideInv, AwayInv, Full, Pending, InHand, Inside, Away
<1> QED BY <1>1, <1>2, <1>3, <1>4 DEF IInv

\* waitpid returns.
LEMMA WaitReturn ==
  ASSUME IInv, NEW c \in CPUs, WaitReturns(c)
  PROVE  IInv'
<1> USE ProcMgrAssumption DEF CPUs, INIT, WaitReturns, msg_receive, table, progs
<1>1. TypeOK'
  BY DEF IInv, TypeOK, Numbers
<1>2. FamilyInv'
  BY DEF IInv, TypeOK, FamilyInv
<1>3. ASSUME NEW d \in CPUs, d # c PROVE CpuInv(d)' /\ ReplyInv(d)'
  <2>1. Same(d)
    BY <1>3 DEF IInv, TypeOK, Same
  <2>2. SamePm(d) /\ KeepsChildren(d)
    BY DEF SamePm, KeepsChildren, InHand, Building
  <2> QED BY <2>1, <2>2, Frame DEF IInv
<1>4. CpuInv(c)' /\ ReplyInv(c)'
  <2>1. CpuInv(c) /\ ReplyInv(c)
    BY DEF IInv
  <2>2. /\ pm' = pm /\ mem' = mem /\ vmm_has_vm' = vmm_has_vm /\ vm_state' = vm_state
        /\ vm_parent' = vm_parent
        /\ pc[c] = "wait" /\ pc'[c] = "run" /\ msg_input[c].number # "none"
        /\ msg_input'[c].number = "none"
        /\ bitmap' = bitmap /\ msg_output' = msg_output
        /\ forked' = forked /\ kid' = kid
    BY DEF IInv, TypeOK
  <2>3. CpuInv(c)'
    BY <2>1, <2>2 DEF CpuInv, InsideInv, AwayInv, Full, Pending, InHand, Building, Inside, Away
  <2> QED BY <2>1, <2>2, <2>3, ZenonT(60)
    DEF ReplyInv, ChildOf, CpuInv, InsideInv, AwayInv, Full, Pending, InHand, Inside, Away
<1> QED BY <1>1, <1>2, <1>3, <1>4 DEF IInv

\* A monitor enters its first VM: a message of PM says that there is one.
LEMMA FirstVm ==
  ASSUME IInv, NEW c \in CPUs, VmmFirstVm(c)
  PROVE  IInv'
<1> USE ProcMgrAssumption DEF CPUs, INIT, VmmFirstVm, msg_receive, Launch, table
<1>1. TypeOK'
  BY DEF IInv, TypeOK, Numbers
<1>2. FamilyInv'
  BY DEF IInv, TypeOK, FamilyInv, CpuInv, AwayInv, InHand, Inside, Away, Full
<1>3. ASSUME NEW d \in CPUs, d # c PROVE CpuInv(d)' /\ ReplyInv(d)'
  <2>1. Same(d)
    BY <1>3 DEF IInv, TypeOK, Same
  <2>2. SamePm(d) /\ KeepsChildren(d)
    BY DEF SamePm, KeepsChildren, InHand, Building
  <2> QED BY <2>1, <2>2, Frame DEF IInv
<1>4. CpuInv(c)' /\ ReplyInv(c)'
  <2>1. CpuInv(c) /\ ReplyInv(c)
    BY DEF IInv
  <2>2. /\ pm' = pm /\ mem' = mem /\ vmm_has_vm' = vmm_has_vm /\ vm_state' = vm_state
        /\ vm_parent' = vm_parent
        /\ pc[c] = "no_vm" /\ pc'[c] = "run" /\ msg_input[c].number # "none"
        /\ msg_input'[c].number = "none"
        /\ bitmap' = bitmap /\ msg_output' = msg_output
        /\ ~forked'[c] /\ kid'[c] = 0
    BY DEF IInv, TypeOK
  <2>3. CpuInv(c)'
    BY <2>1, <2>2 DEF CpuInv, InsideInv, AwayInv, Full, Pending, InHand, Building, Inside, Away
  <2> QED BY <2>1, <2>2, <2>3
    DEF ReplyInv, ChildOf, CpuInv, InsideInv, AwayInv, Full, Pending, InHand, Inside, Away
<1> QED BY <1>1, <1>2, <1>3, <1>4 DEF IInv

\* A monitor goes on with a VM whose exec failed.
LEMMA Resume ==
  ASSUME IInv, NEW c \in CPUs, HostResume(c)
  PROVE  IInv'
<1> USE ProcMgrAssumption DEF CPUs, INIT, HostResume, msg_receive, table, progs
<1>1. TypeOK'
  BY DEF IInv, TypeOK, Numbers
<1>2. FamilyInv'
  BY DEF IInv, TypeOK, FamilyInv
<1>3. ASSUME NEW d \in CPUs, d # c PROVE CpuInv(d)' /\ ReplyInv(d)'
  <2>1. Same(d)
    BY <1>3 DEF IInv, TypeOK, Same
  <2>2. SamePm(d) /\ KeepsChildren(d)
    BY DEF SamePm, KeepsChildren, InHand, Building
  <2> QED BY <2>1, <2>2, Frame DEF IInv
<1>4. CpuInv(c)' /\ ReplyInv(c)'
  <2>1. CpuInv(c) /\ ReplyInv(c)
    BY DEF IInv
  <2>2. /\ pm' = pm /\ mem' = mem /\ vmm_has_vm' = vmm_has_vm /\ vm_state' = vm_state
        /\ vm_parent' = vm_parent
        /\ pc[c] = "vmcall" /\ pc'[c] = "run" /\ msg_input[c].number # "none"
        /\ msg_input'[c].number = "none"
        /\ bitmap' = bitmap /\ msg_output' = msg_output
        /\ forked' = forked /\ kid' = kid
    BY DEF IInv, TypeOK
  <2>3. CpuInv(c)'
    BY <2>1, <2>2 DEF CpuInv, InsideInv, AwayInv, Full, Pending, InHand, Building, Inside, Away
  <2> QED BY <2>1, <2>2, <2>3
    DEF ReplyInv, ChildOf, CpuInv, InsideInv, AwayInv, Full, Pending, InHand, Inside, Away
<1> QED BY <1>1, <1>2, <1>3, <1>4 DEF IInv

\* A monitor enters a new VM after exit or exec.
LEMMA Relaunch ==
  ASSUME IInv, NEW c \in CPUs, HostLaunch(c)
  PROVE  IInv'
<1> USE ProcMgrAssumption DEF CPUs, INIT, HostLaunch, msg_receive, Launch, table
<1>1. TypeOK'
  BY DEF IInv, TypeOK, Numbers
<1>2. FamilyInv'
  BY DEF IInv, TypeOK, FamilyInv, CpuInv, AwayInv, InHand, Inside, Away, Full
<1>3. ASSUME NEW d \in CPUs, d # c PROVE CpuInv(d)' /\ ReplyInv(d)'
  <2>1. Same(d)
    BY <1>3 DEF IInv, TypeOK, Same
  <2>2. SamePm(d) /\ KeepsChildren(d)
    BY DEF SamePm, KeepsChildren, InHand, Building
  <2> QED BY <2>1, <2>2, Frame DEF IInv
<1>4. CpuInv(c)' /\ ReplyInv(c)'
  <2>1. CpuInv(c) /\ ReplyInv(c)
    BY DEF IInv
  <2>2. /\ pm' = pm /\ mem' = mem /\ vmm_has_vm' = vmm_has_vm /\ vm_state' = vm_state
        /\ vm_parent' = vm_parent
        /\ pc[c] = "vmcall" /\ pc'[c] = "run" /\ msg_input[c].number # "none"
        /\ msg_input'[c].number = "none"
        /\ bitmap' = bitmap /\ msg_output' = msg_output
        /\ ~forked'[c] /\ kid'[c] = 0
    BY DEF IInv, TypeOK
  <2>3. CpuInv(c)'
    BY <2>1, <2>2 DEF CpuInv, InsideInv, AwayInv, Full, Pending, InHand, Building, Inside, Away
  <2> QED BY <2>1, <2>2, <2>3
    DEF ReplyInv, ChildOf, CpuInv, InsideInv, AwayInv, Full, Pending, InHand, Inside, Away
<1> QED BY <1>1, <1>2, <1>3, <1>4 DEF IInv

\* A set of CPUs has a lowest one, which is what Lowest returns.
LEMMA LowestIn ==
  ASSUME NEW S \in SUBSET Nat, S # {}
  PROVE  Lowest(S) \in S
<1> DEFINE R == {ss \in Nat \X Nat : ss[1] < ss[2]}
<1>1. R = OpToRel(<, Nat)
  BY DEF OpToRel
<1>2. IsWellFoundedOn(R, Nat)
  BY <1>1, NatLessThanWellFounded, ZenonT(60)
<1> HIDE DEF R
<1>3. \E x \in S : \A y \in S : ~(<<y, x>> \in R)
  BY <1>2, WFMin, ZenonT(60)
<1>4. PICK x \in S : \A y \in S : ~(<<y, x>> \in R)
  BY <1>3
<1>5. \A y \in S : x <= y
  <2> SUFFICES ASSUME NEW y \in S, y < x PROVE FALSE
    OBVIOUS
  <2>1. <<y, x>> \in Nat \X Nat /\ <<y, x>>[1] = y /\ <<y, x>>[2] = x
    OBVIOUS
  <2>2. <<y, x>> \in R
    BY <2>1 DEF R
  <2> QED BY <1>4, <2>2
<1> QED BY <1>5, ZenonT(60) DEF Lowest

\* PM takes up the request of the lowest CPU.
LEMMA CheckStep ==
  ASSUME IInv, msg_check
  PROVE  IInv'
<1> USE ProcMgrAssumption DEF CPUs, INIT
<1>1. /\ pm.at = "idle" /\ pm' = [at |-> "dispatch", from |-> Lowest(bitmap), child |-> -1]
      /\ bitmap' = bitmap \ {Lowest(bitmap)}
      /\ mem' = mem /\ vmm_has_vm' = vmm_has_vm /\ vm_state' = vm_state /\ vm_parent' = vm_parent
      /\ pc' = pc /\ forked' = forked /\ kid' = kid /\ msg_output' = msg_output
      /\ msg_input' = msg_input /\ calls' = calls
  BY DEF IInv, TypeOK, msg_check, table, progs
<1>2. Lowest(bitmap) \in bitmap
  <2>1. bitmap \in SUBSET Nat /\ bitmap # {}
    BY DEF IInv, TypeOK, msg_check
  <2> QED BY <2>1, LowestIn
<1>3. TypeOK'
  BY <1>1, <1>2, ZenonT(60) DEF IInv, TypeOK, Numbers
<1>4. FamilyInv'
  BY <1>1, <1>2 DEF IInv, TypeOK, FamilyInv
<1>5. ASSUME NEW d \in CPUs, d # Lowest(bitmap) PROVE CpuInv(d)' /\ ReplyInv(d)'
  <2>1. Same(d)
    BY <1>1, <1>2, <1>5 DEF IInv, TypeOK, Same
  <2>2. SamePm(d)
    BY <1>1, <1>2, <1>5 DEF SamePm, InHand, Building
  <2>3. KeepsChildren(d)
    BY <1>1, <1>2, <1>5 DEF IInv, TypeOK, KeepsChildren
  <2> QED BY <2>1, <2>2, <2>3, Frame DEF IInv
<1>6. ASSUME NEW d \in CPUs, d = Lowest(bitmap) PROVE CpuInv(d)' /\ ReplyInv(d)'
  <2>1. CpuInv(d) /\ ReplyInv(d)
    BY DEF IInv
  <2>2. d \in bitmap /\ d \notin bitmap'
    BY <1>1, <1>2, <1>6 DEF IInv, TypeOK
  <2>3. CpuInv(d)'
    BY <1>1, <1>2, <1>6, <2>1, <2>2, ZenonT(60)
      DEF CpuInv, InsideInv, AwayInv, Full, Pending, InHand, Building, Inside, Away
  <2> QED BY <1>1, <1>2, <1>6, <2>1, <2>2, <2>3, ZenonT(60)
    DEF ReplyInv, ChildOf, CpuInv, InsideInv, AwayInv, Full, Pending, InHand, Inside, Away
<1> QED BY <1>3, <1>4, <1>5, <1>6 DEF IInv

\* fork without a free CPU.
LEMMA ForkFullStep ==
  ASSUME IInv, ForkFull
  PROVE  IInv'
<1> USE ProcMgrAssumption DEF CPUs, INIT
<1>1. /\ pm.at = "dispatch" /\ pm' = [at |-> "parent", from |-> pm.from, child |-> pm.child]
      /\ pm.from \in CPUs /\ pm.child = -1 /\ msg_output[pm.from].number = "FORK_IPC"
      /\ mem' = mem /\ vmm_has_vm' = vmm_has_vm /\ vm_state' = vm_state /\ vm_parent' = vm_parent
      /\ pc' = pc /\ forked' = forked /\ kid' = kid /\ bitmap' = bitmap
      /\ msg_output' = msg_output /\ msg_input' = msg_input /\ calls' = calls
  BY DEF IInv, TypeOK, ForkFull, Request, m, table, boxes, progs, FamilyInv
<1>2. TypeOK'
  BY <1>1 DEF IInv, TypeOK, Numbers
<1>3. FamilyInv'
  BY <1>1, ZenonT(60) DEF IInv, TypeOK, FamilyInv, CpuInv
<1>4. ASSUME NEW d \in CPUs, d # pm.from PROVE CpuInv(d)' /\ ReplyInv(d)'
  <2>1. Same(d)
    BY <1>1, <1>4 DEF IInv, TypeOK, Same
  <2>2. SamePm(d)
    BY <1>1, <1>4 DEF SamePm, InHand, Building
  <2>3. KeepsChildren(d)
    BY <1>1, <1>4 DEF IInv, TypeOK, KeepsChildren
  <2> QED BY <2>1, <2>2, <2>3, Frame DEF IInv
<1>5. ASSUME NEW d \in CPUs, d = pm.from PROVE CpuInv(d)' /\ ReplyInv(d)'
  <2>1. CpuInv(d) /\ ReplyInv(d)
    BY DEF IInv
  <2>2. msg_output[d].number = "FORK_IPC"
    BY <1>1, <1>5 DEF IInv, TypeOK
  <2>3. CpuInv(d)'
    BY <1>1, <1>5, <2>1, <2>2, ZenonT(60)
      DEF CpuInv, InsideInv, AwayInv, Full, Pending, InHand, Building, Inside, Away
  <2> QED BY <1>1, <1>5, <2>1, <2>2, <2>3, ZenonT(60)
    DEF ReplyInv, ChildOf, CpuInv, InsideInv, AwayInv, Full, Pending, InHand, Inside, Away
<1> QED BY <1>2, <1>3, <1>4, <1>5 DEF IInv

\* The memory of the child is built.
LEMMA ForkBuildStep ==
  ASSUME IInv, ForkBuild
  PROVE  IInv'
<1> USE ProcMgrAssumption DEF CPUs, INIT
<1>1. /\ pm.at = "fork" /\ pm' = [at |-> "child", from |-> pm.from, child |-> pm.child]
      /\ pm.from \in CPUs /\ pm.child \in Slots /\ mem' = [mem EXCEPT ![pm.child] = "built"]
      /\ vmm_has_vm' = vmm_has_vm /\ vm_state' = vm_state /\ vm_parent' = vm_parent /\ pc' = pc
      /\ forked' = forked /\ kid' = kid /\ bitmap' = bitmap /\ msg_output' = msg_output
      /\ msg_input' = msg_input /\ calls' = calls
  BY DEF IInv, TypeOK, ForkBuild, boxes, progs, FamilyInv
<1>2. TypeOK'
  BY <1>1 DEF IInv, TypeOK, Numbers
<1>3. FamilyInv'
  BY <1>1 DEF IInv, TypeOK, FamilyInv
<1>4. ASSUME NEW d \in CPUs, d # pm.from, d # pm.child PROVE CpuInv(d)' /\ ReplyInv(d)'
  <2>1. Same(d)
    BY <1>1, <1>4 DEF IInv, TypeOK, Same
  <2>2. SamePm(d)
    BY <1>1, <1>4 DEF SamePm, InHand, Building
  <2>3. KeepsChildren(d)
    BY <1>1, <1>4 DEF IInv, TypeOK, KeepsChildren
  <2> QED BY <2>1, <2>2, <2>3, Frame DEF IInv
<1>5. ASSUME NEW d \in CPUs, d = pm.from, d # pm.child PROVE CpuInv(d)' /\ ReplyInv(d)'
  <2>1. CpuInv(d) /\ ReplyInv(d)
    BY DEF IInv
  <2>2. mem'[d] = mem[d]
    BY <1>1, <1>5 DEF IInv, TypeOK
  <2>3. CpuInv(d)'
    BY <1>1, <1>5, <2>1, <2>2, ZenonT(60)
      DEF CpuInv, InsideInv, AwayInv, Full, Pending, InHand, Building, Inside, Away
  <2> QED BY <1>1, <1>5, <2>1, <2>2, <2>3, ZenonT(60)
    DEF ReplyInv, ChildOf, CpuInv, InsideInv, AwayInv, Full, Pending, InHand, Inside, Away
<1>6. ASSUME NEW d \in CPUs, d = pm.child PROVE CpuInv(d)' /\ ReplyInv(d)'
  <2>1. CpuInv(d) /\ ReplyInv(d)
    BY DEF IInv
  <2>2. mem'[d] = "built"
    BY <1>1, <1>6 DEF IInv, TypeOK
  <2>3. CpuInv(d)'
    BY <1>1, <1>6, <2>1, <2>2, ZenonT(60)
      DEF CpuInv, InsideInv, AwayInv, Full, Pending, InHand, Building, Inside, Away
  <2> QED BY <1>1, <1>6, <2>1, <2>2, <2>3, ZenonT(60)
    DEF ReplyInv, ChildOf, CpuInv, InsideInv, AwayInv, Full, Pending, InHand, Inside, Away
<1> QED BY <1>2, <1>3, <1>4, <1>5, <1>6 DEF IInv

\* The child is told to run.
LEMMA ChildReplyStep ==
  ASSUME IInv, ForkReplyChild
  PROVE  IInv'
<1> USE ProcMgrAssumption DEF CPUs, INIT
<1>1. /\ pm.at = "child" /\ pm' = [at |-> "parent", from |-> pm.from, child |-> pm.child]
      /\ pm.from \in CPUs /\ pm.child \in Slots
      /\ msg_input' = [msg_input EXCEPT ![pm.child] = [number |-> "FORK_IPC", data |-> pm.child]]
      /\ mem' = mem /\ vmm_has_vm' = vmm_has_vm /\ vm_state' = vm_state /\ vm_parent' = vm_parent
      /\ pc' = pc /\ forked' = forked /\ kid' = kid /\ bitmap' = bitmap
      /\ msg_output' = msg_output /\ calls' = calls
  BY DEF IInv, TypeOK, ForkReplyChild, msg_reply, Msg, table, progs, FamilyInv
<1>2. TypeOK'
  BY <1>1 DEF IInv, TypeOK, Numbers
<1>3. FamilyInv'
  BY <1>1 DEF IInv, TypeOK, FamilyInv
<1>4. ASSUME NEW d \in CPUs, d # pm.from, d # pm.child PROVE CpuInv(d)' /\ ReplyInv(d)'
  <2>1. Same(d)
    BY <1>1, <1>4 DEF IInv, TypeOK, Same
  <2>2. SamePm(d)
    BY <1>1, <1>4 DEF SamePm, InHand, Building
  <2>3. KeepsChildren(d)
    BY <1>1, <1>4 DEF IInv, TypeOK, KeepsChildren
  <2> QED BY <2>1, <2>2, <2>3, Frame DEF IInv
<1>5. ASSUME NEW d \in CPUs, d = pm.from, d # pm.child PROVE CpuInv(d)' /\ ReplyInv(d)'
  <2>1. CpuInv(d) /\ ReplyInv(d)
    BY DEF IInv
  <2>2. msg_input'[d] = msg_input[d]
    BY <1>1, <1>5 DEF IInv, TypeOK
  <2>3. CpuInv(d)'
    BY <1>1, <1>5, <2>1, <2>2, ZenonT(60)
      DEF CpuInv, InsideInv, AwayInv, Full, Pending, InHand, Building, Inside, Away
  <2> QED BY <1>1, <1>5, <2>1, <2>2, <2>3, ZenonT(60)
    DEF ReplyInv, ChildOf, CpuInv, InsideInv, AwayInv, Full, Pending, InHand, Inside, Away
<1>6. ASSUME NEW d \in CPUs, d = pm.child PROVE CpuInv(d)' /\ ReplyInv(d)'
  <2>1. CpuInv(d) /\ ReplyInv(d)
    BY DEF IInv
  <2>2. msg_input'[d].number = "FORK_IPC" /\ msg_input'[d].data = pm.child
    BY <1>1, <1>6 DEF IInv, TypeOK
  <2>3. CpuInv(d)'
    BY <1>1, <1>6, <2>1, <2>2, ZenonT(60)
      DEF CpuInv, InsideInv, AwayInv, Full, Pending, InHand, Building, Inside, Away
  <2>4. ~forked[d]
    BY <1>1, <1>6, <2>1, ZenonT(60) DEF CpuInv, InsideInv, AwayInv, Building, Inside, Away
  <2> QED BY <1>1, <2>3, <2>4 DEF ReplyInv
<1> QED BY <1>2, <1>3, <1>4, <1>5, <1>6 DEF IInv

\* The parent is told its child, or -1.
LEMMA ParentReplyStep ==
  ASSUME IInv, ForkReplyParent
  PROVE  IInv'
<1> USE ProcMgrAssumption DEF CPUs, INIT
<1>1. /\ pm.at = "parent" /\ pm' = [at |-> "idle", from |-> INIT, child |-> -1]
      /\ pm.from \in CPUs
      /\ msg_input' = [msg_input EXCEPT ![pm.from] = [number |-> "FORK_IPC", data |-> pm.child]]
      /\ mem' = mem /\ vmm_has_vm' = vmm_has_vm /\ vm_state' = vm_state /\ vm_parent' = vm_parent
      /\ pc' = pc /\ forked' = forked /\ kid' = kid /\ bitmap' = bitmap
      /\ msg_output' = msg_output /\ calls' = calls
  BY DEF IInv, TypeOK, ForkReplyParent, msg_reply, Msg, Idle, table, progs, FamilyInv
<1>2. TypeOK'
  BY <1>1 DEF IInv, TypeOK, Numbers
<1>3. FamilyInv'
  BY <1>1 DEF IInv, TypeOK, FamilyInv
<1>4. ASSUME NEW d \in CPUs, d # pm.from PROVE CpuInv(d)' /\ ReplyInv(d)'
  <2>1. Same(d)
    BY <1>1, <1>4 DEF IInv, TypeOK, Same
  <2>2. SamePm(d)
    BY <1>1, <1>4 DEF SamePm, InHand, Building
  <2>3. KeepsChildren(d)
    BY <1>1, <1>4 DEF IInv, TypeOK, KeepsChildren
  <2> QED BY <2>1, <2>2, <2>3, Frame DEF IInv
<1>5. ASSUME NEW d \in CPUs, d = pm.from PROVE CpuInv(d)' /\ ReplyInv(d)'
  <2>1. CpuInv(d) /\ ReplyInv(d)
    BY DEF IInv
  <2>2. msg_input'[d].number = "FORK_IPC" /\ msg_input'[d].data = pm.child
    BY <1>1, <1>5 DEF IInv, TypeOK
  <2>3. CpuInv(d)'
    BY <1>1, <1>5, <2>1, <2>2, ZenonT(60)
      DEF CpuInv, InsideInv, AwayInv, Full, Pending, InHand, Building, Inside, Away
  <2> QED BY <1>1, <1>5, <2>1, <2>2, <2>3, ZenonT(60)
    DEF ReplyInv, ChildOf, CpuInv, InsideInv, AwayInv, Full, Pending, InHand, Inside, Away
<1> QED BY <1>2, <1>3, <1>4, <1>5 DEF IInv

\* PM asks FS for a program.
LEMMA LoadStep ==
  ASSUME IInv, ExecLoad
  PROVE  IInv'
<1> USE ProcMgrAssumption DEF CPUs, INIT
<1>1. /\ pm.at = "dispatch" /\ pm' = [at |-> "load", from |-> pm.from, child |-> pm.child]
      /\ pm.from \in CPUs /\ msg_output[pm.from].number = "EXEC_IPC"
      /\ mem' = mem /\ vmm_has_vm' = vmm_has_vm /\ vm_state' = vm_state /\ vm_parent' = vm_parent
      /\ pc' = pc /\ forked' = forked /\ kid' = kid /\ bitmap' = bitmap
      /\ msg_output' = msg_output /\ msg_input' = msg_input /\ calls' = calls
  BY DEF IInv, TypeOK, ExecLoad, Request, m, table, boxes, progs, FamilyInv
<1>2. TypeOK'
  BY <1>1 DEF IInv, TypeOK, Numbers
<1>3. FamilyInv'
  BY <1>1 DEF IInv, TypeOK, FamilyInv
<1>4. ASSUME NEW d \in CPUs, d # pm.from PROVE CpuInv(d)' /\ ReplyInv(d)'
  <2>1. Same(d)
    BY <1>1, <1>4 DEF IInv, TypeOK, Same
  <2>2. SamePm(d)
    BY <1>1, <1>4 DEF SamePm, InHand, Building
  <2>3. KeepsChildren(d)
    BY <1>1, <1>4 DEF IInv, TypeOK, KeepsChildren
  <2> QED BY <2>1, <2>2, <2>3, Frame DEF IInv
<1>5. ASSUME NEW d \in CPUs, d = pm.from PROVE CpuInv(d)' /\ ReplyInv(d)'
  <2>1. CpuInv(d) /\ ReplyInv(d)
    BY DEF IInv
  <2>2. msg_output[d].number = "EXEC_IPC"
    BY <1>1, <1>5 DEF IInv, TypeOK
  <2>3. CpuInv(d)'
    BY <1>1, <1>5, <2>1, <2>2, ZenonT(60)
      DEF CpuInv, InsideInv, AwayInv, Full, Pending, InHand, Building, Inside, Away
  <2> QED BY <1>1, <1>5, <2>1, <2>2, <2>3, ZenonT(60)
    DEF ReplyInv, ChildOf, CpuInv, InsideInv, AwayInv, Full, Pending, InHand, Inside, Away
<1> QED BY <1>2, <1>3, <1>4, <1>5 DEF IInv

\* There is no such program.
LEMMA NotFoundStep ==
  ASSUME IInv, ExecNotFound
  PROVE  IInv'
<1> USE ProcMgrAssumption DEF CPUs, INIT
<1>1. /\ pm.at = "load" /\ pm' = [at |-> "idle", from |-> INIT, child |-> -1]
      /\ pm.from \in CPUs
      /\ msg_input' = [msg_input EXCEPT ![pm.from] = [number |-> "EXEC_IPC", data |-> -1]]
      /\ mem' = mem /\ vmm_has_vm' = vmm_has_vm /\ vm_state' = vm_state /\ vm_parent' = vm_parent
      /\ pc' = pc /\ forked' = forked /\ kid' = kid /\ bitmap' = bitmap
      /\ msg_output' = msg_output /\ calls' = calls
  BY ZenonT(60) DEF IInv, TypeOK, ExecNotFound, msg_reply, Msg, Idle, table, progs
<1>2. TypeOK'
  BY <1>1 DEF IInv, TypeOK, Numbers
<1>3. FamilyInv'
  BY <1>1 DEF IInv, TypeOK, FamilyInv
<1>4. ASSUME NEW d \in CPUs, d # pm.from PROVE CpuInv(d)' /\ ReplyInv(d)'
  <2>1. Same(d)
    BY <1>1, <1>4 DEF IInv, TypeOK, Same
  <2>2. SamePm(d)
    BY <1>1, <1>4 DEF SamePm, InHand, Building
  <2>3. KeepsChildren(d)
    BY <1>1, <1>4 DEF IInv, TypeOK, KeepsChildren
  <2> QED BY <2>1, <2>2, <2>3, Frame DEF IInv
<1>5. ASSUME NEW d \in CPUs, d = pm.from PROVE CpuInv(d)' /\ ReplyInv(d)'
  <2>1. CpuInv(d) /\ ReplyInv(d)
    BY DEF IInv
  <2>2. msg_input'[d].number = "EXEC_IPC"
    BY <1>1, <1>5 DEF IInv, TypeOK
  <2>3. CpuInv(d)'
    BY <1>1, <1>5, <2>1, <2>2, ZenonT(60)
      DEF CpuInv, InsideInv, AwayInv, Full, Pending, InHand, Building, Inside, Away
  <2> QED BY <1>1, <1>5, <2>1, <2>2, <2>3, ZenonT(60)
    DEF ReplyInv, ChildOf, CpuInv, InsideInv, AwayInv, Full, Pending, InHand, Inside, Away
<1> QED BY <1>2, <1>3, <1>4, <1>5 DEF IInv

\* The memory of the VM is replaced.
LEMMA ReplaceStep ==
  ASSUME IInv, ExecReplace
  PROVE  IInv'
<1> USE ProcMgrAssumption DEF CPUs, INIT
<1>1. /\ pm.at = "load" /\ pm' = [at |-> "elf", from |-> pm.from, child |-> pm.child]
      /\ pm.from \in CPUs /\ mem' = [mem EXCEPT ![pm.from] = "partial"]
      /\ vmm_has_vm' = vmm_has_vm /\ vm_state' = vm_state /\ vm_parent' = vm_parent /\ pc' = pc
      /\ forked' = forked /\ kid' = kid /\ bitmap' = bitmap /\ msg_output' = msg_output
      /\ msg_input' = msg_input /\ calls' = calls
  BY DEF IInv, TypeOK, ExecReplace, boxes, progs, FamilyInv
<1>2. TypeOK'
  BY <1>1 DEF IInv, TypeOK, Numbers
<1>3. FamilyInv'
  BY <1>1 DEF IInv, TypeOK, FamilyInv
<1>4. ASSUME NEW d \in CPUs, d # pm.from PROVE CpuInv(d)' /\ ReplyInv(d)'
  <2>1. Same(d)
    BY <1>1, <1>4 DEF IInv, TypeOK, Same
  <2>2. SamePm(d)
    BY <1>1, <1>4 DEF SamePm, InHand, Building
  <2>3. KeepsChildren(d)
    BY <1>1, <1>4 DEF IInv, TypeOK, KeepsChildren
  <2> QED BY <2>1, <2>2, <2>3, Frame DEF IInv
<1>5. ASSUME NEW d \in CPUs, d = pm.from PROVE CpuInv(d)' /\ ReplyInv(d)'
  <2>1. CpuInv(d) /\ ReplyInv(d)
    BY DEF IInv
  <2>2. mem'[d] = "partial"
    BY <1>1, <1>5 DEF IInv, TypeOK
  <2>3. CpuInv(d)'
    BY <1>1, <1>5, <2>1, <2>2, ZenonT(60)
      DEF CpuInv, InsideInv, AwayInv, Full, Pending, InHand, Building, Inside, Away
  <2> QED BY <1>1, <1>5, <2>1, <2>2, <2>3, ZenonT(60)
    DEF ReplyInv, ChildOf, CpuInv, InsideInv, AwayInv, Full, Pending, InHand, Inside, Away
<1> QED BY <1>2, <1>3, <1>4, <1>5 DEF IInv

\* The new program is ready to run.
LEMMA ExecDoneStep ==
  ASSUME IInv, ExecDone
  PROVE  IInv'
<1> USE ProcMgrAssumption DEF CPUs, INIT
<1>1. /\ pm.at = "elf" /\ pm' = [at |-> "idle", from |-> INIT, child |-> -1]
      /\ pm.from \in CPUs /\ mem' = [mem EXCEPT ![pm.from] = "built"]
      /\ msg_input' = [msg_input EXCEPT ![pm.from] = [number |-> "EXEC_IPC", data |-> 0]]
      /\ vmm_has_vm' = vmm_has_vm /\ vm_state' = vm_state /\ vm_parent' = vm_parent /\ pc' = pc
      /\ forked' = forked /\ kid' = kid /\ bitmap' = bitmap /\ msg_output' = msg_output
      /\ calls' = calls
  BY DEF IInv, TypeOK, ExecDone, msg_reply, Msg, Idle, progs
<1>2. TypeOK'
  BY <1>1 DEF IInv, TypeOK, Numbers
<1>3. FamilyInv'
  BY <1>1 DEF IInv, TypeOK, FamilyInv
<1>4. ASSUME NEW d \in CPUs, d # pm.from PROVE CpuInv(d)' /\ ReplyInv(d)'
  <2>1. Same(d)
    BY <1>1, <1>4 DEF IInv, TypeOK, Same
  <2>2. SamePm(d)
    BY <1>1, <1>4 DEF SamePm, InHand, Building
  <2>3. KeepsChildren(d)
    BY <1>1, <1>4 DEF IInv, TypeOK, KeepsChildren
  <2> QED BY <2>1, <2>2, <2>3, Frame DEF IInv
<1>5. ASSUME NEW d \in CPUs, d = pm.from PROVE CpuInv(d)' /\ ReplyInv(d)'
  <2>1. CpuInv(d) /\ ReplyInv(d)
    BY DEF IInv
  <2>2. mem'[d] = "built" /\ msg_input'[d].number = "EXEC_IPC"
    BY <1>1, <1>5 DEF IInv, TypeOK
  <2>3. CpuInv(d)'
    BY <1>1, <1>5, <2>1, <2>2, ZenonT(60)
      DEF CpuInv, InsideInv, AwayInv, Full, Pending, InHand, Building, Inside, Away
  <2> QED BY <1>1, <1>5, <2>1, <2>2, <2>3, ZenonT(60)
    DEF ReplyInv, ChildOf, CpuInv, InsideInv, AwayInv, Full, Pending, InHand, Inside, Away
<1> QED BY <1>2, <1>3, <1>4, <1>5 DEF IInv

\* The memory of the VM is freed.
LEMMA FreeStep ==
  ASSUME IInv, ExitFree
  PROVE  IInv'
<1> USE ProcMgrAssumption DEF CPUs, INIT
<1>1. /\ pm.at = "dispatch" /\ pm' = [at |-> "exit", from |-> pm.from, child |-> pm.child]
      /\ pm.from \in CPUs /\ msg_output[pm.from].number = "EXIT_IPC"
      /\ mem' = [mem EXCEPT ![pm.from] = "freed"]
      /\ vmm_has_vm' = vmm_has_vm /\ vm_state' = vm_state /\ vm_parent' = vm_parent /\ pc' = pc
      /\ forked' = forked /\ kid' = kid /\ bitmap' = bitmap /\ msg_output' = msg_output
      /\ msg_input' = msg_input /\ calls' = calls
  BY DEF IInv, TypeOK, ExitFree, Request, m, boxes, progs, FamilyInv
<1>2. TypeOK'
  BY <1>1 DEF IInv, TypeOK, Numbers
<1>3. FamilyInv'
  BY <1>1 DEF IInv, TypeOK, FamilyInv
<1>4. ASSUME NEW d \in CPUs, d # pm.from PROVE CpuInv(d)' /\ ReplyInv(d)'
  <2>1. Same(d)
    BY <1>1, <1>4 DEF IInv, TypeOK, Same
  <2>2. SamePm(d)
    BY <1>1, <1>4 DEF SamePm, InHand, Building
  <2>3. KeepsChildren(d)
    BY <1>1, <1>4 DEF IInv, TypeOK, KeepsChildren
  <2> QED BY <2>1, <2>2, <2>3, Frame DEF IInv
<1>5. ASSUME NEW d \in CPUs, d = pm.from PROVE CpuInv(d)' /\ ReplyInv(d)'
  <2>1. CpuInv(d) /\ ReplyInv(d)
    BY DEF IInv
  <2>2. mem'[d] = "freed" /\ msg_output[d].number = "EXIT_IPC"
    BY <1>1, <1>5 DEF IInv, TypeOK
  <2>3. CpuInv(d)'
    BY <1>1, <1>5, <2>1, <2>2, ZenonT(60)
      DEF CpuInv, InsideInv, AwayInv, Full, Pending, InHand, Building, Inside, Away
  <2> QED BY <1>1, <1>5, <2>1, <2>2, <2>3, ZenonT(60)
    DEF ReplyInv, ChildOf, CpuInv, InsideInv, AwayInv, Full, Pending, InHand, Inside, Away
<1> QED BY <1>2, <1>3, <1>4, <1>5 DEF IInv

\* fork with a free CPU: it gets a VM that is not yet built.
LEMMA ForkStartStep ==
  ASSUME IInv, ForkStart
  PROVE  IInv'
<1> USE ProcMgrAssumption DEF CPUs, INIT
<1>1. /\ pm.at = "dispatch"
      /\ pm' = [at |-> "fork", from |-> pm.from, child |-> Lowest(find_free_vm)]
      /\ pm.from \in CPUs /\ msg_output[pm.from].number = "FORK_IPC"
      /\ vmm_has_vm' = [vmm_has_vm EXCEPT ![Lowest(find_free_vm)] = TRUE]
      /\ vm_parent' = [vm_parent EXCEPT ![Lowest(find_free_vm)] = pm.from]
      /\ vm_state' = [vm_state EXCEPT ![Lowest(find_free_vm)] = "RUNNING"]
      /\ mem' = [mem EXCEPT ![Lowest(find_free_vm)] = "partial"]
      /\ pc' = pc /\ forked' = forked /\ kid' = kid /\ bitmap' = bitmap
      /\ msg_output' = msg_output /\ msg_input' = msg_input /\ calls' = calls
  BY ZenonT(60) DEF IInv, TypeOK, ForkStart, Request, m, boxes, progs
<1>2. /\ Lowest(find_free_vm) \in Slots /\ ~vmm_has_vm[Lowest(find_free_vm)]
      /\ forked[pm.from] /\ vmm_has_vm[pm.from]
  <2>1. find_free_vm \in SUBSET Nat /\ find_free_vm # {}
    BY DEF find_free_vm, ForkStart
  <2>2. Lowest(find_free_vm) \in find_free_vm
    BY <2>1, LowestIn
  <2>3. CpuInv(pm.from)
    BY <1>1, ZenonT(60) DEF IInv
  <2> QED BY <1>1, <2>2, <2>3, ZenonT(60) DEF find_free_vm, CpuInv, InsideInv
<1>3. TypeOK'
  BY <1>1, <1>2 DEF IInv, TypeOK, Numbers
<1>4. FamilyInv'
  BY <1>1, <1>2 DEF IInv, TypeOK, FamilyInv
<1>5. ASSUME NEW d \in CPUs, d # pm.from, d # Lowest(find_free_vm) PROVE CpuInv(d)' /\ ReplyInv(d)'
  <2>1. Same(d)
    BY <1>1, <1>2, <1>5 DEF IInv, TypeOK, Same
  <2>2. SamePm(d)
    BY <1>1, <1>2, <1>5, ZenonT(60) DEF SamePm, InHand, Building
  <2>3. KeepsChildren(d)
    BY <1>1, <1>2, <1>5 DEF IInv, TypeOK, KeepsChildren
  <2> QED BY <2>1, <2>2, <2>3, Frame DEF IInv
<1>6. ASSUME NEW d \in CPUs, d = pm.from PROVE CpuInv(d)' /\ ReplyInv(d)'
  <2>1. CpuInv(d) /\ ReplyInv(d)
    BY DEF IInv
  <2>2. /\ d # Lowest(find_free_vm) /\ forked[d]
        /\ mem'[d] = mem[d] /\ vmm_has_vm'[d] = vmm_has_vm[d] /\ vm_state'[d] = vm_state[d]
        /\ vm_parent'[pm'.child] = d /\ vmm_has_vm'[pm'.child]
    BY <1>1, <1>2, <1>6, ZenonT(60) DEF IInv, TypeOK
  <2>3. CpuInv(d)'
    BY <1>1, <1>2, <1>6, <2>1, <2>2, ZenonT(60)
      DEF CpuInv, InsideInv, AwayInv, Full, Pending, InHand, Building, Inside, Away
  <2> QED BY <1>1, <1>2, <1>6, <2>1, <2>2, <2>3, ZenonT(60)
    DEF ReplyInv, ChildOf, CpuInv, InsideInv, AwayInv, Full, Pending, InHand, Inside, Away
<1>7. ASSUME NEW d \in CPUs, d = Lowest(find_free_vm) PROVE CpuInv(d)' /\ ReplyInv(d)'
  <2>1. CpuInv(d) /\ ReplyInv(d)
    BY DEF IInv
  <2>2. ~vmm_has_vm[d] /\ vmm_has_vm'[d] /\ mem'[d] = "partial" /\ vm_state'[d] = "RUNNING"
    BY <1>1, <1>2, <1>7 DEF IInv, TypeOK
  <2>3. CpuInv(d)'
    BY <1>1, <1>2, <1>7, <2>1, <2>2, ZenonT(60)
      DEF CpuInv, InsideInv, AwayInv, Full, Pending, InHand, Building, Inside, Away
  <2> QED BY <1>1, <1>2, <1>7, <2>1, <2>2, <2>3, ZenonT(60)
    DEF ReplyInv, ChildOf, CpuInv, InsideInv, AwayInv, Full, Pending, InHand, Inside, Away
<1> QED BY <1>3, <1>4, <1>5, <1>6, <1>7 DEF IInv

\* The end of exit: a parent that waits is answered and the CPU released.
LEMMA NotifyStep ==
  ASSUME IInv, ExitNotify
  PROVE  IInv'
<1> USE ProcMgrAssumption DEF CPUs, INIT
<1>1. /\ pm.at = "exit" /\ pm' = [at |-> "idle", from |-> INIT, child |-> -1]
      /\ pm.from \in CPUs
      /\ \/ /\ vm_state[vm_parent[pm.from]] = "WAIT_CHLD"
            /\ vmm_has_vm' = [vmm_has_vm EXCEPT ![pm.from] = FALSE]
            /\ msg_input' = [msg_input EXCEPT ![vm_parent[pm.from]] =
                               [number |-> "WAITPID_IPC", data |-> pm.from]]
         \/ vmm_has_vm' = vmm_has_vm /\ msg_input' = msg_input
      /\ mem' = mem /\ vm_state' = vm_state /\ vm_parent' = vm_parent /\ pc' = pc
      /\ forked' = forked /\ kid' = kid /\ bitmap' = bitmap /\ msg_output' = msg_output
      /\ calls' = calls
  BY DEF IInv, TypeOK, ExitNotify, msg_reply, Msg, Idle, progs
<1>2. /\ pm.from \in Slots /\ ~forked[pm.from] /\ pc[pm.from] \in Away
      /\ vm_parent[pm.from] \in CPUs /\ forked[vm_parent[pm.from]] /\ vm_parent[pm.from] # pm.from
  <2>1. CpuInv(pm.from)
    BY <1>1, ZenonT(60) DEF IInv
  <2>2. ~forked[pm.from] /\ pc[pm.from] \in Away /\ pm.from # INIT /\ vmm_has_vm[pm.from]
    BY <1>1, <2>1, ZenonT(60) DEF CpuInv, InsideInv, AwayInv, Pending, InHand
  <2> QED BY <1>1, <2>2, ZenonT(60) DEF IInv, FamilyInv
<1>a. /\ \A d \in CPUs \ {pm.from} : vmm_has_vm'[d] = vmm_has_vm[d]
      /\ \A d \in CPUs : vmm_has_vm'[d] => vmm_has_vm[d]
      /\ \A d \in CPUs \ {vm_parent[pm.from]} : msg_input'[d] = msg_input[d]
  BY <1>1, <1>2 DEF IInv, TypeOK
<1>3. TypeOK'
  <2>1. [number |-> "WAITPID_IPC", data |-> pm.from]
          \in [number : Numbers, data : Slots \union {0, -1}]
    BY <1>2 DEF Numbers
  <2>2. msg_input' \in [CPUs -> [number : Numbers, data : Slots \union {0, -1}]]
    BY <1>1, <1>2, <2>1 DEF IInv, TypeOK
  <2>3. vmm_has_vm' \in [CPUs -> BOOLEAN]
    BY <1>1, ZenonT(60) DEF IInv, TypeOK
  <2> QED BY <1>1, <2>2, <2>3, ZenonT(60) DEF IInv, TypeOK
<1>4. FamilyInv'
  <2>1. \A d \in Slots : vmm_has_vm'[d] => vm_parent[d] \in CPUs /\ forked[vm_parent[d]]
    BY <1>a DEF IInv, FamilyInv
  <2> QED BY <1>1, <2>1 DEF FamilyInv
<1>5. ASSUME NEW d \in CPUs, d # pm.from, d # vm_parent[pm.from] PROVE CpuInv(d)' /\ ReplyInv(d)'
  <2>1. Same(d)
    BY <1>1, <1>a, <1>5 DEF Same
  <2>2. SamePm(d)
    BY <1>1, <1>2, <1>5 DEF SamePm, InHand, Building
  <2>3. KeepsChildren(d)
    BY <1>1, <1>a, <1>5 DEF KeepsChildren
  <2> QED BY <2>1, <2>2, <2>3, Frame DEF IInv
<1>6. ASSUME NEW d \in CPUs, d = pm.from PROVE CpuInv(d)' /\ ReplyInv(d)'
  <2>1. CpuInv(d) /\ ReplyInv(d)
    BY DEF IInv
  <2>2. msg_input'[d] = msg_input[d]
    BY <1>1, <1>2, <1>6, ZenonT(60) DEF IInv, TypeOK
  <2>3. CpuInv(d)'
    BY <1>1, <1>2, <1>6, <2>1, <2>2, ZenonT(60)
      DEF CpuInv, InsideInv, AwayInv, Full, Pending, InHand, Building, Inside, Away
  <2> QED BY <1>1, <1>2, <1>6, <2>1, <2>2, <2>3, ZenonT(60)
    DEF ReplyInv, ChildOf, CpuInv, InsideInv, AwayInv, Full, Pending, InHand, Inside, Away
<1>7. ASSUME NEW d \in CPUs, d = vm_parent[pm.from], d # pm.from PROVE CpuInv(d)' /\ ReplyInv(d)'
  <2>1. CpuInv(d) /\ ReplyInv(d)
    BY DEF IInv
  <2>2. /\ vmm_has_vm'[d] = vmm_has_vm[d]
        /\ vm_state[d] # "WAIT_CHLD" => vmm_has_vm' = vmm_has_vm /\ msg_input' = msg_input
    BY <1>1, <1>2, <1>7, ZenonT(60) DEF IInv, TypeOK
  <2>3. CpuInv(d)'
    BY <1>1, <1>2, <1>7, <2>1, <2>2, ZenonT(60)
      DEF CpuInv, InsideInv, AwayInv, Full, Pending, InHand, Building, Inside, Away
  <2> QED BY <1>1, <1>2, <1>7, <2>1, <2>2, <2>3, ZenonT(60)
    DEF ReplyInv, ChildOf, CpuInv, InsideInv, AwayInv, Full, Pending, InHand, Inside, Away
<1> QED BY <1>3, <1>4, <1>5, <1>6, <1>7 DEF IInv

\* waitpid: a stranger is refused, and otherwise the caller is registered.
LEMMA WaitpidIsStep ==
  ASSUME IInv, WaitpidStep
  PROVE  IInv'
<1> USE ProcMgrAssumption DEF CPUs, INIT
<1>1. /\ pm.at = "dispatch" /\ pm' = [at |-> "idle", from |-> INIT, child |-> -1]
      /\ pm.from \in CPUs /\ msg_output[pm.from].number = "WAITPID_IPC"
      /\ mem' = mem /\ vm_parent' = vm_parent /\ pc' = pc /\ forked' = forked /\ kid' = kid
      /\ bitmap' = bitmap /\ msg_output' = msg_output /\ calls' = calls
  BY DEF IInv, TypeOK, WaitpidStep, Request, m, msg_reply, Msg, Idle, progs
<1>2. /\ vmm_has_vm' = vmm_has_vm
      /\ \/ /\ vm_state' = vm_state /\ msg_output[pm.from].arg # -1
            /\ msg_input' = [msg_input EXCEPT ![pm.from] = [number |-> "WAITPID_IPC", data |-> -1]]
         \/ /\ vm_state' = [vm_state EXCEPT ![pm.from] = "WAIT_CHLD"]
            /\ msg_input' = msg_input
  <2>1. Zombies = {}
    BY ZenonT(60) DEF Zombies, IInv, CpuInv
  <2> QED BY <1>1, <2>1, ZenonT(60) DEF WaitpidStep, m, msg_reply, Msg
<1>3. TypeOK'
  BY <1>1, <1>2 DEF IInv, TypeOK, Numbers
<1>4. FamilyInv'
  BY <1>1, <1>2 DEF IInv, TypeOK, FamilyInv
<1>5. ASSUME NEW d \in CPUs, d # pm.from PROVE CpuInv(d)' /\ ReplyInv(d)'
  <2>1. Same(d)
    BY <1>1, <1>2, <1>5 DEF IInv, TypeOK, Same
  <2>2. SamePm(d)
    BY <1>1, <1>2, <1>5, ZenonT(60) DEF SamePm, InHand, Building
  <2>3. KeepsChildren(d)
    BY <1>1, <1>2, <1>5 DEF IInv, TypeOK, KeepsChildren
  <2> QED BY <2>1, <2>2, <2>3, Frame DEF IInv
<1>6. ASSUME NEW d \in CPUs, d = pm.from PROVE CpuInv(d)' /\ ReplyInv(d)'
  <2>1. CpuInv(d) /\ ReplyInv(d)
    BY DEF IInv
  <2>2. /\ msg_output[d].number = "WAITPID_IPC"
        /\ \/ /\ vm_state'[d] = vm_state[d] /\ msg_output[d].arg # -1
              /\ msg_input'[d] = [number |-> "WAITPID_IPC", data |-> -1]
           \/ /\ vm_state'[d] = "WAIT_CHLD"
              /\ msg_input'[d] = msg_input[d]
    BY <1>1, <1>2, <1>6 DEF IInv, TypeOK
  <2>3. CpuInv(d)'
    BY <1>1, <1>2, <1>6, <2>1, <2>2, ZenonT(60)
      DEF CpuInv, InsideInv, AwayInv, Full, Pending, InHand, Building, Inside, Away
  <2> QED BY <1>1, <1>2, <1>6, <2>1, <2>2, <2>3, ZenonT(60)
    DEF ReplyInv, ChildOf, CpuInv, InsideInv, AwayInv, Full, Pending, InHand, Inside, Away
<1> QED BY <1>3, <1>4, <1>5, <1>6 DEF IInv

\* The invariant is kept by every step.
LEMMA NextIInv ==
  ASSUME ParentsLeave = FALSE, IInv, [Next]_vars
  PROVE  IInv'
<1>1. CASE PM
  BY <1>1, CheckStep, ForkFullStep, ForkStartStep, ForkBuildStep, ChildReplyStep, ParentReplyStep,
     LoadStep, NotFoundStep, ReplaceStep, ExecDoneStep, FreeStep, NotifyStep, WaitpidIsStep
  DEF PM
<1>2. ASSUME NEW c \in CPUs, Program(c)
      PROVE  IInv'
  BY <1>2, ForkCall, WaitCall, ExitCall, ExecCall, ZenonT(60) DEF Program
<1>3. ASSUME NEW c \in CPUs, Returns(c)
      PROVE  IInv'
  BY <1>3, ForkReturn, WaitReturn, VmcallStep DEF Returns
<1>4. ASSUME NEW c \in CPUs, Monitor(c)
      PROVE  IInv'
  <2>1. pc[c] \notin {"barrier", "check"}
    BY DEF IInv, CpuInv, Inside, Away
  <2>2. ~(VmmBarrier(c) \/ VmmHasVm(c) \/ VmmNoVm(c))
    BY <2>1 DEF VmmBarrier, VmmHasVm, VmmNoVm
  <2> QED BY <1>4, <2>2, FirstVm, Resume, Relaunch DEF Monitor
<1>5. CASE UNCHANGED vars
  <2>1. TypeOK' /\ FamilyInv'
    BY <1>5 DEF IInv, TypeOK, FamilyInv, vars, table, boxes, progs
  <2>2. ASSUME NEW d \in CPUs
        PROVE  CpuInv(d)' /\ ReplyInv(d)'
    <3>1. Same(d) /\ SamePm(d) /\ KeepsChildren(d)
      BY <1>5 DEF Same, SamePm, KeepsChildren, InHand, Building, vars, table, boxes, progs
    <3> QED BY <3>1, Frame DEF IInv
  <2> QED BY <2>1, <2>2 DEF IInv
<1> QED BY <1>1, <1>2, <1>3, <1>4, <1>5 DEF Next

\* As long as no program leaves children behind, however many CPUs there are and
\* whatever is forked, executed and awaited, vmm_has_vm is clear only of CPUs that run
\* nothing: find_free_vm never hands out a CPU that is in use.
THEOREM FreeCpusVacant ==
  ASSUME ParentsLeave = FALSE
  PROVE  Spec => []FreeMeansVacant
<1>1. IInv => FreeMeansVacant
  <2> SUFFICES ASSUME IInv, NEW c \in Slots, ~vmm_has_vm[c]
               PROVE  pc[c] \in {"no_vm", "exiting", "vmcall"} /\ mem[c] \in {"none", "freed"}
    BY DEF FreeMeansVacant
  <2>1. CpuInv(c)
    BY DEF IInv, CPUs
  <2> QED BY <2>1 DEF CpuInv, InsideInv, AwayInv, Inside, Away
<1> QED BY <1>1, InitIInv, NextIInv, PTL DEF Spec

\* As long as no program leaves children behind, no guest runs in memory that PM has
\* not finished or has freed.
THEOREM GuestsRunBuiltMemory ==
  ASSUME ParentsLeave = FALSE
  PROVE  Spec => []RunsOnlyBuilt
<1>1. IInv => RunsOnlyBuilt
  BY DEF IInv, CpuInv, InsideInv, Inside, RunsOnlyBuilt
<1> QED BY <1>1, InitIInv, NextIInv, PTL DEF Spec

\* As long as no program leaves children behind, fork returns -1 or a child of the
\* caller unless the caller was registered as waiting: no answer to another call, and
\* no child whose CPU has changed hands, gets into its box.
THEOREM ForkReportsChild ==
  ASSUME ParentsLeave = FALSE
  PROVE  Spec => ForkReturnsChild
<1>1. ASSUME IInv, NEW c \in CPUs, ForkReturns(c), vm_state[c] # "WAIT_CHLD"
      PROVE  /\ msg_input[c].number = "FORK_IPC"
             /\ msg_input[c].data # -1 => vm_parent[msg_input[c].data] = c
  <2>1. CpuInv(c) /\ ReplyInv(c)
    BY <1>1 DEF IInv
  <2>2. pc[c] = "fork" /\ Full(c)
    BY <1>1 DEF ForkReturns, msg_receive, Full
  <2>3. forked[c]
    BY <2>1, <2>2 DEF CpuInv, InsideInv, Inside
  <2> QED BY <1>1, <2>1, <2>2, <2>3 DEF ReplyInv, ChildOf
<1>2. Spec => []IInv
  BY InitIInv, NextIInv, PTL DEF Spec
<1> DEFINE A == \A c \in CPUs :
       ForkReturns(c) /\ vm_state[c] # "WAIT_CHLD" =>
         /\ msg_input[c].number = "FORK_IPC"
         /\ msg_input[c].data # -1 => vm_parent[msg_input[c].data] = c
<1>3. IInv => A
  BY <1>1
<1>4. ForkReturnsChild <=> [][A]_vars
  BY DEF ForkReturnsChild
<1> HIDE DEF A
<1> QED BY <1>2, <1>3, <1>4, PTL
=============================================================================
