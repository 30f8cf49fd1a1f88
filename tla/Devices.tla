------------------------------ MODULE Devices ------------------------------
(***************************************************************************)
(* One machine, apart from its servers: its start (Boot), the threads of a *)
(* program (Thread), the keyboard driver (Keyboard), the descriptor tables *)
(* (Files), the network driver (E1000), and the heap and the packet        *)
(* buffers below it (Heap, Pbuf).  They share no state, so one of them at  *)
(* a time moves: unit says which, and the others wait where they begin.    *)
(***************************************************************************)
EXTENDS Thread, Keyboard, E1000, Boot, Heap, Pbuf

CONSTANTS FilePrograms, MAX_FD, NumFiles, Channels, MaxFileCalls, FileOps

VARIABLES
  unit,
  fds, chan, drivers, readyFs, output, boxes, pc, fs, pm, fileCalls

Fi == INSTANCE Files WITH
  Programs <- FilePrograms, MaxCalls <- MaxFileCalls, Ops <- FileOps,
  drv <- drivers, ready <- readyFs, input <- boxes, calls <- fileCalls

fileVars == <<fds, chan, drivers, readyFs, output, boxes, pc, fs, pm, fileCalls>>
devicesVars == <<unit, threadVars, kbdVars, nicVars, bootVars, fileVars, heapVars, pbufVars>>

\* The machines and the images the run boots: enough memory and not, CPUs counted
\* that do not exist, too few and too many; a server and a bss larger than 2 MB.
SmallMachine(size, procs, present) == [size |-> size, procs |-> procs, present |-> present]
SmallMachines ==
  {SmallMachine(z, x, y) : z \in {70, 146, 220}, x \in {<<4>>, <<2, 3>>, <<1, 1>>, <<9>>}, y \in {0..8, 0..3}}
SmallImage(modules, pmSize, bss) ==
  [modules |-> modules, stage2 |-> 3, pm |-> pmSize, fs |-> 3, init |-> 3, bss |-> bss, vmm |-> 2]
SmallImages == {SmallImage(7, x, y) : x \in {3, 9}, y \in {0, 2, 9}} \union {SmallImage(9, 3, 0)}

\* The instance is one of those the theorems about the parts speak of.
ASSUME SmallInstance ==
  ThreadNames /\ KbdConstants /\ NicConstants /\ BootConstants /\ HeapConstants /\ PbufConstants

Units == {"thread", "keyboard", "e1000", "boot", "files", "heap", "pbuf"}

\* A machine that is not started is any one.
DevicesInit ==
  /\ unit \in Units
  /\ ThreadInit /\ KbdInit /\ NicInit /\ Fi!Init /\ HeapInit /\ PbufInit
  /\ BootInit
  /\ unit # "boot" => machine = (CHOOSE m \in Machines : TRUE) /\ image = (CHOOSE i \in Images : TRUE)

\* Only u moves.
Only(u) ==
  /\ unit = u /\ unit' = unit
  /\ IF u = "thread" THEN TRUE ELSE UNCHANGED threadVars
  /\ IF u = "keyboard" THEN TRUE ELSE UNCHANGED kbdVars
  /\ IF u = "e1000" THEN TRUE ELSE UNCHANGED nicVars
  /\ IF u = "boot" THEN TRUE ELSE UNCHANGED bootVars
  /\ IF u = "files" THEN TRUE ELSE UNCHANGED fileVars
  /\ IF u = "heap" THEN TRUE ELSE UNCHANGED heapVars
  /\ IF u = "pbuf" THEN TRUE ELSE UNCHANGED pbufVars

DevicesNext ==
  \/ Only("thread") /\ ThreadNext
  \/ Only("keyboard") /\ KbdNext
  \/ Only("e1000") /\ NicNext
  \/ Only("boot") /\ BootNext
  \/ Only("files") /\ Fi!Next
  \/ Only("heap") /\ HeapNext
  \/ Only("pbuf") /\ PbufNext

\* The fairness of each part, in the behaviours in which it moves: the timer ticks, the
\* CPUs execute what runs on them and take enabled interrupts.
DevicesFairness ==
  /\ WF_threadVars(unit = "thread" /\ Tick)
  /\ WF_threadVars(unit = "thread" /\ thread_switch_handler)
  /\ WF_threadVars(unit = "thread" /\ Restore)
  /\ WF_kbdVars(unit = "keyboard" /\ KbdDriver)
  /\ WF_kbdVars(unit = "keyboard" /\ kbd_proc_data)
  /\ WF_nicVars(unit = "e1000" /\ NicDriver)
  /\ WF_bootVars(unit = "boot" /\ (Load \/ Start))
  /\ \A c \in Cpus : WF_bootVars(unit = "boot" /\ RunAp(c))
  /\ WF_fileVars(unit = "files" /\ Fi!FileServer)
  /\ WF_fileVars(unit = "files" /\ Fi!ProcessManager)
  /\ \A d \in Fi!Drivers : WF_fileVars(unit = "files" /\ Fi!Driver(d))
  /\ \A c \in FilePrograms :
       WF_fileVars(unit = "files" /\ (Fi!msg_receive(c) \/ Fi!cnl_receive(c)))

DevicesSpec == DevicesInit /\ [][DevicesNext]_devicesVars /\ DevicesFairness
-----------------------------------------------------------------------------
\* File server: every channel page of a living program belongs to one descriptor; exit
\* closes every device of the program but that of the entry behind the table; a driver
\* is released only while it is parked for the channel that was closed.
DescriptorsOK ==
  /\ []Fi!OneOwner
  /\ [][Fi!ExitClosesDevicesStep /\ Fi!ReleasesParkedStep]_fileVars

\* Nobody waits for ever: every created thread gets the CPU again and again; a request
\* whose keys have come is answered, unless the last came just before hlt or a key was
\* late; every packet is taken, unless pbufs that are never freed run out; all CPUs of
\* the machine start, unless one that was counted does not exist; calls to the file
\* server return, unless they wait for keys, in a circle or on a closed file.
NobodyLeftWaiting ==
  /\ \A t \in Threads : (unit = "thread" /\ Created(t)) ~> (unit = "thread" /\ current = t)
  /\ (\/ unit = "keyboard" /\ KeysComplete
      \/ unit = "e1000"
      \/ unit = "boot" /\ Told)
     ~> (\/ unit = "keyboard" /\ AnsweredUnless
         \/ unit = "e1000" /\ AllTakenOrLeaked
         \/ unit = "boot" /\ AllStarted)
  /\ \A c \in FilePrograms : (unit = "files" /\ Fi!Calls(c)) ~> (unit = "files" /\ Fi!ReturnedUnless(c))
=============================================================================
