------------------------------ MODULE Servers ------------------------------
(***************************************************************************)
(* Character devices: programs, the file server FS (vms/fs/main.c), the    *)
(* process manager PM (vms/pm/main.c) and one driver (drivers/console,     *)
(* drivers/junk) open, use and close channels together.                    *)
(*                                                                         *)
(* FS and PM are single threads that stop in the middle of a request to    *)
(* wait for each other or for the driver, so each of their handlers is cut *)
(* at these waits.  Every program has one device descriptor, and its       *)
(* channel is named by the program's CPU.  A program never closes, exits   *)
(* or execs with a request outstanding on its channel: read_char and       *)
(* write_char (lib/fs.c) wait, and so does aread_receive of bin/testcnl.c. *)
(***************************************************************************)
EXTENDS Integers

CONSTANTS
  MAX_CHANNELS,
  Clients,   \* CPUs that run programs
  First,     \* the programs that are there at the start
  Ops,       \* the calls that programs make
  MaxCalls   \* bound: calls made by all programs together

PM == 0
FS == 1
DRV == 4   \* JUNK
Calls == {"OPEN_IPC", "CLOSE_IPC", "FORK_IPC", "EXEC_IPC", "EXIT_IPC", "cnl_send"}

ASSUME ServersAssumption ==
  /\ MAX_CHANNELS \in Nat \ {0, 1}
  /\ Clients \subseteq {n \in Nat : n > FS} \ {DRV} /\ First \subseteq Clients
  /\ Ops \subseteq Calls
  /\ MaxCalls \in Nat

VARIABLES
  fds,        \* fds[c]: the device descriptor of c has a channel
  chan,       \* channel page of c: [ready_send, ready_reply, data]
  list,       \* vm_channels of the driver
  drv,        \* the driver: [at, i, from]; i is the static index of the scan
  ready,      \* msg_ready_bitmap of each server, as a set
  output,     \* msg_output of programs and servers: [number, arg]
  input,      \* input[<<to, from>>]: is there a message in this box?
  pc,         \* what a program is doing: a call, "run" or "none"
  pending,    \* has the program sent on its channel and not received?
  fs, pm,     \* the servers: [at, from]
  calls       \* calls left

devices == <<fds, chan, list, drv>>
vars == <<devices, ready, output, input, pc, pending, fs, pm, calls>>

Lowest(S) == CHOOSE i \in S : \A j \in S : i <= j
Boxes == (Clients \X {PM, FS}) \union {<<PM, FS>>, <<FS, PM>>, <<DRV, FS>>}
Idle == [at |-> "idle", from |-> PM]
Clean == [ready_send |-> FALSE, ready_reply |-> FALSE, data |-> "none"]

\* msg_send: the outbox is filled, then the bit is set.
msg_send(from, to, number, arg) ==
  /\ output' = [output EXCEPT ![from] = [number |-> number, arg |-> arg]]
  /\ ready' = [ready EXCEPT ![to] = @ \union {from}]

\* msg_check: the lowest CPU with its bit set.
msg_check(server) == Lowest(ready[server])

\* cnl_send and cnl_receive, by a program or by a server on its behalf.
Sent(c, data) == [ready_send |-> TRUE, ready_reply |-> FALSE, data |-> data]
Received(c) == [chan[c] EXCEPT !.ready_reply = FALSE]
-----------------------------------------------------------------------------
(* The channel list of the driver, cpuinfo->vm_info.vm_channels: an array   *)
(* that PM edits (vms/pm/main.c) and the driver scans up to the first 0     *)
(* (lib/channel.c).  The array has MAX_CHANNELS entries; entry MAX_CHANNELS *)
(* is the word behind it in the same page, which remove_channel_list can    *)
(* write.                                                                   *)

NoChannel == 0
Slots == 0 .. MAX_CHANNELS - 1

EmptyList == [i \in 0 .. MAX_CHANNELS |-> NoChannel]

\* The channel goes into the first empty entry; a full list is left as it is.
add_channel_list(l, c) ==
  LET free == {i \in Slots : l[i] = NoChannel} IN
  IF free = {} THEN l
  ELSE [l EXCEPT ![Lowest(free)] = c]

\* Mutant: the gap is filled with the last channel of the list.
MoveLast(l, j) ==
  LET last == Lowest({i \in DOMAIN l : l[i] = NoChannel}) - 1
  IN [l EXCEPT ![j] = l[last], ![last] = NoChannel]

\* The inner loop: entries from j on move down by one, up to the first empty
\* entry (or the last one), and the entry behind the stop is cleared.
ShiftDown(l, j) ==
  LET stops == {k \in j .. MAX_CHANNELS - 2 : l[k] = NoChannel}
      stop == IF stops = {} THEN MAX_CHANNELS - 1
              ELSE Lowest(stops)
  IN [i \in DOMAIN l |->
        IF i = stop + 1 THEN NoChannel
        ELSE IF j <= i /\ i < stop THEN l[i + 1]
        ELSE l[i]]

\* after[j] is the list once the outer loop has looked at entries 0 .. j-1.
remove_channel_list(l, c) ==
  LET after[j \in 0 .. MAX_CHANNELS] ==
        IF j = 0 THEN l
        ELSE IF after[j - 1][j - 1] = c THEN ShiftDown(after[j - 1], j - 1)
        ELSE after[j - 1]
  IN after[MAX_CHANNELS]

\* The panic of remove_channel_list: the channel is in no list.
NotFound(l, c) == \A i \in Slots : l[i] # c

\* The channels cnl_receive_any polls: it starts over at the first empty entry.
Polled(l) == {l[i] : i \in {i \in Slots : \A j \in 0 .. i : l[j] # NoChannel}}
-----------------------------------------------------------------------------
(* Programs: lib/fs.c, lib/pm.c, lib/channel.c *)

MayCall(c, op) == pc[c] = "run" /\ op \in Ops /\ calls > 0

Call(c, op, server) ==
  /\ MayCall(c, op)
  /\ calls' = calls - 1
  /\ msg_send(c, server, op, c)
  /\ pc' = [pc EXCEPT ![c] = op]
  /\ UNCHANGED <<devices, input, pending, fs, pm>>

open(c) == Call(c, "OPEN_IPC", FS)
close(c) == ~pending[c] /\ Call(c, "CLOSE_IPC", FS)
fork_internal(c) == Call(c, "FORK_IPC", PM)
exec(c) == ~pending[c] /\ Call(c, "EXEC_IPC", PM)
exit(c) == ~pending[c] /\ Call(c, "EXIT_IPC", PM)

ServerOf(op) == IF op \in {"OPEN_IPC", "CLOSE_IPC"} THEN FS ELSE PM

\* msg_receive, or for exec the one in host_entry: the call returns.
msg_receive(c) ==
  /\ pc[c] \in {"OPEN_IPC", "CLOSE_IPC", "FORK_IPC", "EXEC_IPC"}
  /\ input[<<c, ServerOf(pc[c])>>]
  /\ input' = [input EXCEPT ![<<c, ServerOf(pc[c])>>] = FALSE]
  /\ pc' = [pc EXCEPT ![c] = "run"]
  /\ UNCHANGED <<devices, ready, output, pending, fs, pm, calls>>

\* read_char, write_char and aread write the request into the channel ...
cnl_send(c) ==
  /\ MayCall(c, "cnl_send") /\ fds[c] /\ ~pending[c]
  /\ calls' = calls - 1
  /\ chan' = [chan EXCEPT ![c] = Sent(c, "request")]
  /\ pending' = [pending EXCEPT ![c] = TRUE]
  /\ UNCHANGED <<fds, list, drv, ready, output, input, pc, fs, pm>>

\* ... and wait for the answer of the driver.
cnl_receive(c) ==
  /\ pc[c] = "run" /\ pending[c] /\ chan[c].ready_reply
  /\ chan' = [chan EXCEPT ![c] = Received(c)]
  /\ pending' = [pending EXCEPT ![c] = FALSE]
  /\ UNCHANGED <<fds, list, drv, ready, output, input, pc, fs, pm, calls>>

Program(c) ==
  \/ open(c) \/ close(c) \/ fork_internal(c) \/ exec(c) \/ exit(c) \/ cnl_send(c)
-----------------------------------------------------------------------------
(* The driver: cnl_receive_any, and main of drivers/junk and drivers/console *)

others == <<fds, ready, output, pc, pending, fs, pm, calls>>
Scanning == [drv EXCEPT !.at = "scan", !.from = NoChannel]
Wrap(i) == IF i >= MAX_CHANNELS THEN 0 ELSE i

\* One turn of the scan that finds nothing.
ScanOn ==
  /\ drv.at = "scan"
  /\ list[drv.i] # NoChannel => ~chan[list[drv.i]].ready_send
  /\ drv' = [drv EXCEPT !.i = IF list[drv.i] = NoChannel THEN 0 ELSE Wrap(drv.i + 1)]
  /\ UNCHANGED <<chan, list, input, others>>

ScanFinds ==
  /\ drv.at = "scan"
  /\ list[drv.i] # NoChannel /\ chan[list[drv.i]].ready_send
  /\ chan' = [chan EXCEPT ![list[drv.i]].ready_send = FALSE]
  /\ drv' = [at |-> "serve", i |-> Wrap(drv.i + 1), from |-> list[drv.i]]
  /\ UNCHANGED <<list, input, others>>

\* cnl_reply; after a close request the driver waits for FS in close_channel.
cnl_reply ==
  /\ drv.at = "serve"
  /\ chan' = [chan EXCEPT ![drv.from].ready_reply = TRUE]
  /\ drv' = IF chan[drv.from].data = "CLOSE_CHANNEL"
            THEN [drv EXCEPT !.at = "parked"] ELSE Scanning
  /\ UNCHANGED <<list, input, others>>

close_channel ==
  /\ drv.at = "parked" /\ input[<<DRV, FS>>]
  /\ input' = [input EXCEPT ![<<DRV, FS>>] = FALSE]
  /\ drv' = Scanning
  /\ UNCHANGED <<chan, list, others>>

Driver == ScanOn \/ ScanFinds \/ cnl_reply \/ close_channel
-----------------------------------------------------------------------------
(* FS: vms/fs/main.c *)

fsOthers == <<drv, list, pending, pc, calls, pm>>

FsCheck ==
  /\ fs.at = "idle" /\ ready[FS] # {}
  /\ fs' = [at |-> output[msg_check(FS)].number, from |-> msg_check(FS)]
  /\ ready' = [ready EXCEPT ![FS] = @ \ {msg_check(FS)}]
  /\ UNCHANGED <<fds, chan, output, input, fsOthers>>

FsReply(to) ==
  /\ input' = [input EXCEPT ![<<to, FS>>] = TRUE]
  /\ fs' = Idle

\* local_open_char: an open descriptor is refused, else PM makes the channel.
local_open_char ==
  /\ fs.at = "OPEN_IPC"
  /\ IF fds[fs.from]
     THEN FsReply(fs.from) /\ UNCHANGED <<output, ready>>
     ELSE /\ msg_send(FS, PM, "CHANNEL_IPC", fs.from)
          /\ fs' = [fs EXCEPT !.at = "opening"]
          /\ UNCHANGED input
  /\ UNCHANGED <<fds, chan, fsOthers>>

FsOpened ==
  /\ fs.at = "opening" /\ input[<<FS, PM>>]
  /\ fds' = [fds EXCEPT ![fs.from] = TRUE]
  /\ input' = [input EXCEPT ![<<FS, PM>>] = FALSE, ![<<fs.from, FS>>] = TRUE]
  /\ fs' = Idle
  /\ UNCHANGED <<chan, output, ready, fsOthers>>

\* local_close: a device is closed with the driver, anything else at once.
local_close ==
  /\ fs.at = "CLOSE_IPC"
  /\ IF fds[fs.from]
     THEN /\ chan' = [chan EXCEPT ![fs.from] = Sent(fs.from, "CLOSE_CHANNEL")]
          /\ fs' = [fs EXCEPT !.at = "driver"]
          /\ UNCHANGED input
     ELSE FsReply(fs.from) /\ UNCHANGED chan
  /\ UNCHANGED <<fds, output, ready, fsOthers>>

\* local_close_char once the driver has answered.
FsCloseAtPm ==
  /\ fs.at = "driver" /\ chan[fs.from].ready_reply
  /\ chan' = [chan EXCEPT ![fs.from] = Received(fs.from)]
  /\ msg_send(FS, PM, "CHANNEL_CLOSE_IPC", fs.from)
  /\ fs' = [fs EXCEPT !.at = "closing"]
  /\ UNCHANGED <<fds, input, fsOthers>>

\* Mutant: the descriptor keeps the channel.
FsClosedKeepsFd ==
  /\ fs.at = "closing" /\ input[<<FS, PM>>]
  /\ input' = [input EXCEPT ![<<FS, PM>>] = FALSE,
                            ![<<DRV, FS>>] = TRUE, ![<<fs.from, FS>>] = TRUE]
  /\ fs' = Idle
  /\ UNCHANGED <<fds, chan, output, ready, fsOthers>>

FsClosed ==
  /\ fs.at = "closing" /\ input[<<FS, PM>>]
  /\ fds' = [fds EXCEPT ![fs.from] = FALSE]
  /\ input' = [input EXCEPT ![<<FS, PM>>] = FALSE,
                            ![<<DRV, FS>>] = TRUE, ![<<fs.from, FS>>] = TRUE]
  /\ fs' = Idle
  /\ UNCHANGED <<chan, output, ready, fsOthers>>

local_load ==
  /\ fs.at = "LOAD_IPC"
  /\ FsReply(fs.from)
  /\ UNCHANGED <<fds, chan, output, ready, fsOthers>>

FileServer ==
  \/ FsCheck \/ local_open_char \/ FsOpened \/ local_close \/ FsCloseAtPm
  \/ FsClosed \/ local_load
-----------------------------------------------------------------------------
(* PM: vms/pm/main.c *)

pmOthers == <<drv, calls, fs>>

PmCheck ==
  /\ pm.at = "idle" /\ ready[PM] # {}
  /\ pm' = [at |-> output[msg_check(PM)].number, from |-> msg_check(PM)]
  /\ ready' = [ready EXCEPT ![PM] = @ \ {msg_check(PM)}]
  /\ UNCHANGED <<fds, chan, list, output, input, pc, pending, pmOthers>>

\* local_channel: a clean page, entered in the driver's list.
local_channel(c) ==
  /\ chan' = [chan EXCEPT ![c] = Clean]
  /\ list' = add_channel_list(list, c)

PmChannel ==
  /\ pm.at = "CHANNEL_IPC"
  /\ local_channel(output[pm.from].arg)
  /\ input' = [input EXCEPT ![<<pm.from, PM>>] = TRUE]
  /\ pm' = Idle
  /\ UNCHANGED <<fds, ready, output, pc, pending, pmOthers>>

\* Mutant: the channel stays in the list.
KeepsChannel(c, done) == pm' = done /\ UNCHANGED list

\* local_channel_close: off the list and freed, or the panic of
\* remove_channel_list.
local_channel_close(c, done) ==
  IF NotFound(list, c)
  THEN pm' = [pm EXCEPT !.at = "panic"] /\ UNCHANGED list
  ELSE pm' = done /\ list' = remove_channel_list(list, c)

PmChannelClose ==
  /\ pm.at = "CHANNEL_CLOSE_IPC"
  /\ local_channel_close(output[pm.from].arg, Idle)
  /\ input' = [input EXCEPT ![<<pm.from, PM>>] = TRUE]
  /\ UNCHANGED <<fds, chan, ready, output, pc, pending, pmOthers>>

\* The CPUs fork can take.  After an exit the code releases a CPU only if the
\* parent waits (module ProcMgr); here it may be taken again in any case.
FreeCpus == {c \in Clients : pc[c] = "none"}

\* Mutant: without a free CPU the parent gets no answer.
local_fork_silent ==
  /\ pm.at = "FORK_IPC"
  /\ IF FreeCpus = {}
     THEN UNCHANGED <<fds, chan, list, pc, input>>
     ELSE LET c == Lowest(FreeCpus) IN
          /\ fds' = [fds EXCEPT ![c] = fds[pm.from]]
          /\ pc' = [pc EXCEPT ![c] = "run"]
          /\ IF fds[pm.from] THEN local_channel(c) ELSE UNCHANGED <<chan, list>>
          /\ input' = [input EXCEPT ![<<pm.from, PM>>] = TRUE]
  /\ pm' = Idle
  /\ UNCHANGED <<ready, output, pending, pmOthers>>

\* local_fork: the child gets a channel of its own for an open device.
local_fork ==
  /\ pm.at = "FORK_IPC"
  /\ IF FreeCpus = {}
     THEN UNCHANGED <<fds, chan, list, pc>>
     ELSE LET c == Lowest(FreeCpus) IN
          /\ fds' = [fds EXCEPT ![c] = fds[pm.from]]
          /\ pc' = [pc EXCEPT ![c] = "run"]
          /\ IF fds[pm.from] THEN local_channel(c) ELSE UNCHANGED <<chan, list>>
  /\ input' = [input EXCEPT ![<<pm.from, PM>>] = TRUE]
  /\ pm' = Idle
  /\ UNCHANGED <<ready, output, pending, pmOthers>>

\* local_exec: FS reads the program; PM waits for it.
local_exec ==
  /\ pm.at = "EXEC_IPC"
  /\ msg_send(PM, FS, "LOAD_IPC", pm.from)
  /\ pm' = [pm EXCEPT !.at = "loading"]
  /\ UNCHANGED <<fds, chan, list, input, pc, pending, pmOthers>>

PmLoaded ==
  /\ pm.at = "loading" /\ input[<<PM, FS>>]
  /\ input' = [input EXCEPT ![<<PM, FS>>] = FALSE, ![<<pm.from, PM>>] = TRUE]
  /\ pm' = Idle
  /\ UNCHANGED <<fds, chan, list, ready, output, pc, pending, pmOthers>>

\* Mutant: the driver is released together with the close request.
ExitReleasesEarly ==
  /\ pm.at = "EXIT_IPC" /\ fds[pm.from]
  /\ chan' = [chan EXCEPT ![pm.from] = Sent(pm.from, "CLOSE_CHANNEL")]
  /\ input' = [input EXCEPT ![<<DRV, FS>>] = TRUE]
  /\ pm' = [pm EXCEPT !.at = "driver"]
  /\ UNCHANGED <<fds, list, ready, output, pc, pending, pmOthers>>

\* local_exit and its close_channel: an open device is closed with the driver.
ExitOpen ==
  /\ pm.at = "EXIT_IPC" /\ fds[pm.from]
  /\ chan' = [chan EXCEPT ![pm.from] = Sent(pm.from, "CLOSE_CHANNEL")]
  /\ pm' = [pm EXCEPT !.at = "driver"]
  /\ UNCHANGED <<fds, list, ready, output, input, pc, pending, pmOthers>>

ExitClosed ==
  /\ pm.at = "EXIT_IPC" /\ ~fds[pm.from]
  /\ pc' = [pc EXCEPT ![pm.from] = "none"]
  /\ pm' = Idle
  /\ UNCHANGED <<fds, chan, list, ready, output, input, pending, pmOthers>>

\* The driver has answered; PM releases it in the name of FS.
ExitCloses ==
  /\ pm.at = "driver" /\ chan[pm.from].ready_reply
  /\ chan' = [chan EXCEPT ![pm.from] = Received(pm.from)]
  /\ local_channel_close(pm.from, Idle)
  /\ fds' = [fds EXCEPT ![pm.from] = FALSE]
  /\ input' = [input EXCEPT ![<<DRV, FS>>] = TRUE]
  /\ pc' = [pc EXCEPT ![pm.from] = "none"]
  /\ UNCHANGED <<ready, output, pending, pmOthers>>

ProcessManager ==
  \/ PmCheck \/ PmChannel \/ PmChannelClose \/ local_fork
  \/ local_exec \/ PmLoaded \/ ExitOpen \/ ExitClosed \/ ExitCloses
-----------------------------------------------------------------------------
Init ==
  /\ fds = [c \in Clients |-> FALSE]
  /\ chan = [c \in Clients |-> Clean]
  /\ list = EmptyList
  /\ drv = [at |-> "scan", i |-> 0, from |-> NoChannel]
  /\ ready = [s \in {PM, FS} |-> {}]
  /\ output = [c \in Clients \union {PM, FS} |-> [number |-> "none", arg |-> 0]]
  /\ input = [b \in Boxes |-> FALSE]
  /\ pc = [c \in Clients |-> IF c \in First THEN "run" ELSE "none"]
  /\ pending = [c \in Clients |-> FALSE]
  /\ fs = Idle /\ pm = Idle
  /\ calls = MaxCalls

Next ==
  \/ Driver \/ FileServer \/ ProcessManager
  \/ \E c \in Clients : Program(c) \/ msg_receive(c) \/ cnl_receive(c)

\* Every CPU keeps executing; a program inside a call polls its box or channel.
Fairness ==
  /\ WF_vars(Driver) /\ WF_vars(FileServer) /\ WF_vars(ProcessManager)
  /\ \A c \in Clients : WF_vars(msg_receive(c)) /\ WF_vars(cnl_receive(c))

Spec == Init /\ [][Next]_vars /\ Fairness
-----------------------------------------------------------------------------
Numbers == (Calls \ {"cnl_send"}) \union {"CHANNEL_IPC", "CHANNEL_CLOSE_IPC", "LOAD_IPC"}

\* PM is never in the panic of remove_channel_list, which this leaves out.
TypeOK ==
  /\ fds \in [Clients -> BOOLEAN]
  /\ chan \in [Clients -> [ready_send : BOOLEAN, ready_reply : BOOLEAN,
                           data : {"none", "request", "CLOSE_CHANNEL"}]]
  /\ list \in [0 .. MAX_CHANNELS -> Clients \union {NoChannel}]
  /\ drv \in [at : {"scan", "serve", "parked"}, i : Slots,
              from : Clients \union {NoChannel}]
  /\ ready \in [{PM, FS} -> SUBSET (Clients \union {PM, FS})]
  /\ output \in [Clients \union {PM, FS} -> [number : Numbers \union {"none"},
                                            arg : Clients \union {0}]]
  /\ input \in [Boxes -> BOOLEAN]
  /\ pc \in [Clients -> (Calls \ {"cnl_send"}) \union {"run", "none"}]
  /\ pending \in [Clients -> BOOLEAN]
  /\ fs \in [at : {"idle", "opening", "driver", "closing"} \union Numbers,
             from : Clients \union {PM, FS}]
  /\ pm \in [at : {"idle", "loading", "driver"} \union Numbers,
             from : Clients \union {PM, FS}]
  /\ calls \in Nat

\* The steps in which PM takes the channel of c off the driver's list.
Removes(c) ==
  \/ PmChannelClose /\ output[pm.from].arg = c
  \/ ExitCloses /\ pm.from = c

\* PM edits the list of a running driver only at its end: a channel is removed,
\* and the entries behind it moved, only while the driver waits in close_channel
\* for exactly this channel, and with its release not yet in the box.
ParkedDuringRemoval ==
  [][\A c \in Clients :
       Removes(c) => /\ drv.at = "parked" /\ drv.from = c
                     /\ ~input[<<DRV, FS>>]]_vars

\* PM only adds a channel behind the last one or takes one out and closes the gap
\* (add_channel_list, remove_channel_list): no other channel is lost, entered twice
\* or overtakes another.
Appended(c) ==
  \E n \in Slots :
    /\ list[n] = NoChannel
    /\ \A i \in 0 .. n - 1 : list[i] \notin {NoChannel, c}
    /\ list' = [list EXCEPT ![n] = c]
TakenOut(c) ==
  \E n \in Slots :
    /\ list[n] = c
    /\ \A i \in Slots : list'[i] = IF i < n THEN list[i] ELSE list[i + 1]
ListKeepsOrder == [][list' # list => \E c \in Clients : Appended(c) \/ TakenOut(c)]_vars

\* No device descriptor without a channel and no channel without a descriptor:
\* with both servers idle the driver polls the channels of exactly the open
\* descriptors.
ListMatchesFds ==
  fs.at = "idle" /\ pm.at = "idle" => Polled(list) = {c \in Clients : fds[c]}

\* The driver and the program never touch the page of a channel that PM has
\* taken off the list and freed.
NoUseAfterClose ==
  /\ drv.at = "serve" => drv.from \in Polled(list)
  /\ \A c \in Clients : pending[c] => c \in Polled(list)

\* Every call of a program to FS or PM returns: after "receiving the message
\* (using msg_check()) and executing the request", the server "replies to the
\* message" (lib/ipc.c:160).
CallsReturn ==
  \A c \in Clients :
    pc[c] \in {"OPEN_IPC", "CLOSE_IPC", "FORK_IPC", "EXEC_IPC"} ~> pc[c] = "run"

\* FS waits for an answer of PM that never comes, because PM waits for FS to load
\* a program, or for the driver, which waits for FS to release it.
Circle ==
  /\ fs.at \in {"opening", "closing"} /\ ~input[<<FS, PM>>]
  /\ \/ pm.at = "loading" /\ ~input[<<PM, FS>>]
     \/ pm.at = "driver" /\ drv.at = "parked" /\ drv.from # pm.from /\ ~input[<<DRV, FS>>]

\* These two circular waits are the only reason why a call of open, close, fork
\* or exec does not return.
CallsReturnUnlessCircle ==
  \A c \in Clients :
    pc[c] \in {"OPEN_IPC", "CLOSE_IPC", "FORK_IPC", "EXEC_IPC"}
      ~> (pc[c] = "run" \/ Circle)

\* Every request on a channel is answered, however the scan index of the driver
\* stands when channels come and go, unless the driver is caught in such a wait.
RequestsAnsweredUnlessCircle ==
  \A c \in Clients : (pending[c] /\ pc[c] = "run") ~> (~pending[c] \/ Circle)

\* A program that exits is taken apart and its CPU can be used again, unless PM is
\* caught in such a wait.
ExitsUnlessCircle ==
  \A c \in Clients : pc[c] = "EXIT_IPC" ~> (pc[c] = "none" \/ Circle)

\* Calls of open, close, fork and exec, requests on channels and exits are all
\* completed unless PM and FS, or PM, FS and the driver, wait in a circle.
CompletesUnlessCircle ==
  CallsReturnUnlessCircle /\ RequestsAnsweredUnlessCircle /\ ExitsUnlessCircle
=============================================================================
