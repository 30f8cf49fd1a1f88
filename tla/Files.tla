------------------------------- MODULE Files -------------------------------
(***************************************************************************)
(* The descriptor tables: open, read, write, close and exit of programs    *)
(* with several descriptors, served by FS (vms/fs/main.c), PM (local_exit  *)
(* and close_channel, vms/pm/main.c) and the three drivers.                *)
(*                                                                         *)
(* A table has MAX_FD entries and lies in a cleared page, so there is one  *)
(* more entry behind its end; the search for a junkfd can reach it.  The   *)
(* keyboard driver answers only when keys come (module Keyboard); console  *)
(* and junk answer at once.  The order in which a driver scans its         *)
(* channels is that of module Servers; here it takes any.                  *)
(***************************************************************************)
EXTENDS Naturals, FiniteSets

CONSTANTS
  Programs,   \* CPUs of the programs
  MAX_FD,     \* entries of a descriptor table
  NumFiles,   \* files in the initrd; file f has offset f
  Channels,   \* pages for channels: numbers from 1 on
  Ops,        \* calls the programs make
  MaxCalls    \* bound: calls of all programs together

PM == 0
FS == 1
KBD == 3
JUNK == 4
CONSOLE == 5
Drivers == {KBD, JUNK, CONSOLE}
Chars == {"stdin", "stdout", "junkfd"}
Names == Chars \union {"file", "absent"}

VARIABLES
  fds,      \* fds[c][i]: [type, offset], i up to and including MAX_FD
  chan,     \* channel pages: [end1, dst, flag, close]; flag is "", "send" or "reply"
  drv,      \* drivers: [at, from]
  ready,    \* msg_ready_bitmap of PM and FS
  output,   \* msg_output of programs and FS: [number, name, flags, fd]
  input,    \* input[<<to, from>>]: is there an answer in the box?
  pc,       \* programs: "run", a call, "io", "none" or "panic"
  fs, pm,   \* servers: [at, from, fd, dst]
  calls     \* calls left

vars == <<fds, chan, drv, ready, output, input, pc, fs, pm, calls>>

Slots == 0 .. MAX_FD
Closed == [type |-> "0", offset |-> 0]
NoPage == [end1 |-> 0, dst |-> 0, flag |-> "", close |-> FALSE]
Idle == [at |-> "idle", from |-> PM, fd |-> 0, dst |-> 0]
Boxes == (Programs \X {PM, FS}) \union {<<FS, PM>>} \union (Drivers \X {FS})
Lowest(S) == CHOOSE i \in S : \A j \in S : i <= j

\* The driver that is told to go on after a close: chosen by the number of the
\* descriptor.
DstOf(fd) == IF fd = 0 THEN KBD ELSE IF fd = 1 THEN CONSOLE ELSE JUNK

msg_send(from, to, message) ==
  /\ output' = [output EXCEPT ![from] = message]
  /\ ready' = [ready EXCEPT ![to] = @ \union {from}]

Message(number) == [number |-> number, name |-> "", flags |-> "O_RDONLY", fd |-> 0]
-----------------------------------------------------------------------------
(* Programs: lib/fs.c *)

MayCall(c, op) == pc[c] = "run" /\ op \in Ops /\ calls > 0 /\ calls' = calls - 1

Call(c, message, server) ==
  /\ MayCall(c, message.number)
  /\ msg_send(c, server, message)
  /\ pc' = [pc EXCEPT ![c] = message.number]
  /\ UNCHANGED <<fds, chan, drv, input, fs, pm>>

open(c, name, flags) ==
  Call(c, [Message("OPEN_IPC") EXCEPT !.name = name, !.flags = flags], FS)
close(c, fd) == Call(c, [Message("CLOSE_IPC") EXCEPT !.fd = fd], FS)
exit(c) == Call(c, Message("EXIT_IPC"), PM)

\* read of anything but a device is a message to FS.
read(c, fd) ==
  fds[c][fd].type # "CHAR" /\ Call(c, [Message("READ_IPC") EXCEPT !.fd = fd], FS)

\* read_char and write_char go to the driver.
io(c, fd) ==
  /\ fds[c][fd].type = "CHAR" /\ MayCall(c, "io")
  /\ chan' = [chan EXCEPT ![fds[c][fd].offset].flag = "send"]
  /\ output' = [output EXCEPT ![c].fd = fd]
  /\ pc' = [pc EXCEPT ![c] = "io"]
  /\ UNCHANGED <<fds, drv, ready, input, fs, pm>>

\* write to anything else panics.
WritePanics(c, fd) ==
  /\ fds[c][fd].type # "CHAR" /\ MayCall(c, "io")
  /\ pc' = [pc EXCEPT ![c] = "panic"]
  /\ UNCHANGED <<fds, chan, drv, ready, output, input, fs, pm>>

\* The calls return.
msg_receive(c) ==
  /\ pc[c] \in {"OPEN_IPC", "CLOSE_IPC", "READ_IPC"} /\ input[<<c, FS>>]
  /\ input' = [input EXCEPT ![<<c, FS>>] = FALSE]
  /\ pc' = [pc EXCEPT ![c] = "run"]
  /\ UNCHANGED <<fds, chan, drv, ready, output, fs, pm, calls>>

cnl_receive(c) ==
  LET ch == fds[c][output[c].fd].offset IN
  /\ pc[c] = "io" /\ chan[ch].flag = "reply"
  /\ chan' = [chan EXCEPT ![ch].flag = ""]
  /\ pc' = [pc EXCEPT ![c] = "run"]
  /\ UNCHANGED <<fds, drv, ready, output, input, fs, pm, calls>>
-----------------------------------------------------------------------------
(* Drivers: main of drivers/{keyboard,console,junk} *)

drvOthers == <<fds, ready, output, pc, fs, pm, calls>>

\* A request is taken; only the keyboard waits for something before it answers.
Serve(d, ch) ==
  /\ drv[d].at = "scan" /\ chan[ch].dst = d /\ chan[ch].flag = "send"
  /\ chan' = [chan EXCEPT ![ch].flag =
                IF d = KBD /\ ~chan[ch].close THEN "" ELSE "reply"]
  /\ drv' = [drv EXCEPT ![d] =
               IF chan[ch].close THEN [at |-> "parked", from |-> ch]
               ELSE IF d = KBD THEN [at |-> "keys", from |-> ch] ELSE @]
  /\ UNCHANGED <<input, drvOthers>>

\* The keys have come.
Keys ==
  /\ drv[KBD].at = "keys"
  /\ chan' = [chan EXCEPT ![drv[KBD].from].flag = "reply"]
  /\ drv' = [drv EXCEPT ![KBD].at = "scan"]
  /\ UNCHANGED <<input, drvOthers>>

\* close_channel: msg_receive(FS)
close_channel(d) ==
  /\ drv[d].at = "parked" /\ input[<<d, FS>>]
  /\ input' = [input EXCEPT ![<<d, FS>>] = FALSE]
  /\ drv' = [drv EXCEPT ![d].at = "scan"]
  /\ UNCHANGED <<chan, drvOthers>>

Driver(d) == (\E ch \in Channels : Serve(d, ch)) \/ close_channel(d)
-----------------------------------------------------------------------------
(* FS: vms/fs/main.c *)

fsOthers == <<drv, pc, pm, calls>>
request == output[fs.from]
entry == fds[fs.from][request.fd]

FsCheck ==
  /\ fs.at = "idle" /\ ready[FS] # {}
  /\ fs' = [Idle EXCEPT !.at = output[Lowest(ready[FS])].number, !.from = Lowest(ready[FS])]
  /\ ready' = [ready EXCEPT ![FS] = @ \ {Lowest(ready[FS])}]
  /\ UNCHANGED <<fds, chan, output, input, fsOthers>>

FsReply == input' = [input EXCEPT ![<<fs.from, FS>>] = TRUE] /\ fs' = Idle

\* for (i = 2 ; i < MAX_FD ; i++) if (fds[i].offset == 0) break;
FreeFd(c) ==
  LET free == {i \in 2 .. MAX_FD - 1 : fds[c][i].offset = 0}
  IN IF free = {} THEN MAX_FD ELSE Lowest(free)

\* local_open of a file: refused without a free descriptor, for writing, or if
\* the initrd does not have it.
local_open ==
  /\ fs.at = "OPEN_IPC" /\ request.name \notin Chars
  /\ fds' = IF FreeFd(fs.from) < MAX_FD /\ request.flags = "O_RDONLY" /\ request.name = "file"
            THEN [fds EXCEPT ![fs.from][FreeFd(fs.from)] = [type |-> "FILE", offset |-> NumFiles]]
            ELSE fds
  /\ FsReply
  /\ UNCHANGED <<chan, output, ready, fsOthers>>

\* The descriptor and the driver of a device.
CharFd == IF request.name = "stdin" THEN 0
          ELSE IF request.name = "stdout" THEN 1 ELSE FreeFd(fs.from)
CharDst == IF request.name = "stdin" THEN KBD
           ELSE IF request.name = "stdout" THEN CONSOLE ELSE JUNK

\* local_open_char: an entry in use is refused, else PM is asked for a channel.
local_open_char ==
  /\ fs.at = "OPEN_IPC" /\ request.name \in Chars
  /\ IF fds[fs.from][CharFd].offset # 0
     THEN FsReply /\ UNCHANGED <<output, ready>>
     ELSE /\ msg_send(FS, PM, [Message("CHANNEL_IPC") EXCEPT !.fd = fs.from])
          /\ fs' = [at |-> "opening", from |-> fs.from, fd |-> CharFd, dst |-> CharDst]
          /\ UNCHANGED input
  /\ UNCHANGED <<fds, chan, fsOthers>>

\* The channel in PM's answer is the program's one that no descriptor has yet.
NewChannel(c) ==
  CHOOSE ch \in Channels :
    chan[ch].end1 = c /\ \A i \in Slots : fds[c][i] # [type |-> "CHAR", offset |-> ch]

FsOpened ==
  /\ fs.at = "opening" /\ input[<<FS, PM>>]
  /\ fds' = [fds EXCEPT ![fs.from][fs.fd] = [type |-> "CHAR", offset |-> NewChannel(fs.from)]]
  /\ input' = [input EXCEPT ![<<FS, PM>>] = FALSE, ![<<fs.from, FS>>] = TRUE]
  /\ fs' = Idle
  /\ UNCHANGED <<chan, output, ready, fsOthers>>

\* READ_IPC: vm_main answers for files only; the read of a closed descriptor is
\* dropped.
local_read ==
  /\ fs.at = "READ_IPC"
  /\ IF entry.type = "FILE" THEN FsReply ELSE fs' = Idle /\ UNCHANGED input
  /\ UNCHANGED <<fds, chan, output, ready, fsOthers>>

\* Mutant: a close of a file is not answered.
CloseUnanswered ==
  /\ fs.at = "CLOSE_IPC"
  /\ IF entry.type = "CHAR"
     THEN /\ chan' = [chan EXCEPT ![entry.offset].flag = "send", ![entry.offset].close = TRUE]
          /\ fs' = [fs EXCEPT !.at = "driver", !.fd = request.fd]
          /\ UNCHANGED <<fds, input>>
     ELSE /\ fds' = [fds EXCEPT ![fs.from][request.fd] = Closed]
          /\ fs' = Idle /\ UNCHANGED <<input, chan>>
  /\ UNCHANGED <<output, ready, fsOthers>>

\* local_close: a file at once, a device after its driver has stopped.
local_close ==
  /\ fs.at = "CLOSE_IPC"
  /\ IF entry.type = "CHAR"
     THEN /\ chan' = [chan EXCEPT ![entry.offset].flag = "send", ![entry.offset].close = TRUE]
          /\ fs' = [fs EXCEPT !.at = "driver", !.fd = request.fd]
          /\ UNCHANGED <<fds, input>>
     ELSE /\ fds' = [fds EXCEPT ![fs.from][request.fd] = Closed]
          /\ FsReply /\ UNCHANGED chan
  /\ UNCHANGED <<output, ready, fsOthers>>

FsCloseAtPm ==
  /\ fs.at = "driver" /\ chan[entry.offset].flag = "reply"
  /\ chan' = [chan EXCEPT ![entry.offset].flag = ""]
  /\ msg_send(FS, PM, [Message("CHANNEL_CLOSE_IPC") EXCEPT !.fd = entry.offset])
  /\ fs' = [fs EXCEPT !.at = "closing"]
  /\ UNCHANGED <<fds, input, fsOthers>>

FsClosed ==
  /\ fs.at = "closing" /\ input[<<FS, PM>>]
  /\ fds' = [fds EXCEPT ![fs.from][fs.fd] = Closed]
  /\ input' = [input EXCEPT ![<<FS, PM>>] = FALSE, ![<<fs.from, FS>>] = TRUE,
                            ![<<DstOf(fs.fd), FS>>] = TRUE]
  /\ fs' = Idle
  /\ UNCHANGED <<chan, output, ready, fsOthers>>

FileServer ==
  \/ FsCheck \/ local_open \/ local_open_char \/ FsOpened \/ local_read
  \/ local_close \/ FsCloseAtPm \/ FsClosed
-----------------------------------------------------------------------------
(* PM: vms/pm/main.c *)

pmOthers == <<drv, output, calls, fs>>
FreePages == {ch \in Channels : chan[ch] = NoPage}

PmCheck ==
  /\ pm.at = "idle" /\ ready[PM] # {}
  /\ pm' = [Idle EXCEPT !.at = output[Lowest(ready[PM])].number, !.from = Lowest(ready[PM])]
  /\ ready' = [ready EXCEPT ![PM] = @ \ {Lowest(ready[PM])}]
  /\ UNCHANGED <<fds, chan, input, pc, pmOthers>>

\* local_channel
PmChannel ==
  /\ pm.at = "CHANNEL_IPC" /\ FreePages # {}
  /\ chan' = [chan EXCEPT ![Lowest(FreePages)] =
                [end1 |-> output[FS].fd, dst |-> fs.dst, flag |-> "", close |-> FALSE]]
  /\ input' = [input EXCEPT ![<<FS, PM>>] = TRUE]
  /\ pm' = Idle
  /\ UNCHANGED <<fds, ready, pc, pmOthers>>

\* local_channel_close
PmChannelClose ==
  /\ pm.at = "CHANNEL_CLOSE_IPC"
  /\ chan' = [chan EXCEPT ![output[FS].fd] = NoPage]
  /\ input' = [input EXCEPT ![<<FS, PM>>] = TRUE]
  /\ pm' = Idle
  /\ UNCHANGED <<fds, ready, pc, pmOthers>>

\* Mutant: local_exit forgets stdin.
ToCloseButStdin(c) == {i \in 1 .. MAX_FD - 1 : fds[c][i].type = "CHAR" /\ fds[c][i].offset # 0}

\* The devices that local_exit has still to close: entries below MAX_FD.
ToClose(c) == {i \in 0 .. MAX_FD - 1 : fds[c][i].type = "CHAR" /\ fds[c][i].offset # 0}

\* close_channel: the driver is asked to stop ...
ExitAsks ==
  LET fd == Lowest(ToClose(pm.from)) IN
  /\ pm.at = "EXIT_IPC" /\ ToClose(pm.from) # {}
  /\ chan' = [chan EXCEPT ![fds[pm.from][fd].offset].flag = "send",
                          ![fds[pm.from][fd].offset].close = TRUE]
  /\ pm' = [pm EXCEPT !.at = "driver", !.fd = fd]
  /\ UNCHANGED <<fds, ready, input, pc, pmOthers>>

\* ... and is released in the name of FS once the page is free.
ExitCloses ==
  LET ch == fds[pm.from][pm.fd].offset IN
  /\ pm.at = "driver" /\ chan[ch].flag = "reply"
  /\ chan' = [chan EXCEPT ![ch] = NoPage]
  /\ fds' = [fds EXCEPT ![pm.from][pm.fd].offset = 0]
  /\ input' = [input EXCEPT ![<<DstOf(pm.fd), FS>>] = TRUE]
  /\ pm' = [pm EXCEPT !.at = "EXIT_IPC"]
  /\ UNCHANGED <<ready, pc, pmOthers>>

\* The table itself is freed.
ExitDone ==
  /\ pm.at = "EXIT_IPC" /\ ToClose(pm.from) = {}
  /\ fds' = [fds EXCEPT ![pm.from] = [i \in Slots |-> Closed]]
  /\ pc' = [pc EXCEPT ![pm.from] = "none"]
  /\ pm' = Idle
  /\ UNCHANGED <<chan, ready, input, pmOthers>>

ProcessManager == PmCheck \/ PmChannel \/ PmChannelClose \/ ExitAsks \/ ExitCloses \/ ExitDone
-----------------------------------------------------------------------------
Init ==
  /\ fds = [c \in Programs |-> [i \in Slots |-> Closed]]
  /\ chan = [ch \in Channels |-> NoPage]
  /\ drv = [d \in Drivers |-> [at |-> "scan", from |-> Lowest(Channels)]]
  /\ ready = [s \in {PM, FS} |-> {}]
  /\ output = [c \in Programs \union {FS} |-> Message("")]
  /\ input = [b \in Boxes |-> FALSE]
  /\ pc = [c \in Programs |-> "run"]
  /\ fs = Idle /\ pm = Idle
  /\ calls = MaxCalls

Program(c) ==
  \/ \E name \in Names, flags \in {"O_RDONLY", "O_RDWR"} :
       (name # "file" => flags = "O_RDONLY") /\ open(c, name, flags)
  \/ \E fd \in Slots :
       /\ fds[c][fd].type = "0" => fd = 2      \* one closed descriptor stands for all
       /\ close(c, fd) \/ read(c, fd) \/ io(c, fd) \/ WritePanics(c, fd)
  \/ exit(c)

Next ==
  \/ FileServer \/ ProcessManager \/ Keys
  \/ \E d \in Drivers : Driver(d)
  \/ \E c \in Programs : Program(c) \/ msg_receive(c) \/ cnl_receive(c)

\* Servers, drivers and programs inside a call keep running.  Nobody has to type.
Fairness ==
  /\ WF_vars(FileServer) /\ WF_vars(ProcessManager)
  /\ \A d \in Drivers : WF_vars(Driver(d))
  /\ \A c \in Programs : WF_vars(msg_receive(c)) /\ WF_vars(cnl_receive(c))

Spec == Init /\ [][Next]_vars /\ Fairness
-----------------------------------------------------------------------------
\* Every channel page of a living program belongs to exactly one descriptor, as
\* long as FS and PM are not at work: no open takes an entry or a page in use.
Owners(ch) == {e \in Programs \X Slots : fds[e[1]][e[2]] = [type |-> "CHAR", offset |-> ch]}
OneOwner ==
  fs.at = "idle" /\ pm.at = "idle" =>
    \A ch \in Channels :
      chan[ch] # NoPage /\ pc[chan[ch].end1] # "none" => Cardinality(Owners(ch)) = 1

\* local_exit closes every device: what it leaves behind is at most one channel,
\* that of the entry behind the table.
ExitClosesDevicesStep ==
  \A c \in Programs :
    pc'[c] = "none" /\ pc[c] # "none" =>
      {ch \in Channels : chan[ch].end1 = c} \subseteq {fds[c][MAX_FD].offset}

\* A driver is released only while it is parked, and for the page it is parked
\* for, although FS and PM tell the driver by the number of the descriptor.
ReleasesParkedStep ==
  \A d \in Drivers :
    input'[<<d, FS>>] /\ ~input[<<d, FS>>] =>
      drv[d].at = "parked" /\ chan'[drv[d].from] = NoPage

\* FS waits for the keyboard, and the keyboard for keys; or PM does.
WaitsForKeys ==
  /\ drv[KBD].at = "keys"
  /\ \/ fs.at = "driver" /\ fs.fd = 0
     \/ pm.at = "driver" /\ pm.fd = 0

\* FS waits for PM, PM for a driver, and the driver for FS.
Circle ==
  /\ fs.at = "closing" /\ ~input[<<FS, PM>>] /\ pm.at = "driver"
  /\ drv[DstOf(pm.fd)].at = "parked" /\ ~input[<<DstOf(pm.fd), FS>>]

\* open, close and reads of files return, and exits finish, unless somebody has to
\* type first, a circle has formed, or the descriptor read was closed: then
\* nothing ever answers.
Calls(c) == pc[c] \in {"OPEN_IPC", "CLOSE_IPC", "READ_IPC", "EXIT_IPC"}
ReturnedUnless(c) ==
  \/ pc[c] \in {"run", "none"}
  \/ WaitsForKeys \/ Circle
  \/ pc[c] = "READ_IPC" /\ fds[c][output[c].fd].type = "0"
CallsReturnUnless == \A c \in Programs : Calls(c) ~> ReturnedUnless(c)
=============================================================================
