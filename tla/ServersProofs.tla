--------------------------- MODULE ServersProofs ----------------------------
(***************************************************************************)
(* Proofs about the channels of character devices (module Servers), for    *)
(* any number of programs and of calls, as long as the list of the driver  *)
(* has more entries than there are CPUs for programs.  Requests, the list  *)
(* and the pages are then always in agreement with the descriptors.        *)
(*                                                                         *)
(* The inductive invariant IInv says of every program where its one        *)
(* request to a server is (RequestInv), of FS and PM where theirs to each  *)
(* other is (ServerInv), that the channel is in the list if and only if it *)
(* is wanted (DescriptorInv), that its page has one request at a time and  *)
(* that PM frees it only with the driver parked for it (ChannelInv).       *)
(* Lemma Frame covers the programs that a step is not about.               *)
(***************************************************************************)
EXTENDS Servers, FiniteSetTheorems, WellFoundedInduction, TLAPS

\* What a channel page holds.
Pages == [ready_send : BOOLEAN, ready_reply : BOOLEAN, data : {"none", "request", "CLOSE_CHANNEL"}]

\* FS, or PM, has a request of x in hand.
AtFs(x) == fs.at # "idle" /\ fs.from = x
AtPm(x) == pm.at # "idle" /\ pm.from = x

\* The list has no gaps, nothing twice and at least one free entry at its end.
Packed(l) ==
  /\ \A i \in Slots : l[i] = NoChannel => l[i + 1] = NoChannel
  /\ \A i, j \in Slots : l[i] = l[j] /\ l[i] # NoChannel => i = j
  /\ l[MAX_CHANNELS - 1] = NoChannel /\ l[MAX_CHANNELS] = NoChannel
InList(c) == \E i \in Slots : list[i] = c

\* A program has one request at a time: on its way, in hand, or answered.
RequestInv(c) ==
  /\ c \in ready[FS] =>
       pc[c] \in {"OPEN_IPC", "CLOSE_IPC"} /\ output[c].number = pc[c] /\ ~AtFs(c)
  /\ c \in ready[PM] =>
       pc[c] \in {"FORK_IPC", "EXEC_IPC", "EXIT_IPC"} /\ output[c].number = pc[c] /\ ~AtPm(c)
  /\ AtFs(c) => \/ pc[c] = "OPEN_IPC" /\ fs.at \in {"OPEN_IPC", "opening"}
                \/ pc[c] = "CLOSE_IPC" /\ fs.at \in {"CLOSE_IPC", "driver", "closing"}
  /\ AtPm(c) => \/ pc[c] = "FORK_IPC" /\ pm.at = "FORK_IPC"
                \/ pc[c] = "EXEC_IPC" /\ pm.at \in {"EXEC_IPC", "loading"}
                \/ pc[c] = "EXIT_IPC" /\ pm.at \in {"EXIT_IPC", "driver"}
  /\ input[<<c, FS>>] => pc[c] \in {"OPEN_IPC", "CLOSE_IPC"} /\ c \notin ready[FS] /\ ~AtFs(c)
  /\ input[<<c, PM>>] => pc[c] \in {"FORK_IPC", "EXEC_IPC"} /\ c \notin ready[PM] /\ ~AtPm(c)

\* So have the servers with each other.
ServerInv ==
  /\ FS \in ready[PM] => fs.at \in {"opening", "closing"} /\ ~AtPm(FS)
  /\ AtPm(FS) => \/ pm.at = "CHANNEL_IPC" /\ fs.at = "opening"
                 \/ pm.at = "CHANNEL_CLOSE_IPC" /\ fs.at = "closing"
  /\ input[<<FS, PM>>] => fs.at \in {"opening", "closing"} /\ FS \notin ready[PM] /\ ~AtPm(FS)
  /\ fs.at = "opening" => output[FS] = [number |-> "CHANNEL_IPC", arg |-> fs.from]
  /\ fs.at = "closing" => output[FS] = [number |-> "CHANNEL_CLOSE_IPC", arg |-> fs.from]
  /\ PM \in ready[FS] => pm.at = "loading" /\ output[PM].number = "LOAD_IPC" /\ ~AtFs(PM)
  /\ AtFs(PM) => fs.at = "LOAD_IPC" /\ pm.at = "loading"
  /\ input[<<PM, FS>>] => pm.at = "loading" /\ PM \notin ready[FS] /\ ~AtFs(PM)
  /\ PM \notin ready[PM] /\ FS \notin ready[FS] /\ ~AtFs(FS) /\ ~AtPm(PM)

\* c's channel is to be in the list: PM edits the list between two steps of FS.
Wanted(c) ==
  IF AtFs(c) /\ fs.at \in {"opening", "closing"} /\ input[<<FS, PM>>]
  THEN fs.at = "opening" ELSE fds[c]

\* FS or PM has asked the driver to let go of c's channel.
Closer(c) == (AtFs(c) /\ fs.at = "driver") \/ (AtPm(c) /\ pm.at = "driver")
Serving(c) == drv.at = "serve" /\ drv.from = c
ParkedFor(c) == drv.at = "parked" /\ drv.from = c /\ ~input[<<DRV, FS>>]

DescriptorInv(c) ==
  /\ InList(c) <=> Wanted(c)
  /\ pc[c] = "none" => ~fds[c] /\ ~pending[c]
  /\ AtFs(c) /\ fs.at = "opening" => ~fds[c]
  /\ AtFs(c) /\ fs.at \in {"driver", "closing"} => fds[c]
  /\ AtPm(c) /\ pm.at = "driver" => fds[c]
  /\ pending[c] => fds[c] /\ pc[c] \notin {"CLOSE_IPC", "EXEC_IPC", "EXIT_IPC"}

\* A page has at most one request, by its program or by a server that closes it.
Asked(c) ==
  \/ pending[c] /\ chan[c].data = "request"
  \/ Closer(c) /\ chan[c].data = "CLOSE_CHANNEL"
ChannelInv(c) ==
  /\ chan[c].ready_send => Asked(c) /\ ~chan[c].ready_reply /\ ~Serving(c)
  /\ Serving(c) => Asked(c) /\ ~chan[c].ready_reply
  /\ chan[c].ready_reply => Asked(c) /\ (Closer(c) => ParkedFor(c))
  /\ AtFs(c) /\ fs.at = "closing" => ParkedFor(c)

DriverInv ==
  /\ input[<<DRV, FS>>] => drv.at = "parked"
  /\ drv.at # "scan" => drv.from \in Clients

LocalInv(c) == RequestInv(c) /\ DescriptorInv(c) /\ ChannelInv(c)

IInv ==
  /\ TypeOK /\ Packed(list) /\ ServerInv /\ DriverInv
  /\ \A c \in Clients : LocalInv(c)

\* What the invariants say of d does not change: its own part of the state, what
\* the servers are doing for it, and what the driver is.
SameProgram(d) ==
  /\ pc'[d] = pc[d] /\ fds'[d] = fds[d] /\ pending'[d] = pending[d]
  /\ chan'[d] = chan[d] /\ output'[d] = output[d]
  /\ d \in ready'[FS] <=> d \in ready[FS]
  /\ d \in ready'[PM] <=> d \in ready[PM]
  /\ input'[<<d, FS>>] = input[<<d, FS>>] /\ input'[<<d, PM>>] = input[<<d, PM>>]
SameServers(d) ==
  /\ AtFs(d)' <=> AtFs(d)
  /\ AtPm(d)' <=> AtPm(d)
  /\ AtFs(d) => fs'.at = fs.at /\ input'[<<FS, PM>>] = input[<<FS, PM>>]
  /\ AtPm(d) => pm'.at = pm.at
SameDriver(d) ==
  /\ InList(d)' <=> InList(d)
  /\ Serving(d)' => Serving(d)
  /\ ParkedFor(d) => ParkedFor(d)'
-----------------------------------------------------------------------------
(* The channel list *)

\* A nonempty set of naturals has a lowest element.
LEMMA LowestIn ==
  ASSUME NEW S \in SUBSET Nat, S # {}
  PROVE  Lowest(S) \in S /\ \A y \in S : Lowest(S) <= y
<1> DEFINE R == {ss \in Nat \X Nat : ss[1] < ss[2]}
<1>1. R = OpToRel(<, Nat)
  BY DEF OpToRel
<1>2. IsWellFoundedOn(R, Nat)
  BY <1>1, NatLessThanWellFounded, ZenonT(60)
<1> HIDE DEF R
<1>3. PICK x \in S : \A y \in S : ~(<<y, x>> \in R)
  BY <1>2, WFMin, ZenonT(60)
<1>4. \A y \in S : x <= y
  <2> SUFFICES ASSUME NEW y \in S, y < x PROVE FALSE
    OBVIOUS
  <2>1. <<y, x>> \in Nat \X Nat /\ <<y, x>>[1] = y /\ <<y, x>>[2] = x
    OBVIOUS
  <2>2. <<y, x>> \in R
    BY <2>1 DEF R
  <2> QED BY <1>3, <2>2
<1> QED BY <1>4, ZenonT(60) DEF Lowest

\* In a packed list nothing is entered behind an empty entry.
LEMMA NoGaps ==
  ASSUME NEW l, Packed(l), NEW i \in 0 .. MAX_CHANNELS, l[i] # NoChannel, NEW j \in 0 .. i
  PROVE  l[j] # NoChannel
<1> USE ServersAssumption DEF Slots
<1> DEFINE Good == {k \in j .. i : l[k] # NoChannel}
<1>1. Good \in SUBSET Nat /\ Good # {}
  OBVIOUS
<1>2. PICK m \in Good : \A y \in Good : m <= y
  BY <1>1, LowestIn, ZenonT(60)
<1>3. m = j
  <2> SUFFICES ASSUME m # j PROVE FALSE
    OBVIOUS
  <2>1. m - 1 \in j .. i /\ m - 1 \in Slots /\ m = (m - 1) + 1
    BY <1>2
  <2>2. l[m - 1] # NoChannel
    BY <1>2, <2>1 DEF Packed
  <2> QED BY <1>2, <2>1, <2>2
<1> QED BY <1>2, <1>3

\* So the channels that are polled are those entered.
LEMMA PolledIs ==
  ASSUME Packed(list), NEW c, c # NoChannel
  PROVE  c \in Polled(list) <=> InList(c)
<1> USE ServersAssumption DEF Slots
<1>1. \A i \in Slots : list[i] # NoChannel => \A j \in 0 .. i : list[j] # NoChannel
  BY NoGaps
<1> QED BY <1>1 DEF Polled, InList

\* What the outer loop of remove_channel_list computes.
Loop(l, c, f) ==
  f = [j \in 0 .. MAX_CHANNELS |->
         IF j = 0 THEN l
         ELSE IF f[j - 1][j - 1] = c THEN ShiftDown(f[j - 1], j - 1)
         ELSE f[j - 1]]

\* A channel that is entered once is taken out by one pass of the inner loop.
LEMMA RemoveOnce ==
  ASSUME NEW l, NEW c, NEW k \in Slots, l[k] = c,
         \A j \in Slots : j # k => l[j] # c,
         \A j \in Slots : j > k => ShiftDown(l, k)[j] # c
  PROVE  remove_channel_list(l, c) = ShiftDown(l, k)
<1> USE ServersAssumption DEF Slots
<1> DEFINE M == ShiftDown(l, k)
           g == [j \in 0 .. MAX_CHANNELS |-> IF j <= k THEN l ELSE M]
           f == CHOOSE h : Loop(l, c, h)
<1>1. Loop(l, c, g)
  <2> HIDE DEF M
  <2>0. M = ShiftDown(l, k)
    BY DEF M
  <2>1. ASSUME NEW j \in 0 .. MAX_CHANNELS
        PROVE  g[j] = IF j = 0 THEN l
                      ELSE IF g[j - 1][j - 1] = c THEN ShiftDown(g[j - 1], j - 1)
                      ELSE g[j - 1]
    <3>1. CASE j <= k
      BY <3>1
    <3>2. CASE j = k + 1
      BY <2>0, <3>2
    <3>3. CASE j > k + 1
      <4>1. j - 1 \in Slots /\ j - 1 > k
        BY <3>3
      <4>2. M[j - 1] # c
        BY <2>0, <4>1
      <4> QED BY <3>3, <4>2
    <3> QED BY <3>1, <3>2, <3>3
  <2> QED BY <2>1, ZenonT(60) DEF Loop
<1>2. Loop(l, c, f)
  BY <1>1, ZenonT(60)
<1>3. remove_channel_list(l, c) = f[MAX_CHANNELS]
  BY DEF remove_channel_list, Loop
<1> HIDE DEF f, M
<1>4. ASSUME NEW j \in 0 .. MAX_CHANNELS
      PROVE  f[j] = IF j = 0 THEN l
                    ELSE IF f[j - 1][j - 1] = c THEN ShiftDown(f[j - 1], j - 1)
                    ELSE f[j - 1]
  BY <1>2, ZenonT(60) DEF Loop
<1>5. ASSUME NEW j \in 0 .. MAX_CHANNELS
      PROVE  g[j] = IF j = 0 THEN l
                    ELSE IF g[j - 1][j - 1] = c THEN ShiftDown(g[j - 1], j - 1)
                    ELSE g[j - 1]
  BY <1>1, ZenonT(60) DEF Loop
<1> HIDE DEF g
<1>6. \A j \in 0 .. MAX_CHANNELS : f[j] = g[j]
  <2> DEFINE Bad == {j \in 0 .. MAX_CHANNELS : f[j] # g[j]}
  <2> SUFFICES ASSUME Bad # {} PROVE FALSE
    OBVIOUS
  <2>1. Bad \in SUBSET Nat
    OBVIOUS
  <2>2. PICK m \in Bad : \A y \in Bad : m <= y
    BY <2>1, LowestIn, ZenonT(60)
  <2>3. m # 0
    BY <1>4, <1>5
  <2>4. f[m - 1] = g[m - 1]
    BY <2>2, <2>3
  <2> QED BY <1>4, <1>5, <2>3, <2>4
<1> QED BY <1>3, <1>6 DEF g, M

\* Fewer clients than entries: a full list has a client twice.
LEMMA FullListRepeats ==
  ASSUME IsFiniteSet(Clients), Cardinality(Clients) < MAX_CHANNELS, NEW f \in [Slots -> Clients]
  PROVE  \E i, j \in Slots : i # j /\ f[i] = f[j]
<1>1. IsFiniteSet(Slots)
  BY FS_Interval, ServersAssumption DEF Slots
<1>2. Cardinality(Slots) = MAX_CHANNELS
  BY FS_Interval, ServersAssumption DEF Slots
<1>3. Cardinality(Clients) < Cardinality(Slots)
  BY <1>2
<1> QED BY <1>1, <1>3, FS_PigeonHole, ZenonT(60)

\* add_channel_list enters a new channel behind the last one.  There is room for
\* it as long as there are fewer clients than entries.
LEMMA AddIs ==
  ASSUME IsFiniteSet(Clients), Cardinality(Clients) < MAX_CHANNELS,
         list \in [0 .. MAX_CHANNELS -> Clients \union {NoChannel}], Packed(list),
         NEW c \in Clients, ~InList(c), list' = add_channel_list(list, c)
  PROVE  /\ Appended(c) /\ Packed(list)'
         /\ list' \in [0 .. MAX_CHANNELS -> Clients \union {NoChannel}]
         /\ \A d \in Clients : InList(d)' <=> InList(d) \/ d = c
<1> USE ServersAssumption DEF Slots, NoChannel, FS, DRV
<1> DEFINE free == {i \in Slots : list[i] = NoChannel}
<1>1. free \in SUBSET Nat /\ MAX_CHANNELS - 1 \in free
  BY DEF Packed
<1>2. Lowest(free) \in free /\ \A i \in free : Lowest(free) <= i
  BY <1>1, LowestIn, ZenonT(60)
<1>3. PICK n \in free : /\ \A i \in free : n <= i
                        /\ list' = [list EXCEPT ![n] = c]
  BY <1>1, <1>2, ZenonT(60) DEF add_channel_list
<1>4. /\ list' \in [0 .. MAX_CHANNELS -> Clients \union {NoChannel}]
      /\ n \in Slots /\ list'[n] = c /\ c # NoChannel
      /\ \A i \in 0 .. MAX_CHANNELS : i # n => list'[i] = list[i]
      /\ \A i \in 0 .. n - 1 : list[i] # NoChannel
      /\ \A i \in n .. MAX_CHANNELS : list[i] = NoChannel
  <2>1. ASSUME NEW i \in n .. MAX_CHANNELS, list[i] # NoChannel PROVE FALSE
    BY <1>3, <2>1, NoGaps
  <2> QED BY <1>3, <2>1
<1>5. Appended(c)
  <2>1. \A i \in 0 .. n - 1 : list[i] \notin {NoChannel, c}
    BY <1>4 DEF InList
  <2> QED BY <1>3, <1>4, <2>1, ZenonT(60) DEF Appended
<1>6. n # MAX_CHANNELS - 1
  <2> SUFFICES ASSUME n = MAX_CHANNELS - 1 PROVE FALSE
    OBVIOUS
  <2>0. PICK f : f = [i \in Slots |-> list'[i]]
    BY ZenonT(60)
  <2>1. f \in [Slots -> Clients]
    BY <1>4, <2>0
  <2>2. \A i, j \in Slots : f[i] = f[j] => i = j
    BY <1>4, <2>0 DEF Packed, InList
  <2> HIDE DEF Slots
  <2> QED BY <2>1, <2>2, FullListRepeats
<1>7. Packed(list)'
  BY <1>4, <1>6 DEF Packed, InList
<1>8. \A d \in Clients : InList(d)' <=> InList(d) \/ d = c
  BY <1>4 DEF InList
<1> QED BY <1>4, <1>5, <1>7, <1>8

\* remove_channel_list takes a channel out and closes the gap.
LEMMA RemoveIs ==
  ASSUME list \in [0 .. MAX_CHANNELS -> Clients \union {NoChannel}], Packed(list),
         NEW c \in Clients, InList(c), list' = remove_channel_list(list, c)
  PROVE  /\ TakenOut(c) /\ Packed(list)'
         /\ list' \in [0 .. MAX_CHANNELS -> Clients \union {NoChannel}]
         /\ \A d \in Clients : InList(d)' <=> InList(d) /\ d # c
<1> USE ServersAssumption DEF Slots, NoChannel, FS, DRV
<1>1. PICK k \in Slots : list[k] = c
  BY DEF InList
<1>2. c # NoChannel /\ k < MAX_CHANNELS - 1 /\ \A j \in Slots : j # k => list[j] # c
  BY <1>1 DEF Packed
<1> DEFINE stops == {m \in k .. MAX_CHANNELS - 2 : list[m] = NoChannel}
           stop == IF stops = {} THEN MAX_CHANNELS - 1 ELSE Lowest(stops)
           M == ShiftDown(list, k)
<1>3. /\ stop \in k + 1 .. MAX_CHANNELS - 1 /\ list[stop] = NoChannel
  <2>1. CASE stops = {}
    BY <1>2, <2>1 DEF Packed
  <2>2. CASE stops # {}
    <3>1. stops \in SUBSET Nat
      OBVIOUS
    <3>2. Lowest(stops) \in stops
      BY <2>2, <3>1, LowestIn, ZenonT(60)
    <3> QED BY <1>1, <1>2, <2>2, <3>2
  <2> QED BY <2>1, <2>2
<1>4. \A i \in stop .. MAX_CHANNELS : list[i] = NoChannel
  <2> HIDE DEF stop
  <2> SUFFICES ASSUME NEW i \in stop .. MAX_CHANNELS, list[i] # NoChannel PROVE FALSE
    OBVIOUS
  <2> QED BY <1>3, NoGaps
<1>5. M = [i \in 0 .. MAX_CHANNELS |-> IF i = stop + 1 THEN NoChannel
                                     ELSE IF k <= i /\ i < stop THEN list[i + 1]
                                     ELSE list[i]]
  BY DEF ShiftDown
<1> HIDE DEF stop, M
<1>6. \A i \in Slots : M[i] = IF i < k THEN list[i] ELSE list[i + 1]
  BY <1>1, <1>3, <1>4, <1>5
<1>7. M \in [0 .. MAX_CHANNELS -> Clients \union {NoChannel}] /\ M[MAX_CHANNELS] = NoChannel
  BY <1>3, <1>4, <1>5
<1>8. ASSUME NEW j \in Slots PROVE M[j] # c
  <2>1. CASE j < k
    BY <1>2, <1>6, <2>1
  <2>2. CASE ~(j < k) /\ j + 1 \in Slots
    BY <1>1, <1>2, <1>6, <2>2
  <2>3. CASE ~(j < k) /\ j + 1 = MAX_CHANNELS
    BY <1>1, <1>2, <1>6, <2>3, ZenonT(60) DEF Packed
  <2> QED BY <2>1, <2>2, <2>3
<1>9. list' = M
  BY <1>1, <1>2, <1>8, RemoveOnce DEF M
<1>10. TakenOut(c)
  BY <1>1, <1>6, <1>9 DEF TakenOut
<1>11. Packed(list)'
  <2>1. ASSUME NEW i \in Slots, M[i] = NoChannel PROVE M[i + 1] = NoChannel
    <3>1. CASE i + 1 = MAX_CHANNELS
      BY <1>7, <3>1
    <3>2. CASE i + 1 \in Slots /\ i + 1 < k
      BY <1>6, <2>1, <3>2 DEF Packed
    <3>3. CASE i + 1 \in Slots /\ i + 1 = k
      BY <1>1, <1>2, <1>6, <2>1, <3>3 DEF Packed
    <3>4. CASE i + 1 \in Slots /\ k < i + 1
      BY <1>1, <1>6, <2>1, <3>4 DEF Packed
    <3> QED BY <1>1, <3>1, <3>2, <3>3, <3>4
  <2>2. ASSUME NEW i \in Slots, NEW j \in Slots, M[i] = M[j], M[i] # NoChannel, i < j PROVE FALSE
    <3>1. j + 1 \in Slots
      BY <1>2, <1>6, <2>2 DEF Packed
    <3> QED BY <1>1, <1>6, <2>2, <3>1 DEF Packed
  <2>3. M[MAX_CHANNELS - 1] = NoChannel
    BY <1>1, <1>2, <1>6 DEF Packed
  <2> QED BY <1>7, <1>9, <2>1, <2>2, <2>3 DEF Packed
<1>12. ASSUME NEW d \in Clients PROVE InList(d)' <=> InList(d) /\ d # c
  <2>1. ASSUME NEW i \in Slots, list[i] = d, d # c PROVE \E j \in Slots : M[j] = d
    <3>1. CASE i < k
      BY <1>6, <2>1, <3>1
    <3>2. CASE i > k
      <4>1. i - 1 \in Slots /\ ~(i - 1 < k) /\ (i - 1) + 1 = i
        BY <1>1, <3>2
      <4> QED BY <1>6, <2>1, <4>1, ZenonT(60)
    <3> QED BY <1>1, <2>1, <3>1, <3>2
  <2>2. ASSUME NEW j \in Slots, M[j] = d PROVE \E i \in Slots : list[i] = d
    <3>1. j < k \/ j + 1 \in Slots
      <4> SUFFICES ASSUME j = MAX_CHANNELS - 1 PROVE d = NoChannel
        BY <1>2
      <4> QED BY <1>2, <1>6, <2>2 DEF Packed
    <3> QED BY <1>6, <2>2, <3>1
  <2> QED BY <1>8, <1>9, <2>1, <2>2 DEF InList
<1> QED BY <1>7, <1>9, <1>10, <1>11, <1>12
-----------------------------------------------------------------------------
(* The inductive invariant *)

\* The CPUs of the servers, of the driver and of programs are different.
LEMMA Ids ==
  /\ PM # FS /\ PM # DRV /\ FS # DRV
  /\ \A c \in Clients : c # PM /\ c # FS /\ c # DRV /\ c # NoChannel
BY ServersAssumption DEF PM, FS, DRV, NoChannel

\* The initial state satisfies the invariant.
LEMMA InitIInv == Init => IInv
<1> SUFFICES ASSUME Init PROVE IInv
  OBVIOUS
<1>1. TypeOK
  BY ServersAssumption
  DEF Init, TypeOK, Idle, Clean, EmptyList, Boxes, Numbers, Calls, Slots, PM, FS
<1>2. Packed(list)
  BY ServersAssumption DEF Init, Packed, EmptyList, Slots
<1>3. ServerInv /\ DriverInv
  BY Ids DEF Init, ServerInv, DriverInv, Idle, AtFs, AtPm, Boxes
<1>4. ASSUME NEW c \in Clients PROVE LocalInv(c)
  <2>1. ~InList(c)
    BY Ids, ServersAssumption DEF Init, InList, EmptyList, Slots
  <2>2. <<c, FS>> \in Boxes /\ <<c, PM>> \in Boxes
    BY DEF Boxes
  <2>3. /\ ~input[<<c, FS>>] /\ ~input[<<c, PM>>] /\ c \notin ready[FS] /\ c \notin ready[PM]
        /\ ~AtFs(c) /\ ~AtPm(c) /\ ~fds[c] /\ ~pending[c]
        /\ ~chan[c].ready_send /\ ~chan[c].ready_reply /\ ~Serving(c)
    BY <2>2 DEF Init, AtFs, AtPm, Idle, Clean, Serving
  <2> QED BY <2>1, <2>3 DEF LocalInv, RequestInv, DescriptorInv, ChannelInv, Wanted
<1> QED BY <1>1, <1>2, <1>3, <1>4 DEF IInv

\* A step that does not touch d keeps what the invariants say of d.
LEMMA Frame ==
  ASSUME NEW d \in Clients, LocalInv(d), SameProgram(d), SameServers(d), SameDriver(d)
  PROVE  LocalInv(d)'
<1>1. RequestInv(d)'
  BY DEF LocalInv, RequestInv, SameProgram, SameServers
<1>2. Wanted(d)' <=> Wanted(d)
  BY DEF Wanted, SameProgram, SameServers
<1>3. DescriptorInv(d)'
  BY <1>2 DEF LocalInv, DescriptorInv, SameProgram, SameServers, SameDriver
<1>4. (Closer(d)' <=> Closer(d)) /\ (Asked(d)' <=> Asked(d))
  BY DEF Closer, Asked, SameProgram, SameServers
<1>5. ChannelInv(d)'
  BY <1>4 DEF LocalInv, ChannelInv, SameProgram, SameServers, SameDriver
<1> QED BY <1>1, <1>3, <1>5 DEF LocalInv

\* A step that leaves the list alone.
LEMMA KeepsList ==
  ASSUME Packed(list), list' = list
  PROVE  Packed(list)'
BY DEF Packed

\* One message is put into a box, or taken out of it.
LEMMA BoxSet ==
  ASSUME TypeOK, NEW b \in Boxes, NEW v \in BOOLEAN, input' = [input EXCEPT ![b] = v]
  PROVE  /\ input' \in [Boxes -> BOOLEAN] /\ input'[b] = v
         /\ \A x \in Boxes : x # b => input'[x] = input[x]
BY DEF TypeOK

\* The boxes that the steps use.
LEMMA BoxesAre ==
  /\ <<FS, PM>> \in Boxes /\ <<PM, FS>> \in Boxes /\ <<DRV, FS>> \in Boxes
  /\ \A c \in Clients : <<c, FS>> \in Boxes /\ <<c, PM>> \in Boxes
BY DEF Boxes

\* A program that runs, and a CPU without a program, has no request anywhere.
LEMMA NoRequest ==
  ASSUME NEW c \in Clients, LocalInv(c), pc[c] \in {"run", "none"}
  PROVE  /\ c \notin ready[FS] /\ c \notin ready[PM] /\ ~AtFs(c) /\ ~AtPm(c)
         /\ ~input[<<c, FS>>] /\ ~input[<<c, PM>>]
BY DEF LocalInv, RequestInv

\* Nobody waits for the driver on behalf of such a program, and fork enters its
\* child in a list that does not have it.
LEMMA NotCloser ==
  ASSUME NEW c \in Clients, LocalInv(c), pc[c] \notin {"CLOSE_IPC", "EXIT_IPC"}
  PROVE  ~Closer(c)
BY DEF LocalInv, RequestInv, Closer

-----------------------------------------------------------------------------
(* The programs *)

\* A program sends a request to FS or PM.
LEMMA CallStep ==
  ASSUME IInv, NEW c \in Clients, NEW op, NEW s, Call(c, op, s),
         \/ op \in {"OPEN_IPC", "CLOSE_IPC"} /\ s = FS
         \/ op \in {"FORK_IPC", "EXEC_IPC", "EXIT_IPC"} /\ s = PM,
         op \in {"CLOSE_IPC", "EXEC_IPC", "EXIT_IPC"} => ~pending[c]
  PROVE  IInv'
<1>1. /\ pc[c] = "run" /\ calls > 0 /\ calls' = calls - 1
      /\ pc' = [pc EXCEPT ![c] = op]
      /\ output' = [output EXCEPT ![c] = [number |-> op, arg |-> c]]
      /\ ready' = [ready EXCEPT ![s] = ready[s] \union {c}]
      /\ fds' = fds /\ chan' = chan /\ list' = list /\ drv' = drv
      /\ input' = input /\ pending' = pending /\ fs' = fs /\ pm' = pm
  BY DEF Call, MayCall, msg_send, devices
<1>2. TypeOK'
  <2>1. op \in Numbers /\ op \in Calls \ {"cnl_send"} /\ s \in {PM, FS}
    BY DEF Numbers, Calls
  <2>2. [number |-> op, arg |-> c] \in [number : Numbers \union {"none"}, arg : Clients \union {0}]
    BY <2>1
  <2>3. output' \in [Clients \union {PM, FS} -> [number : Numbers \union {"none"}, arg : Clients \union {0}]]
    BY <1>1, <2>2, ZenonT(60) DEF IInv, TypeOK
  <2>4. ready' \in [{PM, FS} -> SUBSET (Clients \union {PM, FS})]
    BY <1>1, <2>1 DEF IInv, TypeOK
  <2>5. pc' \in [Clients -> (Calls \ {"cnl_send"}) \union {"run", "none"}]
    BY <1>1, <2>1 DEF IInv, TypeOK
  <2>6. calls' \in Nat
    BY <1>1 DEF IInv, TypeOK
  <2> QED BY <1>1, <2>3, <2>4, <2>5, <2>6, ZenonT(60) DEF IInv, TypeOK
<1>3. /\ pc'[c] = op /\ output'[c].number = op
      /\ \A d \in Clients : d # c => pc'[d] = pc[d] /\ output'[d] = output[d]
      /\ output'[FS] = output[FS] /\ output'[PM] = output[PM]
      /\ ready'[FS] = IF s = FS THEN ready[FS] \union {c} ELSE ready[FS]
      /\ ready'[PM] = IF s = PM THEN ready[PM] \union {c} ELSE ready[PM]
  BY <1>1, Ids, ZenonT(60) DEF IInv, TypeOK
<1>4. Packed(list)' /\ ServerInv' /\ DriverInv'
  <2>1. ServerInv'
    <3>1. /\ FS \in ready'[PM] <=> FS \in ready[PM]
          /\ PM \in ready'[FS] <=> PM \in ready[FS]
          /\ PM \in ready'[PM] <=> PM \in ready[PM]
          /\ FS \in ready'[FS] <=> FS \in ready[FS]
      BY <1>3, Ids
    <3> QED BY <1>1, <1>3, <3>1, ZenonT(60) DEF IInv, ServerInv, AtFs, AtPm
  <2> QED BY <1>1, <2>1, KeepsList DEF IInv, DriverInv
<1>5. ASSUME NEW d \in Clients, d # c PROVE LocalInv(d)'
  <2>1. SameProgram(d)
    <3>1. /\ d \in ready'[FS] <=> d \in ready[FS]
          /\ d \in ready'[PM] <=> d \in ready[PM]
      BY <1>3, <1>5
    <3> QED BY <1>1, <1>3, <1>5, <3>1, ZenonT(60) DEF SameProgram
  <2>2. SameServers(d) /\ SameDriver(d)
    BY <1>1 DEF SameServers, SameDriver, AtFs, AtPm, InList, Serving, ParkedFor
  <2> QED BY <2>1, <2>2, Frame DEF IInv
<1>6. LocalInv(c)'
  <2>1. LocalInv(c)
    BY DEF IInv
  <2>2. /\ c \notin ready[FS] /\ c \notin ready[PM] /\ ~AtFs(c) /\ ~AtPm(c)
        /\ ~input[<<c, FS>>] /\ ~input[<<c, PM>>]
    BY <1>1, <2>1, NoRequest
  <2>3. ~AtFs(c)' /\ ~AtPm(c)'
    BY <1>1, <2>2 DEF AtFs, AtPm
  <2>4. RequestInv(c)'
    BY <1>1, <1>3, <2>2, <2>3, Ids DEF RequestInv
  <2>5. DescriptorInv(c)'
    BY <1>1, <1>3, <2>1, <2>2, <2>3, ZenonT(60) DEF LocalInv, DescriptorInv, Wanted, InList
  <2>6. ChannelInv(c)'
    BY <1>1, <2>1, <2>2, <2>3 DEF LocalInv, ChannelInv, Asked, Closer, Serving, ParkedFor
  <2> QED BY <2>4, <2>5, <2>6 DEF LocalInv
<1> QED BY <1>2, <1>4, <1>5, <1>6 DEF IInv

\* A call returns.
LEMMA ReceiveStep ==
  ASSUME IInv, NEW c \in Clients, msg_receive(c)
  PROVE  IInv'
<1> DEFINE s == ServerOf(pc[c])
<1>1. /\ pc[c] \in {"OPEN_IPC", "CLOSE_IPC", "FORK_IPC", "EXEC_IPC"}
      /\ input[<<c, s>>] /\ input' = [input EXCEPT ![<<c, s>>] = FALSE]
      /\ pc' = [pc EXCEPT ![c] = "run"]
      /\ fds' = fds /\ chan' = chan /\ list' = list /\ drv' = drv /\ ready' = ready
      /\ output' = output /\ pending' = pending /\ fs' = fs /\ pm' = pm /\ calls' = calls
  BY DEF msg_receive, devices
<1>2. \/ s = FS /\ pc[c] \in {"OPEN_IPC", "CLOSE_IPC"}
      \/ s = PM /\ pc[c] \in {"FORK_IPC", "EXEC_IPC"}
  BY <1>1 DEF ServerOf
<1> HIDE DEF s
<1>3. /\ input' \in [Boxes -> BOOLEAN] /\ ~input'[<<c, s>>]
      /\ \A x \in Boxes : x # <<c, s>> => input'[x] = input[x]
  BY <1>1, <1>2, BoxSet, BoxesAre, ZenonT(60) DEF IInv
<1>4. /\ input'[<<FS, PM>>] = input[<<FS, PM>>] /\ input'[<<PM, FS>>] = input[<<PM, FS>>]
      /\ input'[<<DRV, FS>>] = input[<<DRV, FS>>]
      /\ \A d \in Clients : d # c => /\ input'[<<d, FS>>] = input[<<d, FS>>]
                                     /\ input'[<<d, PM>>] = input[<<d, PM>>]
      /\ s = FS => input'[<<c, PM>>] = input[<<c, PM>>]
      /\ s = PM => input'[<<c, FS>>] = input[<<c, FS>>]
  BY <1>2, <1>3, Ids, BoxesAre
<1>5. TypeOK'
  BY <1>1, <1>3 DEF IInv, TypeOK
<1>6. pc'[c] = "run" /\ \A d \in Clients : d # c => pc'[d] = pc[d]
  BY <1>1 DEF IInv, TypeOK
<1>7. Packed(list)' /\ ServerInv' /\ DriverInv'
  BY <1>1, <1>4, KeepsList DEF IInv, ServerInv, DriverInv, AtFs, AtPm
<1>8. ASSUME NEW d \in Clients, d # c PROVE LocalInv(d)'
  <2>1. SameProgram(d)
    BY <1>1, <1>4, <1>6, <1>8 DEF SameProgram
  <2>2. SameServers(d) /\ SameDriver(d)
    BY <1>1, <1>4, ZenonT(60) DEF SameServers, SameDriver, AtFs, AtPm, InList, Serving, ParkedFor
  <2> QED BY <2>1, <2>2, Frame DEF IInv
<1>9. LocalInv(c)'
  <2>1. LocalInv(c)
    BY DEF IInv
  <2>2. /\ c \notin ready[FS] /\ c \notin ready[PM] /\ ~AtFs(c) /\ ~AtPm(c)
        /\ ~input'[<<c, FS>>] /\ ~input'[<<c, PM>>]
    BY <1>1, <1>2, <1>3, <1>4, <2>1 DEF LocalInv, RequestInv
  <2>3. ~AtFs(c)' /\ ~AtPm(c)'
    BY <1>1, <2>2 DEF AtFs, AtPm
  <2>4. RequestInv(c)'
    BY <1>1, <2>2, <2>3 DEF RequestInv
  <2>5. DescriptorInv(c)'
    BY <1>1, <1>6, <2>1, <2>2, <2>3 DEF LocalInv, DescriptorInv, Wanted, InList
  <2>6. ChannelInv(c)'
    BY <1>1, <1>4, <2>1, <2>2, <2>3, ZenonT(60) DEF LocalInv, ChannelInv, Asked, Closer, Serving, ParkedFor
  <2> QED BY <2>4, <2>5, <2>6 DEF LocalInv
<1> QED BY <1>5, <1>7, <1>8, <1>9 DEF IInv

\* A page of a channel changes.
LEMMA PageSet ==
  ASSUME TypeOK, NEW c \in Clients, NEW p \in Pages, chan' = [chan EXCEPT ![c] = p]
  PROVE  /\ chan' \in [Clients -> Pages] /\ chan'[c] = p
         /\ \A d \in Clients : d # c => chan'[d] = chan[d]
BY DEF TypeOK, Pages

\* So it does when one of its flags is set or cleared.
LEMMA PageFlag ==
  ASSUME TypeOK, NEW c \in Clients, NEW v \in BOOLEAN
  PROVE  /\ [chan[c] EXCEPT !.ready_send = v] \in Pages
         /\ [chan[c] EXCEPT !.ready_reply = v] \in Pages
         /\ [chan[c] EXCEPT !.ready_send = v].ready_send = v
         /\ [chan[c] EXCEPT !.ready_send = v].ready_reply = chan[c].ready_reply
         /\ [chan[c] EXCEPT !.ready_send = v].data = chan[c].data
         /\ [chan[c] EXCEPT !.ready_reply = v].ready_reply = v
         /\ [chan[c] EXCEPT !.ready_reply = v].ready_send = chan[c].ready_send
         /\ [chan[c] EXCEPT !.ready_reply = v].data = chan[c].data
<1>1. chan[c] \in Pages
  BY DEF TypeOK, Pages
<1> QED BY <1>1 DEF Pages

\* A program writes a request into its channel.
LEMMA SendStep ==
  ASSUME IInv, NEW c \in Clients, cnl_send(c)
  PROVE  IInv'
<1>1. /\ pc[c] = "run" /\ fds[c] /\ ~pending[c] /\ calls > 0 /\ calls' = calls - 1
      /\ chan' = [chan EXCEPT ![c] = [ready_send |-> TRUE, ready_reply |-> FALSE,
                                      data |-> "request"]]
      /\ pending' = [pending EXCEPT ![c] = TRUE]
      /\ fds' = fds /\ list' = list /\ drv' = drv /\ ready' = ready /\ output' = output
      /\ input' = input /\ pc' = pc /\ fs' = fs /\ pm' = pm
  BY DEF cnl_send, MayCall, Sent
<1>2. TypeOK'
  BY <1>1 DEF IInv, TypeOK
<1>3. /\ pending'[c] /\ chan'[c].ready_send /\ ~chan'[c].ready_reply /\ chan'[c].data = "request"
      /\ \A d \in Clients : d # c => pending'[d] = pending[d] /\ chan'[d] = chan[d]
  BY <1>1 DEF IInv, TypeOK
<1>4. Packed(list)' /\ ServerInv' /\ DriverInv'
  BY <1>1, KeepsList DEF IInv, ServerInv, DriverInv, AtFs, AtPm
<1>5. ASSUME NEW d \in Clients, d # c PROVE LocalInv(d)'
  <2>1. SameProgram(d)
    BY <1>1, <1>3, <1>5 DEF SameProgram
  <2>2. SameServers(d) /\ SameDriver(d)
    BY <1>1 DEF SameServers, SameDriver, AtFs, AtPm, InList, Serving, ParkedFor
  <2> QED BY <2>1, <2>2, Frame DEF IInv
<1>6. LocalInv(c)'
  <2>1. LocalInv(c)
    BY DEF IInv
  <2>2. ~AtFs(c) /\ ~AtPm(c) /\ ~Closer(c)
    BY <1>1, <2>1, NoRequest, NotCloser, ZenonT(60)
  <2>3. ~AtFs(c)' /\ ~AtPm(c)'
    BY <1>1, <2>2 DEF AtFs, AtPm
  <2>4. ~Serving(c)'
    BY <1>1, <2>1, <2>2 DEF LocalInv, ChannelInv, Asked, Serving
  <2>5. RequestInv(c)'
    BY <1>1, <2>1, <2>2, <2>3, ZenonT(60) DEF LocalInv, RequestInv
  <2>6. DescriptorInv(c)'
    BY <1>1, <2>1, <2>2, <2>3, ZenonT(60) DEF LocalInv, DescriptorInv, Wanted, InList
  <2>7. ChannelInv(c)'
    BY <1>3, <2>3, <2>4 DEF ChannelInv, Asked
  <2> QED BY <2>5, <2>6, <2>7 DEF LocalInv
<1> QED BY <1>2, <1>4, <1>5, <1>6 DEF IInv

\* It takes the answer.
LEMMA AnswerStep ==
  ASSUME IInv, NEW c \in Clients, cnl_receive(c)
  PROVE  IInv'
<1>1. /\ pc[c] = "run" /\ pending[c] /\ chan[c].ready_reply
      /\ chan' = [chan EXCEPT ![c] = [chan[c] EXCEPT !.ready_reply = FALSE]]
      /\ pending' = [pending EXCEPT ![c] = FALSE]
      /\ fds' = fds /\ list' = list /\ drv' = drv /\ ready' = ready /\ output' = output
      /\ input' = input /\ pc' = pc /\ fs' = fs /\ pm' = pm /\ calls' = calls
  BY DEF cnl_receive, Received
<1>a. /\ chan' \in [Clients -> Pages]
      /\ chan'[c].ready_send = chan[c].ready_send /\ ~chan'[c].ready_reply
      /\ \A d \in Clients : d # c => chan'[d] = chan[d]
  BY <1>1, PageSet, PageFlag, ZenonT(60) DEF IInv
<1>2. TypeOK'
  BY <1>1, <1>a DEF IInv, TypeOK, Pages
<1>3. /\ ~pending'[c] /\ chan'[c].ready_send = chan[c].ready_send /\ ~chan'[c].ready_reply
      /\ \A d \in Clients : d # c => pending'[d] = pending[d] /\ chan'[d] = chan[d]
  BY <1>1, <1>a DEF IInv, TypeOK
<1>4. Packed(list)' /\ ServerInv' /\ DriverInv'
  BY <1>1, KeepsList DEF IInv, ServerInv, DriverInv, AtFs, AtPm
<1>5. ASSUME NEW d \in Clients, d # c PROVE LocalInv(d)'
  <2>1. SameProgram(d)
    BY <1>1, <1>3, <1>5 DEF SameProgram
  <2>2. SameServers(d) /\ SameDriver(d)
    BY <1>1 DEF SameServers, SameDriver, AtFs, AtPm, InList, Serving, ParkedFor
  <2> QED BY <2>1, <2>2, Frame DEF IInv
<1>6. LocalInv(c)'
  <2>1. LocalInv(c)
    BY DEF IInv
  <2>2. ~AtFs(c) /\ ~AtPm(c)
    BY <1>1, <2>1, NoRequest, ZenonT(60)
  <2>3. ~AtFs(c)' /\ ~AtPm(c)'
    BY <1>1, <2>2 DEF AtFs, AtPm
  <2>4. ~Serving(c)' /\ ~chan'[c].ready_send
    BY <1>1, <1>3, <2>1 DEF LocalInv, ChannelInv, Serving
  <2>5. RequestInv(c)'
    BY <1>1, <2>1, <2>2, <2>3 DEF LocalInv, RequestInv
  <2>6. DescriptorInv(c)'
    BY <1>1, <1>3, <2>1, <2>2, <2>3 DEF LocalInv, DescriptorInv, Wanted, InList
  <2>7. ChannelInv(c)'
    BY <1>3, <2>3, <2>4, ZenonT(60) DEF ChannelInv
  <2> QED BY <2>5, <2>6, <2>7 DEF LocalInv
<1> QED BY <1>2, <1>4, <1>5, <1>6 DEF IInv

-----------------------------------------------------------------------------
(* The driver *)

\* A turn of the scan that finds nothing.
LEMMA ScanOnStep ==
  ASSUME IInv, ScanOn
  PROVE  IInv'
<1>1. /\ drv' = [drv EXCEPT !.i = IF list[drv.i] = NoChannel THEN 0 ELSE Wrap(drv.i + 1)]
      /\ fds' = fds /\ chan' = chan /\ list' = list /\ ready' = ready /\ output' = output
      /\ input' = input /\ pc' = pc /\ pending' = pending /\ fs' = fs /\ pm' = pm
      /\ calls' = calls
  BY DEF ScanOn, others
<1>2. drv'.at = drv.at /\ drv'.from = drv.from
  BY <1>1 DEF IInv, TypeOK
<1>a. (IF list[drv.i] = NoChannel THEN 0 ELSE Wrap(drv.i + 1)) \in Slots
  BY ServersAssumption DEF IInv, TypeOK, Wrap, Slots
<1>3. TypeOK'
  BY <1>1, <1>a, ZenonT(60) DEF IInv, TypeOK
<1>4. Packed(list)' /\ ServerInv' /\ DriverInv'
  BY <1>1, <1>2, KeepsList DEF IInv, ServerInv, DriverInv, AtFs, AtPm
<1>5. ASSUME NEW d \in Clients PROVE LocalInv(d)'
  <2>1. SameProgram(d) /\ SameServers(d)
    BY <1>1 DEF SameProgram, SameServers, AtFs, AtPm
  <2>2. SameDriver(d)
    BY <1>1, <1>2 DEF SameDriver, InList, Serving, ParkedFor
  <2> QED BY <2>1, <2>2, Frame DEF IInv
<1> QED BY <1>3, <1>4, <1>5 DEF IInv

\* The driver takes up the request of a channel in the list.
LEMMA ScanFindsStep ==
  ASSUME IInv, ScanFinds
  PROVE  IInv'
<1>0. list[drv.i] \in Clients
  <2>1. drv.i \in 0 .. MAX_CHANNELS
    BY ServersAssumption DEF IInv, TypeOK, Slots
  <2> QED BY <2>1 DEF IInv, TypeOK, ScanFinds
<1>a. PICK c \in Clients : c = list[drv.i]
  BY <1>0
<1>1. /\ drv.at = "scan" /\ c # NoChannel /\ chan[c].ready_send
      /\ chan' = [chan EXCEPT ![c] = [chan[c] EXCEPT !.ready_send = FALSE]]
      /\ drv' = [at |-> "serve", i |-> Wrap(drv.i + 1), from |-> c]
      /\ fds' = fds /\ list' = list /\ ready' = ready /\ output' = output /\ input' = input
      /\ pc' = pc /\ pending' = pending /\ fs' = fs /\ pm' = pm /\ calls' = calls
  BY <1>a DEF ScanFinds, others
<1>3. Wrap(drv.i + 1) \in Slots
  BY ServersAssumption DEF IInv, TypeOK, Wrap, Slots
<1>5. /\ chan' \in [Clients -> Pages]
      /\ ~chan'[c].ready_send /\ chan'[c].ready_reply = chan[c].ready_reply
      /\ chan'[c].data = chan[c].data
      /\ \A d \in Clients : d # c => chan'[d] = chan[d]
      /\ drv'.at = "serve" /\ drv'.from = c
  BY <1>1, PageSet, PageFlag, ZenonT(60) DEF IInv
<1>4. TypeOK'
  BY <1>1, <1>3, <1>5 DEF IInv, TypeOK, Pages
<1>6. Packed(list)' /\ ServerInv' /\ DriverInv'
  BY <1>1, <1>5, KeepsList DEF IInv, ServerInv, DriverInv, AtFs, AtPm
<1>7. ASSUME NEW d \in Clients, d # c PROVE LocalInv(d)'
  <2>1. SameProgram(d) /\ SameServers(d)
    BY <1>1, <1>5, <1>7 DEF SameProgram, SameServers, AtFs, AtPm
  <2>2. SameDriver(d)
    BY <1>1, <1>5, <1>7 DEF SameDriver, InList, Serving, ParkedFor
  <2> QED BY <2>1, <2>2, Frame DEF IInv
<1>8. LocalInv(c)'
  <2>1. LocalInv(c)
    BY DEF IInv
  <2>2. RequestInv(c)' /\ DescriptorInv(c)'
    BY <1>1, <2>1 DEF LocalInv, RequestInv, DescriptorInv, Wanted, InList, AtFs, AtPm
  <2>3. ~chan[c].ready_reply /\ Asked(c) /\ ~(AtFs(c) /\ fs.at = "closing")
    BY <1>1, <2>1 DEF LocalInv, ChannelInv, ParkedFor
  <2>4. Asked(c)' /\ ~(AtFs(c)' /\ fs'.at = "closing")
    BY <1>1, <1>5, <2>3 DEF Asked, Closer, AtFs, AtPm
  <2>5. ChannelInv(c)'
    BY <1>5, <2>3, <2>4 DEF ChannelInv
  <2> QED BY <2>2, <2>5 DEF LocalInv
<1> QED BY <1>4, <1>6, <1>7, <1>8 DEF IInv

\* It answers; after a close request it waits to be released.
LEMMA DriverReplyStep ==
  ASSUME IInv, cnl_reply
  PROVE  IInv'
<1>0. drv.from \in Clients
  BY DEF IInv, DriverInv, cnl_reply
<1>a. PICK c \in Clients : c = drv.from
  BY <1>0
<1>1. /\ drv.at = "serve"
      /\ chan' = [chan EXCEPT ![c] = [chan[c] EXCEPT !.ready_reply = TRUE]]
      /\ drv' = IF chan[c].data = "CLOSE_CHANNEL" THEN [drv EXCEPT !.at = "parked"]
                ELSE [drv EXCEPT !.at = "scan", !.from = NoChannel]
      /\ fds' = fds /\ list' = list /\ ready' = ready /\ output' = output /\ input' = input
      /\ pc' = pc /\ pending' = pending /\ fs' = fs /\ pm' = pm /\ calls' = calls
  BY <1>a DEF cnl_reply, others, Scanning
<1>2. Serving(c) /\ ~input[<<DRV, FS>>]
  BY <1>1, <1>a DEF IInv, DriverInv, Serving
<1>b. /\ chan' \in [Clients -> Pages]
      /\ chan'[c].ready_reply /\ chan'[c].ready_send = chan[c].ready_send
      /\ chan'[c].data = chan[c].data
      /\ \A d \in Clients : d # c => chan'[d] = chan[d]
  BY <1>1, PageSet, PageFlag, ZenonT(60) DEF IInv
<1>c. /\ drv' \in [at : {"scan", "parked"}, i : Slots, from : Clients \union {NoChannel}]
      /\ drv'.at # "scan" => drv'.from = c
      /\ chan[c].data = "CLOSE_CHANNEL" => drv'.at = "parked"
  BY <1>1, <1>a, ZenonT(60) DEF IInv, TypeOK
<1>3. TypeOK'
  BY <1>1, <1>b, <1>c DEF IInv, TypeOK, Pages
<1>4. /\ drv'.at # "serve" /\ (drv'.at # "scan" => drv'.from = c)
      /\ chan[c].data = "CLOSE_CHANNEL" => drv'.at = "parked"
      /\ chan'[c].ready_reply /\ chan'[c].ready_send = chan[c].ready_send
      /\ chan'[c].data = chan[c].data
      /\ \A d \in Clients : d # c => chan'[d] = chan[d]
  BY <1>b, <1>c
<1>5. Packed(list)' /\ ServerInv' /\ DriverInv'
  BY <1>1, <1>2, <1>4, KeepsList DEF IInv, ServerInv, DriverInv, AtFs, AtPm
<1>6. ASSUME NEW d \in Clients, d # c PROVE LocalInv(d)'
  <2>1. SameProgram(d) /\ SameServers(d)
    BY <1>1, <1>4, <1>6 DEF SameProgram, SameServers, AtFs, AtPm
  <2>2. SameDriver(d)
    BY <1>1, <1>4 DEF SameDriver, InList, Serving, ParkedFor
  <2> QED BY <2>1, <2>2, Frame DEF IInv
<1>7. LocalInv(c)'
  <2>1. LocalInv(c)
    BY DEF IInv
  <2>2. RequestInv(c)' /\ DescriptorInv(c)'
    BY <1>1, <2>1 DEF LocalInv, RequestInv, DescriptorInv, Wanted, InList, AtFs, AtPm
  <2>3. ~chan[c].ready_send /\ Asked(c) /\ ~(AtFs(c) /\ fs.at = "closing")
    BY <1>1, <1>2, <2>1 DEF LocalInv, ChannelInv, ParkedFor
  <2>4. Asked(c)' /\ ~(AtFs(c)' /\ fs'.at = "closing") /\ (Closer(c)' <=> Closer(c))
    BY <1>1, <1>4, <2>3 DEF Asked, Closer, AtFs, AtPm
  <2>5. Closer(c) => pc[c] \in {"CLOSE_IPC", "EXIT_IPC"}
    BY <2>1, NotCloser
  <2>6. Closer(c) => chan[c].data = "CLOSE_CHANNEL"
    BY <2>1, <2>3, <2>5 DEF LocalInv, DescriptorInv, Asked
  <2>7. Closer(c)' => ParkedFor(c)'
    BY <1>1, <1>2, <1>4, <2>4, <2>6 DEF ParkedFor
  <2>8. ChannelInv(c)'
    BY <1>4, <2>3, <2>4, <2>7 DEF ChannelInv, Serving
  <2> QED BY <2>2, <2>8 DEF LocalInv
<1> QED BY <1>3, <1>5, <1>6, <1>7 DEF IInv

\* It is released.
LEMMA ReleasedStep ==
  ASSUME IInv, close_channel
  PROVE  IInv'
<1>1. /\ drv.at = "parked" /\ input[<<DRV, FS>>]
      /\ input' = [input EXCEPT ![<<DRV, FS>>] = FALSE]
      /\ drv' = [drv EXCEPT !.at = "scan", !.from = NoChannel]
      /\ fds' = fds /\ chan' = chan /\ list' = list /\ ready' = ready /\ output' = output
      /\ pc' = pc /\ pending' = pending /\ fs' = fs /\ pm' = pm /\ calls' = calls
  BY DEF close_channel, others, Scanning
<1>2. /\ input' \in [Boxes -> BOOLEAN] /\ ~input'[<<DRV, FS>>]
      /\ \A x \in Boxes : x # <<DRV, FS>> => input'[x] = input[x]
  BY <1>1, BoxSet, BoxesAre, ZenonT(60) DEF IInv
<1>3. /\ input'[<<FS, PM>>] = input[<<FS, PM>>] /\ input'[<<PM, FS>>] = input[<<PM, FS>>]
      /\ \A d \in Clients : /\ input'[<<d, FS>>] = input[<<d, FS>>]
                            /\ input'[<<d, PM>>] = input[<<d, PM>>]
  BY <1>2, Ids, BoxesAre
<1>4. drv'.at = "scan"
  BY <1>1 DEF IInv, TypeOK
<1>5. TypeOK'
  BY <1>1, <1>2, ZenonT(60) DEF IInv, TypeOK
<1>6. Packed(list)' /\ ServerInv' /\ DriverInv'
  BY <1>1, <1>2, <1>3, <1>4, KeepsList DEF IInv, ServerInv, DriverInv, AtFs, AtPm
<1>7. ASSUME NEW d \in Clients PROVE LocalInv(d)'
  <2>1. SameProgram(d) /\ SameServers(d)
    BY <1>1, <1>3, ZenonT(60) DEF SameProgram, SameServers, AtFs, AtPm
  <2>2. SameDriver(d)
    BY <1>1, <1>4 DEF SameDriver, InList, Serving, ParkedFor
  <2> QED BY <2>1, <2>2, Frame DEF IInv
<1> QED BY <1>5, <1>6, <1>7 DEF IInv
-----------------------------------------------------------------------------
(* The file server *)

\* One message is taken out of a box and another put into one.
LEMMA BoxSet2 ==
  ASSUME TypeOK, NEW a \in Boxes, NEW b \in Boxes, a # b,
         input' = [input EXCEPT ![a] = FALSE, ![b] = TRUE]
  PROVE  /\ input' \in [Boxes -> BOOLEAN] /\ ~input'[a] /\ input'[b]
         /\ \A x \in Boxes : x # a /\ x # b => input'[x] = input[x]
BY ZenonT(60) DEF TypeOK

\* One message is taken out and two are put in.
LEMMA BoxSet3 ==
  ASSUME TypeOK, NEW a \in Boxes, NEW b \in Boxes, NEW e \in Boxes, a # b, a # e, b # e,
         input' = [input EXCEPT ![a] = FALSE, ![b] = TRUE, ![e] = TRUE]
  PROVE  /\ input' \in [Boxes -> BOOLEAN] /\ ~input'[a] /\ input'[b] /\ input'[e]
         /\ \A x \in Boxes : x # a /\ x # b /\ x # e => input'[x] = input[x]
BY ZenonT(60) DEF TypeOK

\* FS works for a program, except when it loads one for PM.
LEMMA FsClient ==
  ASSUME IInv, fs.at \notin {"idle", "LOAD_IPC"}
  PROVE  \E c \in Clients : c = fs.from /\ AtFs(c)
BY DEF IInv, TypeOK, ServerInv, AtFs

\* What FS does for c leaves the other programs alone.
LEMMA FsFrame ==
  ASSUME IInv, NEW c \in Clients, AtFs(c), fs'.at = "idle" \/ fs'.from = c,
         NEW d \in Clients, d # c,
         drv' = drv, list' = list, pm' = pm, SameProgram(d),
         ParkedFor(d) => ~input'[<<DRV, FS>>]
  PROVE  LocalInv(d)'
<1>1. SameServers(d)
  BY DEF SameServers, AtFs, AtPm
<1>2. SameDriver(d)
  BY DEF SameDriver, InList, Serving, ParkedFor
<1> QED BY <1>1, <1>2, Frame DEF IInv

\* FS takes the next request.
LEMMA FsCheckStep ==
  ASSUME IInv, FsCheck
  PROVE  IInv'
<1>0. ready[FS] \in SUBSET Nat /\ ready[FS] \subseteq Clients \union {PM} /\ ready[FS] # {}
  <2>1. ready[FS] \subseteq Clients \union {PM, FS} /\ FS \notin ready[FS] /\ ready[FS] # {}
    BY DEF IInv, TypeOK, ServerInv, FsCheck
  <2>2. ready[FS] \subseteq Clients \union {PM}
    BY <2>1
  <2>3. Clients \union {PM} \subseteq Nat
    BY ServersAssumption DEF PM
  <2> QED BY <2>1, <2>2, <2>3
<1>a. Lowest(ready[FS]) \in ready[FS]
  BY <1>0, LowestIn
<1>b. PICK x \in Clients \union {PM} : x \in ready[FS] /\ x = msg_check(FS)
  BY <1>0, <1>a DEF msg_check
<1>1. /\ fs.at = "idle"
      /\ fs' = [at |-> output[x].number, from |-> x]
      /\ ready' = [ready EXCEPT ![FS] = ready[FS] \ {x}]
      /\ fds' = fds /\ chan' = chan /\ output' = output /\ input' = input /\ drv' = drv
      /\ list' = list /\ pending' = pending /\ pc' = pc /\ calls' = calls /\ pm' = pm
  BY <1>b DEF FsCheck, fsOthers
<1>2. /\ ready'[FS] = ready[FS] \ {x} /\ ready'[PM] = ready[PM]
      /\ ready' \in [{PM, FS} -> SUBSET (Clients \union {PM, FS})]
  BY <1>1, Ids DEF IInv, TypeOK
<1>3. /\ x \in Clients => /\ pc[x] \in {"OPEN_IPC", "CLOSE_IPC"} /\ output[x].number = pc[x]
                          /\ ~input[<<x, FS>>] /\ x \notin ready[PM] /\ ~AtPm(x)
                          /\ ~input[<<x, PM>>]
      /\ x = PM => output[x].number = "LOAD_IPC" /\ pm.at = "loading" /\ ~input[<<PM, FS>>]
  BY <1>b, ZenonT(60) DEF IInv, LocalInv, RequestInv, ServerInv
<1>4. fs'.at = output[x].number /\ fs'.from = x /\ fs'.at # "idle"
  BY <1>1, <1>3, ZenonT(60)
<1>5. TypeOK'
  <2>1. output[x].number \in Numbers
    BY <1>3 DEF Numbers, Calls
  <2> QED BY <1>1, <1>2, <2>1 DEF IInv, TypeOK
<1>6. ServerInv'
  BY <1>1, <1>2, <1>3, <1>4, Ids, ZenonT(60) DEF IInv, ServerInv, AtFs, AtPm
<1>7. Packed(list)' /\ DriverInv'
  BY <1>1, KeepsList, ZenonT(60) DEF IInv, DriverInv
<1>8. ASSUME NEW d \in Clients, d # x PROVE LocalInv(d)'
  <2>1. SameProgram(d)
    BY <1>1, <1>2, <1>8 DEF SameProgram
  <2>2. SameServers(d) /\ SameDriver(d)
    BY <1>1, <1>4, <1>8 DEF SameServers, SameDriver, AtFs, AtPm, InList, Serving, ParkedFor
  <2> QED BY <2>1, <2>2, Frame DEF IInv
<1>9. ASSUME x \in Clients PROVE LocalInv(x)'
  <2>1. LocalInv(x)
    BY <1>9 DEF IInv
  <2>2. ~AtPm(x)' /\ AtFs(x)' /\ ~AtFs(x)
    BY <1>1, <1>3, <1>4, <1>9 DEF AtFs, AtPm
  <2>3. RequestInv(x)'
    BY <1>1, <1>2, <1>3, <1>4, <1>9, <2>2 DEF RequestInv
  <2>4. DescriptorInv(x)'
    BY <1>1, <1>3, <1>4, <1>9, <2>1, <2>2, ZenonT(60) DEF LocalInv, DescriptorInv, Wanted, InList
  <2>5. ChannelInv(x)'
    BY <1>1, <1>3, <1>4, <1>9, <2>1, <2>2, ZenonT(60)
    DEF LocalInv, ChannelInv, Asked, Closer, Serving, ParkedFor
  <2> QED BY <2>3, <2>4, <2>5 DEF LocalInv
<1> QED BY <1>5, <1>6, <1>7, <1>8, <1>9 DEF IInv

\* FS answers a request that needs nothing of PM or the driver.
LEMMA FsReplyStep ==
  ASSUME IInv, NEW c \in Clients, c = fs.from, fs.at \in {"OPEN_IPC", "CLOSE_IPC"}, FsReply(c),
         UNCHANGED <<fds, chan, output, ready, drv, list, pending, pc, calls, pm>>
  PROVE  IInv'
<1>1. /\ input' = [input EXCEPT ![<<c, FS>>] = TRUE] /\ fs' = Idle
      /\ fds' = fds /\ chan' = chan /\ output' = output /\ ready' = ready /\ drv' = drv
      /\ list' = list /\ pending' = pending /\ pc' = pc /\ calls' = calls /\ pm' = pm
  BY DEF FsReply
<1>2. /\ input' \in [Boxes -> BOOLEAN] /\ input'[<<c, FS>>]
      /\ \A x \in Boxes : x # <<c, FS>> => input'[x] = input[x]
  BY <1>1, BoxSet, BoxesAre, ZenonT(60) DEF IInv
<1>3. /\ input'[<<FS, PM>>] = input[<<FS, PM>>] /\ input'[<<PM, FS>>] = input[<<PM, FS>>]
      /\ input'[<<DRV, FS>>] = input[<<DRV, FS>>] /\ input'[<<c, PM>>] = input[<<c, PM>>]
      /\ \A d \in Clients : d # c => /\ input'[<<d, FS>>] = input[<<d, FS>>]
                                     /\ input'[<<d, PM>>] = input[<<d, PM>>]
  BY <1>2, Ids, BoxesAre
<1>4. fs'.at = "idle" /\ AtFs(c) /\ ~AtFs(c)' /\ ~AtFs(PM)' /\ ~AtFs(FS)' /\ ~AtFs(PM)
  BY <1>1, Ids DEF Idle, AtFs
<1>5. TypeOK'
  BY <1>1, <1>2 DEF IInv, TypeOK, Idle
<1>6. ServerInv'
  BY <1>1, <1>3, <1>4, ZenonT(60) DEF IInv, ServerInv, AtPm
<1>7. Packed(list)' /\ DriverInv'
  BY <1>1, <1>3, KeepsList, ZenonT(60) DEF IInv, DriverInv
<1>8. ASSUME NEW d \in Clients, d # c PROVE LocalInv(d)'
  <2>1. SameProgram(d)
    BY <1>1, <1>3, <1>8 DEF SameProgram
  <2> QED BY <1>1, <1>3, <1>4, <1>8, <2>1, FsFrame, ZenonT(60) DEF ParkedFor
<1>9. LocalInv(c)'
  <2>1. LocalInv(c)
    BY DEF IInv
  <2>2. ~AtPm(c) /\ ~AtPm(c)' /\ pc[c] \in {"OPEN_IPC", "CLOSE_IPC"} /\ c \notin ready[FS]
    BY <1>1, <1>4, <2>1 DEF LocalInv, RequestInv, AtPm
  <2>3. RequestInv(c)'
    BY <1>1, <1>3, <1>4, <2>1, <2>2, ZenonT(60) DEF LocalInv, RequestInv
  <2>4. DescriptorInv(c)'
    BY <1>1, <1>4, <2>1, <2>2, ZenonT(60) DEF LocalInv, DescriptorInv, Wanted, InList
  <2>5. ChannelInv(c)'
    BY <1>1, <1>3, <1>4, <2>1, <2>2, ZenonT(60)
    DEF LocalInv, ChannelInv, Asked, Closer, Serving, ParkedFor
  <2> QED BY <2>3, <2>4, <2>5 DEF LocalInv
<1> QED BY <1>5, <1>6, <1>7, <1>8, <1>9 DEF IInv

\* FS opens a device: it refuses, or asks PM for a channel.
LEMMA OpenCharStep ==
  ASSUME IInv, local_open_char
  PROVE  IInv'
<1>0. PICK c \in Clients : c = fs.from /\ AtFs(c)
  BY FsClient DEF local_open_char
<1>a. CASE fds[c]
  <2>1. /\ FsReply(c) /\ fs.at = "OPEN_IPC"
        /\ UNCHANGED <<fds, chan, output, ready, drv, list, pending, pc, calls, pm>>
    BY <1>0, <1>a DEF local_open_char, fsOthers
  <2> QED BY <1>0, <2>1, FsReplyStep
<1>b. CASE ~fds[c]
  <2>1. /\ fs.at = "OPEN_IPC" /\ fs' = [fs EXCEPT !.at = "opening"]
        /\ output' = [output EXCEPT ![FS] = [number |-> "CHANNEL_IPC", arg |-> c]]
        /\ ready' = [ready EXCEPT ![PM] = ready[PM] \union {FS}]
        /\ fds' = fds /\ chan' = chan /\ input' = input /\ drv' = drv
        /\ list' = list /\ pending' = pending /\ pc' = pc /\ calls' = calls /\ pm' = pm
    BY <1>0, <1>b DEF local_open_char, fsOthers, msg_send
  <2>2. /\ ready'[PM] = ready[PM] \union {FS} /\ ready'[FS] = ready[FS]
        /\ output'[FS] = [number |-> "CHANNEL_IPC", arg |-> c] /\ output'[PM] = output[PM]
        /\ \A d \in Clients : output'[d] = output[d]
        /\ fs'.at = "opening" /\ fs'.from = c
    BY <1>0, <2>1, Ids DEF IInv, TypeOK
  <2>3. TypeOK'
    BY <2>1, ZenonT(60) DEF IInv, TypeOK, Numbers, Calls
  <2>4. ~AtPm(FS) /\ ~input[<<FS, PM>>] /\ ~AtFs(PM)
    BY <2>1 DEF IInv, ServerInv
  <2>5. ServerInv'
    BY <2>1, <2>2, <2>4, Ids DEF IInv, ServerInv, AtFs, AtPm
  <2>6. Packed(list)' /\ DriverInv'
    BY <2>1, KeepsList DEF IInv, DriverInv
  <2>7. ASSUME NEW d \in Clients, d # c PROVE LocalInv(d)'
    <3>1. SameProgram(d)
      BY <2>1, <2>2, Ids DEF SameProgram
    <3> QED BY <1>0, <2>1, <2>2, <2>7, <3>1, FsFrame DEF ParkedFor
  <2>8. LocalInv(c)'
    <3>1. LocalInv(c)
      BY DEF IInv
    <3>2. ~AtPm(c) /\ ~AtPm(c)' /\ pc[c] = "OPEN_IPC" /\ AtFs(c)'
      BY <1>0, <2>1, <2>2, <3>1 DEF LocalInv, RequestInv, AtPm, AtFs
    <3>3. RequestInv(c)'
      BY <1>0, <2>1, <2>2, <3>1, <3>2, Ids DEF LocalInv, RequestInv
    <3>4. DescriptorInv(c)'
      BY <1>0, <1>b, <2>1, <2>2, <2>4, <3>1, <3>2 DEF LocalInv, DescriptorInv, Wanted, InList
    <3>5. ChannelInv(c)'
      BY <1>0, <2>1, <2>2, <3>1, <3>2
      DEF LocalInv, ChannelInv, Asked, Closer, Serving, ParkedFor
    <3> QED BY <3>3, <3>4, <3>5 DEF LocalInv
  <2> QED BY <2>3, <2>5, <2>6, <2>7, <2>8 DEF IInv
<1> QED BY <1>a, <1>b

\* PM has made the channel.
LEMMA OpenedStep ==
  ASSUME IInv, FsOpened
  PROVE  IInv'
<1>0. PICK c \in Clients : c = fs.from /\ AtFs(c)
  BY FsClient DEF FsOpened
<1>1. /\ fs.at = "opening" /\ input[<<FS, PM>>] /\ fds' = [fds EXCEPT ![c] = TRUE]
      /\ input' = [input EXCEPT ![<<FS, PM>>] = FALSE, ![<<c, FS>>] = TRUE] /\ fs' = Idle
      /\ chan' = chan /\ output' = output /\ ready' = ready /\ drv' = drv
      /\ list' = list /\ pending' = pending /\ pc' = pc /\ calls' = calls /\ pm' = pm
  BY <1>0 DEF FsOpened, fsOthers
<1>2. /\ input' \in [Boxes -> BOOLEAN] /\ input'[<<c, FS>>] /\ ~input'[<<FS, PM>>]
      /\ \A x \in Boxes : x # <<FS, PM>> /\ x # <<c, FS>> => input'[x] = input[x]
  BY <1>1, BoxSet2, BoxesAre, Ids, ZenonT(60) DEF IInv
<1>3. /\ input'[<<PM, FS>>] = input[<<PM, FS>>]
      /\ input'[<<DRV, FS>>] = input[<<DRV, FS>>] /\ input'[<<c, PM>>] = input[<<c, PM>>]
      /\ \A d \in Clients : d # c => /\ input'[<<d, FS>>] = input[<<d, FS>>]
                                     /\ input'[<<d, PM>>] = input[<<d, PM>>]
  BY <1>2, Ids, BoxesAre
<1>4. /\ fs'.at = "idle" /\ ~AtFs(c)' /\ ~AtFs(PM)' /\ ~AtFs(FS)' /\ ~AtFs(PM)
      /\ fds'[c] /\ \A d \in Clients : d # c => fds'[d] = fds[d]
  BY <1>0, <1>1, Ids DEF Idle, AtFs, IInv, TypeOK
<1>5. TypeOK'
  BY <1>1, <1>2, ZenonT(60) DEF IInv, TypeOK, Idle
<1>6. ServerInv'
  BY <1>1, <1>2, <1>3, <1>4, ZenonT(60) DEF IInv, ServerInv, AtPm
<1>7. Packed(list)' /\ DriverInv'
  BY <1>1, <1>3, KeepsList, ZenonT(60) DEF IInv, DriverInv
<1>8. ASSUME NEW d \in Clients, d # c PROVE LocalInv(d)'
  <2>1. SameProgram(d)
    BY <1>1, <1>3, <1>4, <1>8, ZenonT(60) DEF SameProgram
  <2> QED BY <1>0, <1>1, <1>3, <1>4, <1>8, <2>1, FsFrame, ZenonT(60) DEF ParkedFor
<1>9. LocalInv(c)'
  <2>1. LocalInv(c)
    BY DEF IInv
  <2>2. ~AtPm(c) /\ ~AtPm(c)' /\ pc[c] = "OPEN_IPC" /\ c \notin ready[FS]
    BY <1>0, <1>1, <2>1 DEF LocalInv, RequestInv, AtPm
  <2>3. RequestInv(c)'
    BY <1>1, <1>3, <1>4, <2>1, <2>2, ZenonT(60) DEF LocalInv, RequestInv
  <2>4. DescriptorInv(c)'
    BY <1>0, <1>1, <1>4, <2>1, <2>2, ZenonT(60) DEF LocalInv, DescriptorInv, Wanted, InList
  <2>5. ChannelInv(c)'
    BY <1>0, <1>1, <1>3, <1>4, <2>1, <2>2, ZenonT(60)
    DEF LocalInv, ChannelInv, Asked, Closer, Serving, ParkedFor
  <2> QED BY <2>3, <2>4, <2>5 DEF LocalInv
<1> QED BY <1>5, <1>6, <1>7, <1>8, <1>9 DEF IInv

\* FS closes a device: it asks the driver to let go of the channel.
LEMMA CloseStep ==
  ASSUME IInv, local_close
  PROVE  IInv'
<1>0. PICK c \in Clients : c = fs.from /\ AtFs(c)
  BY FsClient DEF local_close
<1>a. CASE ~fds[c]
  <2>1. /\ FsReply(c) /\ fs.at = "CLOSE_IPC"
        /\ UNCHANGED <<fds, chan, output, ready, drv, list, pending, pc, calls, pm>>
    BY <1>0, <1>a DEF local_close, fsOthers
  <2> QED BY <1>0, <2>1, FsReplyStep
<1>b. CASE fds[c]
  <2>1. /\ fs.at = "CLOSE_IPC" /\ fs' = [fs EXCEPT !.at = "driver"]
        /\ chan' = [chan EXCEPT ![c] = Sent(c, "CLOSE_CHANNEL")]
        /\ fds' = fds /\ output' = output /\ ready' = ready /\ input' = input /\ drv' = drv
        /\ list' = list /\ pending' = pending /\ pc' = pc /\ calls' = calls /\ pm' = pm
    BY <1>0, <1>b DEF local_close, fsOthers
  <2>2. /\ chan' \in [Clients -> Pages] /\ fs'.at = "driver" /\ fs'.from = c
        /\ chan'[c].ready_send /\ ~chan'[c].ready_reply /\ chan'[c].data = "CLOSE_CHANNEL"
        /\ \A d \in Clients : d # c => chan'[d] = chan[d]
    <3>1. Sent(c, "CLOSE_CHANNEL") \in Pages
      BY DEF Sent, Pages
    <3> QED BY <1>0, <2>1, <3>1, PageSet, ZenonT(60) DEF IInv, TypeOK, Sent
  <2>3. TypeOK'
    BY <2>1, <2>2 DEF IInv, TypeOK, Pages
  <2>4. ~AtPm(FS) /\ ~input[<<FS, PM>>] /\ ~AtFs(PM)
    BY <2>1 DEF IInv, ServerInv
  <2>5. ServerInv'
    BY <2>1, <2>2, <2>4, Ids DEF IInv, ServerInv, AtFs, AtPm
  <2>6. Packed(list)' /\ DriverInv'
    BY <2>1, KeepsList DEF IInv, DriverInv
  <2>7. ASSUME NEW d \in Clients, d # c PROVE LocalInv(d)'
    <3>1. SameProgram(d)
      BY <2>1, <2>2, <2>7 DEF SameProgram
    <3> QED BY <1>0, <2>1, <2>2, <2>7, <3>1, FsFrame DEF ParkedFor
  <2>8. LocalInv(c)'
    <3>1. LocalInv(c)
      BY DEF IInv
    <3>2. ~AtPm(c) /\ ~AtPm(c)' /\ pc[c] = "CLOSE_IPC" /\ AtFs(c)'
      BY <1>0, <2>1, <2>2, <3>1 DEF LocalInv, RequestInv, AtPm, AtFs
    <3>3. ~pending[c] /\ ~Closer(c) /\ ~Serving(c)
      BY <2>1, <3>1, <3>2 DEF LocalInv, DescriptorInv, ChannelInv, Closer, Asked
    <3>4. RequestInv(c)'
      BY <1>0, <2>1, <2>2, <3>1, <3>2 DEF LocalInv, RequestInv
    <3>5. DescriptorInv(c)'
      BY <1>0, <1>b, <2>1, <2>2, <2>4, <3>1, <3>2 DEF LocalInv, DescriptorInv, Wanted, InList
    <3>6. ChannelInv(c)'
      BY <2>1, <2>2, <3>2, <3>3 DEF ChannelInv, Asked, Closer, Serving
    <3> QED BY <3>4, <3>5, <3>6 DEF LocalInv
  <2> QED BY <2>3, <2>5, <2>6, <2>7, <2>8 DEF IInv
<1> QED BY <1>a, <1>b

\* The driver has let go; FS asks PM to free the channel.
LEMMA CloseAtPmStep ==
  ASSUME IInv, FsCloseAtPm
  PROVE  IInv'
<1>0. PICK c \in Clients : c = fs.from /\ AtFs(c)
  BY FsClient DEF FsCloseAtPm
<1>1. /\ fs.at = "driver" /\ chan[c].ready_reply /\ fs' = [fs EXCEPT !.at = "closing"]
      /\ chan' = [chan EXCEPT ![c] = [chan[c] EXCEPT !.ready_reply = FALSE]]
      /\ output' = [output EXCEPT ![FS] = [number |-> "CHANNEL_CLOSE_IPC", arg |-> c]]
      /\ ready' = [ready EXCEPT ![PM] = ready[PM] \union {FS}]
      /\ fds' = fds /\ input' = input /\ drv' = drv
      /\ list' = list /\ pending' = pending /\ pc' = pc /\ calls' = calls /\ pm' = pm
  BY <1>0 DEF FsCloseAtPm, fsOthers, msg_send, Received
<1>2. /\ ready'[PM] = ready[PM] \union {FS} /\ ready'[FS] = ready[FS]
      /\ output'[FS] = [number |-> "CHANNEL_CLOSE_IPC", arg |-> c] /\ output'[PM] = output[PM]
      /\ \A d \in Clients : output'[d] = output[d]
      /\ fs'.at = "closing" /\ fs'.from = c
  BY <1>0, <1>1, Ids DEF IInv, TypeOK
<1>a. /\ chan' \in [Clients -> Pages]
      /\ chan'[c].ready_send = chan[c].ready_send /\ ~chan'[c].ready_reply
      /\ \A d \in Clients : d # c => chan'[d] = chan[d]
  BY <1>1, PageSet, PageFlag, ZenonT(60) DEF IInv
<1>3. TypeOK'
  <2>1. output' \in [Clients \union {PM, FS} -> [number : Numbers \union {"none"},
                                                 arg : Clients \union {0}]]
    BY <1>1 DEF IInv, TypeOK, Numbers
  <2>2. ready' \in [{PM, FS} -> SUBSET (Clients \union {PM, FS})]
    BY <1>1 DEF IInv, TypeOK
  <2> QED BY <1>1, <1>a, <2>1, <2>2, ZenonT(60) DEF IInv, TypeOK, Pages
<1>4. ~AtPm(FS) /\ ~input[<<FS, PM>>] /\ ~AtFs(PM)
  BY <1>1 DEF IInv, ServerInv
<1>5. ServerInv'
  BY <1>1, <1>2, <1>4, Ids DEF IInv, ServerInv, AtFs, AtPm
<1>6. Packed(list)' /\ DriverInv'
  BY <1>1, KeepsList DEF IInv, DriverInv
<1>7. ASSUME NEW d \in Clients, d # c PROVE LocalInv(d)'
  <2>1. SameProgram(d)
    BY <1>1, <1>2, <1>a, <1>7, Ids DEF SameProgram
  <2> QED BY <1>0, <1>1, <1>2, <1>7, <2>1, FsFrame DEF ParkedFor
<1>8. LocalInv(c)'
  <2>1. LocalInv(c)
    BY DEF IInv
  <2>2. ~AtPm(c) /\ ~AtPm(c)' /\ pc[c] = "CLOSE_IPC" /\ AtFs(c)'
    BY <1>0, <1>1, <1>2, <2>1 DEF LocalInv, RequestInv, AtPm, AtFs
  <2>3. ParkedFor(c) /\ ~chan[c].ready_send /\ fds[c]
    BY <1>0, <1>1, <2>1 DEF LocalInv, ChannelInv, DescriptorInv, Closer
  <2>4. RequestInv(c)'
    BY <1>0, <1>1, <1>2, <2>1, <2>2, Ids DEF LocalInv, RequestInv
  <2>5. DescriptorInv(c)'
    BY <1>0, <1>1, <1>2, <1>4, <2>1, <2>2, <2>3 DEF LocalInv, DescriptorInv, Wanted, InList
  <2>6. ChannelInv(c)'
    BY <1>1, <1>a, <2>3 DEF ChannelInv, Serving, ParkedFor
  <2> QED BY <2>4, <2>5, <2>6 DEF LocalInv
<1> QED BY <1>3, <1>5, <1>6, <1>7, <1>8 DEF IInv

\* PM has freed the channel; FS releases the driver and answers.
LEMMA ClosedStep ==
  ASSUME IInv, FsClosed
  PROVE  IInv'
<1>0. PICK c \in Clients : c = fs.from /\ AtFs(c)
  BY FsClient DEF FsClosed
<1>1. /\ fs.at = "closing" /\ input[<<FS, PM>>] /\ fds' = [fds EXCEPT ![c] = FALSE]
      /\ input' = [input EXCEPT ![<<FS, PM>>] = FALSE, ![<<DRV, FS>>] = TRUE, ![<<c, FS>>] = TRUE]
      /\ fs' = Idle
      /\ chan' = chan /\ output' = output /\ ready' = ready /\ drv' = drv
      /\ list' = list /\ pending' = pending /\ pc' = pc /\ calls' = calls /\ pm' = pm
  BY <1>0 DEF FsClosed, fsOthers
<1>2. /\ input' \in [Boxes -> BOOLEAN]
      /\ input'[<<c, FS>>] /\ input'[<<DRV, FS>>] /\ ~input'[<<FS, PM>>]
      /\ \A x \in Boxes : x # <<FS, PM>> /\ x # <<DRV, FS>> /\ x # <<c, FS>> => input'[x] = input[x]
  <2>1. <<FS, PM>> # <<DRV, FS>> /\ <<FS, PM>> # <<c, FS>> /\ <<DRV, FS>> # <<c, FS>>
    BY Ids
  <2>2. TypeOK /\ <<FS, PM>> \in Boxes /\ <<DRV, FS>> \in Boxes /\ <<c, FS>> \in Boxes
    BY BoxesAre, ZenonT(60) DEF IInv
  <2> QED BY <1>1, <2>1, <2>2, BoxSet3, ZenonT(60)
<1>3. /\ input'[<<PM, FS>>] = input[<<PM, FS>>] /\ input'[<<c, PM>>] = input[<<c, PM>>]
      /\ \A d \in Clients : d # c => /\ input'[<<d, FS>>] = input[<<d, FS>>]
                                     /\ input'[<<d, PM>>] = input[<<d, PM>>]
  BY <1>2, Ids, BoxesAre
<1>4. /\ fs'.at = "idle" /\ ~AtFs(c)' /\ ~AtFs(PM)' /\ ~AtFs(FS)' /\ ~AtFs(PM)
      /\ ~fds'[c] /\ \A d \in Clients : d # c => fds'[d] = fds[d]
  BY <1>0, <1>1, Ids DEF Idle, AtFs, IInv, TypeOK
<1>a. ParkedFor(c)
  BY <1>0, <1>1, ZenonT(60) DEF IInv, LocalInv, ChannelInv
<1>5. TypeOK'
  BY <1>1, <1>2, ZenonT(60) DEF IInv, TypeOK, Idle
<1>6. ServerInv'
  BY <1>1, <1>2, <1>3, <1>4, ZenonT(60) DEF IInv, ServerInv, AtPm
<1>7. Packed(list)' /\ DriverInv'
  BY <1>1, <1>a, KeepsList, ZenonT(60) DEF IInv, DriverInv, ParkedFor
<1>8. ASSUME NEW d \in Clients, d # c PROVE LocalInv(d)'
  <2>1. SameProgram(d)
    BY <1>1, <1>3, <1>4, <1>8, ZenonT(60) DEF SameProgram
  <2>2. ~ParkedFor(d)
    BY <1>a, <1>8 DEF ParkedFor
  <2> QED BY <1>0, <1>1, <1>4, <1>8, <2>1, <2>2, FsFrame, ZenonT(60)
<1>9. LocalInv(c)'
  <2>1. LocalInv(c)
    BY DEF IInv
  <2>2. ~AtPm(c) /\ ~AtPm(c)' /\ pc[c] = "CLOSE_IPC" /\ c \notin ready[FS] /\ ~pending[c]
    BY <1>0, <1>1, <2>1, ZenonT(60) DEF LocalInv, RequestInv, DescriptorInv, AtPm
  <2>3. RequestInv(c)'
    BY <1>1, <1>3, <1>4, <2>1, <2>2, ZenonT(60) DEF LocalInv, RequestInv
  <2>4. DescriptorInv(c)'
    BY <1>0, <1>1, <1>4, <2>1, <2>2, ZenonT(60) DEF LocalInv, DescriptorInv, Wanted, InList
  <2>5. ChannelInv(c)'
    BY <1>0, <1>1, <1>4, <1>a, <2>1, <2>2, ZenonT(60)
    DEF LocalInv, ChannelInv, Asked, Closer, Serving, ParkedFor
  <2> QED BY <2>3, <2>4, <2>5 DEF LocalInv
<1> QED BY <1>5, <1>6, <1>7, <1>8, <1>9 DEF IInv

\* FS has read a program for PM.
LEMMA LoadStep ==
  ASSUME IInv, local_load
  PROVE  IInv'
<1>0. fs.from = PM /\ AtFs(PM)
  BY ZenonT(60) DEF IInv, TypeOK, ServerInv, LocalInv, RequestInv, AtFs, local_load
<1>1. /\ input' = [input EXCEPT ![<<PM, FS>>] = TRUE] /\ fs' = Idle /\ fs.at = "LOAD_IPC"
      /\ fds' = fds /\ chan' = chan /\ output' = output /\ ready' = ready /\ drv' = drv
      /\ list' = list /\ pending' = pending /\ pc' = pc /\ calls' = calls /\ pm' = pm
  BY <1>0 DEF local_load, FsReply, fsOthers
<1>2. /\ input' \in [Boxes -> BOOLEAN] /\ input'[<<PM, FS>>]
      /\ \A x \in Boxes : x # <<PM, FS>> => input'[x] = input[x]
  BY <1>1, BoxSet, BoxesAre, ZenonT(60) DEF IInv
<1>3. /\ input'[<<FS, PM>>] = input[<<FS, PM>>] /\ input'[<<DRV, FS>>] = input[<<DRV, FS>>]
      /\ \A d \in Clients : /\ input'[<<d, FS>>] = input[<<d, FS>>]
                            /\ input'[<<d, PM>>] = input[<<d, PM>>]
  BY <1>2, Ids, BoxesAre
<1>4. /\ fs'.at = "idle" /\ ~AtFs(PM)' /\ ~AtFs(FS)'
      /\ \A d \in Clients : ~AtFs(d) /\ ~AtFs(d)'
  BY <1>0, <1>1, Ids DEF Idle, AtFs
<1>5. TypeOK'
  BY <1>1, <1>2 DEF IInv, TypeOK, Idle
<1>6. ServerInv'
  BY <1>0, <1>1, <1>3, <1>4 DEF IInv, ServerInv, AtPm
<1>7. Packed(list)' /\ DriverInv'
  BY <1>1, <1>3, KeepsList, ZenonT(60) DEF IInv, DriverInv
<1>8. ASSUME NEW d \in Clients PROVE LocalInv(d)'
  <2>1. SameProgram(d)
    BY <1>1, <1>3, ZenonT(60) DEF SameProgram
  <2>2. SameServers(d) /\ SameDriver(d)
    BY <1>1, <1>3, <1>4, ZenonT(60) DEF SameServers, SameDriver, AtPm, InList, Serving, ParkedFor
  <2> QED BY <2>1, <2>2, Frame DEF IInv
<1> QED BY <1>5, <1>6, <1>7, <1>8 DEF IInv
-----------------------------------------------------------------------------
(* The process manager *)

\* PM works for a program, except when it makes or frees a channel for FS.
LEMMA PmClient ==
  ASSUME IInv, pm.at \notin {"idle", "CHANNEL_IPC", "CHANNEL_CLOSE_IPC"}
  PROVE  \E c \in Clients : c = pm.from /\ AtPm(c)
BY DEF IInv, TypeOK, ServerInv, AtPm

\* What FS asks of PM.
LEMMA FsAsks ==
  ASSUME IInv, fs.at \in {"opening", "closing"}
  PROVE  /\ output[FS].number = IF fs.at = "opening" THEN "CHANNEL_IPC" ELSE "CHANNEL_CLOSE_IPC"
         /\ output[FS].arg = fs.from
<1>1. CASE fs.at = "opening"
  <2>1. output[FS] = [number |-> "CHANNEL_IPC", arg |-> fs.from]
    BY <1>1, ZenonT(60) DEF IInv, ServerInv
  <2> QED BY <1>1, <2>1
<1>2. CASE fs.at = "closing"
  <2>1. output[FS] = [number |-> "CHANNEL_CLOSE_IPC", arg |-> fs.from]
    BY <1>2, ZenonT(60) DEF IInv, ServerInv
  <2> QED BY <1>2, <2>1
<1> QED BY <1>1, <1>2

\* Then it is the channel of the program that FS works for.
LEMMA PmForFs ==
  ASSUME IInv, pm.at \in {"CHANNEL_IPC", "CHANNEL_CLOSE_IPC"}
  PROVE  /\ pm.from = FS /\ AtPm(FS)
         /\ fs.at = IF pm.at = "CHANNEL_IPC" THEN "opening" ELSE "closing"
         /\ \E c \in Clients : c = fs.from /\ c = output[FS].arg /\ AtFs(c)
<1>1. pm.from = FS /\ AtPm(FS)
  BY ZenonT(60) DEF IInv, TypeOK, ServerInv, LocalInv, RequestInv, AtPm
<1>2. fs.at = IF pm.at = "CHANNEL_IPC" THEN "opening" ELSE "closing"
  BY <1>1 DEF IInv, ServerInv
<1>3. PICK c \in Clients : c = fs.from /\ AtFs(c)
  BY <1>2, FsClient
<1>4. output[FS].arg = fs.from
  BY <1>2, FsAsks
<1>5. \E d \in Clients : d = fs.from /\ d = output[FS].arg /\ AtFs(d)
  BY <1>3, <1>4
<1> QED BY <1>1, <1>2, <1>5

\* What PM does for c leaves the other programs alone.
LEMMA PmFrame ==
  ASSUME IInv, NEW c, AtPm(c), pm'.at = "idle" \/ pm'.from = c,
         NEW d \in Clients, d # c,
         drv' = drv, fs' = fs, SameProgram(d), InList(d)' <=> InList(d),
         AtFs(d) => input'[<<FS, PM>>] = input[<<FS, PM>>],
         ParkedFor(d) => ~input'[<<DRV, FS>>]
  PROVE  LocalInv(d)'
<1>1. SameServers(d)
  BY DEF SameServers, AtFs, AtPm
<1>2. SameDriver(d)
  BY DEF SameDriver, Serving, ParkedFor
<1> QED BY <1>1, <1>2, Frame DEF IInv

\* PM takes the next request.
LEMMA PmCheckStep ==
  ASSUME IInv, PmCheck
  PROVE  IInv'
<1>0. ready[PM] \in SUBSET Nat /\ ready[PM] \subseteq Clients \union {FS} /\ ready[PM] # {}
  <2>1. ready[PM] \subseteq Clients \union {PM, FS} /\ PM \notin ready[PM] /\ ready[PM] # {}
    BY DEF IInv, TypeOK, ServerInv, PmCheck
  <2>2. ready[PM] \subseteq Clients \union {FS}
    BY <2>1
  <2>3. Clients \union {FS} \subseteq Nat
    BY ServersAssumption DEF FS
  <2> QED BY <2>1, <2>2, <2>3
<1>a. Lowest(ready[PM]) \in ready[PM]
  BY <1>0, LowestIn
<1>b. PICK x \in Clients \union {FS} : x \in ready[PM] /\ x = msg_check(PM)
  BY <1>0, <1>a DEF msg_check
<1>1. /\ pm.at = "idle"
      /\ pm' = [at |-> output[x].number, from |-> x]
      /\ ready' = [ready EXCEPT ![PM] = ready[PM] \ {x}]
      /\ fds' = fds /\ chan' = chan /\ output' = output /\ input' = input /\ drv' = drv
      /\ list' = list /\ pending' = pending /\ pc' = pc /\ calls' = calls /\ fs' = fs
  BY <1>b DEF PmCheck, pmOthers
<1>2. /\ ready'[PM] = ready[PM] \ {x} /\ ready'[FS] = ready[FS]
      /\ ready' \in [{PM, FS} -> SUBSET (Clients \union {PM, FS})]
  BY <1>1, Ids DEF IInv, TypeOK
<1>3. /\ x \in Clients => /\ pc[x] \in {"FORK_IPC", "EXEC_IPC", "EXIT_IPC"}
                          /\ output[x].number = pc[x]
                          /\ ~input[<<x, PM>>] /\ x \notin ready[FS] /\ ~AtFs(x)
                          /\ ~input[<<x, FS>>]
      /\ x = FS => /\ fs.at \in {"opening", "closing"} /\ ~input[<<FS, PM>>]
                   /\ output[x].number = IF fs.at = "opening" THEN "CHANNEL_IPC"
                                         ELSE "CHANNEL_CLOSE_IPC"
  <2>1. ASSUME x \in Clients
        PROVE  /\ pc[x] \in {"FORK_IPC", "EXEC_IPC", "EXIT_IPC"} /\ output[x].number = pc[x]
               /\ ~input[<<x, PM>>] /\ x \notin ready[FS] /\ ~AtFs(x) /\ ~input[<<x, FS>>]
    BY <1>b, <2>1, ZenonT(60) DEF IInv, LocalInv, RequestInv
  <2>2. ASSUME x = FS
        PROVE  /\ fs.at \in {"opening", "closing"} /\ ~input[<<FS, PM>>]
               /\ output[x].number = IF fs.at = "opening" THEN "CHANNEL_IPC"
                                     ELSE "CHANNEL_CLOSE_IPC"
    <3>1. fs.at \in {"opening", "closing"} /\ ~input[<<FS, PM>>]
      BY <1>b, <2>2, ZenonT(60) DEF IInv, ServerInv
    <3> QED BY <2>2, <3>1, FsAsks
  <2> QED BY <2>1, <2>2, ZenonT(60)
<1>4. pm'.at = output[x].number /\ pm'.from = x /\ pm'.at # "idle"
  BY <1>1, <1>3, ZenonT(60)
<1>5. TypeOK'
  <2>1. output[x].number \in Numbers
    BY <1>3 DEF Numbers, Calls
  <2> QED BY <1>1, <1>2, <2>1, ZenonT(60) DEF IInv, TypeOK
<1>6. ServerInv'
  BY <1>1, <1>2, <1>3, <1>4, Ids, ZenonT(60) DEF IInv, ServerInv, AtFs, AtPm
<1>7. Packed(list)' /\ DriverInv'
  BY <1>1, KeepsList, ZenonT(60) DEF IInv, DriverInv
<1>8. ASSUME NEW d \in Clients, d # x PROVE LocalInv(d)'
  <2>1. SameProgram(d)
    BY <1>1, <1>2, <1>8 DEF SameProgram
  <2>2. SameServers(d) /\ SameDriver(d)
    BY <1>1, <1>4, <1>8 DEF SameServers, SameDriver, AtFs, AtPm, InList, Serving, ParkedFor
  <2> QED BY <2>1, <2>2, Frame DEF IInv
<1>9. ASSUME x \in Clients PROVE LocalInv(x)'
  <2>1. LocalInv(x)
    BY <1>9 DEF IInv
  <2>2. AtPm(x)' /\ ~AtPm(x) /\ ~AtFs(x)'
    BY <1>1, <1>3, <1>4, <1>9 DEF AtFs, AtPm
  <2>3. RequestInv(x)'
    BY <1>1, <1>2, <1>3, <1>4, <1>9, <2>2, ZenonT(60) DEF RequestInv
  <2>4. DescriptorInv(x)'
    BY <1>1, <1>3, <1>4, <1>9, <2>1, <2>2, ZenonT(60) DEF LocalInv, DescriptorInv, Wanted, InList
  <2>5. ChannelInv(x)'
    BY <1>1, <1>3, <1>4, <1>9, <2>1, <2>2, ZenonT(60)
    DEF LocalInv, ChannelInv, Asked, Closer, Serving, ParkedFor
  <2> QED BY <2>3, <2>4, <2>5 DEF LocalInv
<1> QED BY <1>5, <1>6, <1>7, <1>8, <1>9 DEF IInv

\* PM makes a channel for FS.
LEMMA ChannelStep ==
  ASSUME IInv, PmChannel, IsFiniteSet(Clients), Cardinality(Clients) < MAX_CHANNELS
  PROVE  IInv' /\ \E c \in Clients : Appended(c)
<1>0. pm.from = FS /\ AtPm(FS) /\ fs.at = "opening" /\ pm.at = "CHANNEL_IPC"
  BY PmForFs DEF PmChannel
<1>a. PICK c \in Clients : c = fs.from /\ c = output[FS].arg /\ AtFs(c)
  BY <1>0, PmForFs
<1>1. /\ chan' = [chan EXCEPT ![c] = Clean] /\ list' = add_channel_list(list, c)
      /\ input' = [input EXCEPT ![<<FS, PM>>] = TRUE] /\ pm' = Idle
      /\ fds' = fds /\ ready' = ready /\ output' = output /\ pc' = pc /\ pending' = pending
      /\ drv' = drv /\ calls' = calls /\ fs' = fs
  BY <1>0, <1>a DEF PmChannel, local_channel, pmOthers
<1>2. LocalInv(c) /\ ~input[<<FS, PM>>] /\ FS \notin ready[PM]
  BY <1>0, ZenonT(60) DEF IInv, ServerInv
<1>3. ~fds[c] /\ ~InList(c) /\ ~pending[c] /\ pc[c] = "OPEN_IPC" /\ ~AtPm(c)
  BY <1>0, <1>a, <1>2, ZenonT(60) DEF LocalInv, RequestInv, DescriptorInv, Wanted
<1>4. /\ Appended(c) /\ Packed(list)'
      /\ list' \in [0 .. MAX_CHANNELS -> Clients \union {NoChannel}]
      /\ \A d \in Clients : InList(d)' <=> InList(d) \/ d = c
  <2>1. TypeOK /\ Packed(list)
    BY DEF IInv
  <2>2. list \in [0 .. MAX_CHANNELS -> Clients \union {NoChannel}]
    BY <2>1 DEF TypeOK
  <2> QED BY <1>1, <1>3, <2>1, <2>2, AddIs, ZenonT(60)
<1>5. /\ chan' \in [Clients -> Pages] /\ ~chan'[c].ready_send /\ ~chan'[c].ready_reply
      /\ \A d \in Clients : d # c => chan'[d] = chan[d]
  <2>1. Clean \in Pages
    BY DEF Clean, Pages
  <2>2. /\ chan' \in [Clients -> Pages] /\ chan'[c] = Clean
        /\ \A d \in Clients : d # c => chan'[d] = chan[d]
    BY <1>1, <2>1, PageSet, ZenonT(60) DEF IInv
  <2>3. Clean.ready_send = FALSE /\ Clean.ready_reply = FALSE
    BY DEF Clean
  <2> QED BY <2>2, <2>3, ZenonT(60)
<1>6. /\ input' \in [Boxes -> BOOLEAN] /\ input'[<<FS, PM>>]
      /\ \A x \in Boxes : x # <<FS, PM>> => input'[x] = input[x]
  BY <1>1, BoxSet, BoxesAre, ZenonT(60) DEF IInv
<1>7. /\ input'[<<PM, FS>>] = input[<<PM, FS>>] /\ input'[<<DRV, FS>>] = input[<<DRV, FS>>]
      /\ \A d \in Clients : /\ input'[<<d, FS>>] = input[<<d, FS>>]
                            /\ input'[<<d, PM>>] = input[<<d, PM>>]
  BY <1>6, Ids, BoxesAre
<1>8. pm'.at = "idle" /\ ~AtPm(FS)' /\ ~AtPm(PM)' /\ ~AtPm(c)' /\ AtFs(c)'
  BY <1>1, <1>a DEF Idle, AtPm, AtFs
<1>9. TypeOK'
  BY <1>1, <1>4, <1>5, <1>6 DEF IInv, TypeOK, Idle, Pages
<1>10. ServerInv' /\ DriverInv'
  BY <1>0, <1>1, <1>2, <1>7, <1>8, ZenonT(60) DEF IInv, ServerInv, DriverInv, AtFs
<1>11. ASSUME NEW d \in Clients, d # c PROVE LocalInv(d)'
  <2>1. SameProgram(d)
    BY <1>1, <1>5, <1>7, <1>11, ZenonT(60) DEF SameProgram
  <2>2. d # FS /\ ~AtFs(d) /\ (InList(d)' <=> InList(d))
    BY <1>a, <1>4, <1>11, Ids, ZenonT(60) DEF AtFs
  <2> QED BY <1>0, <1>1, <1>7, <1>8, <2>1, <2>2, PmFrame, ZenonT(60) DEF ParkedFor
<1>12. LocalInv(c)'
  <2>1. RequestInv(c)'
    BY <1>0, <1>1, <1>2, <1>3, <1>7, <1>8, <1>a, ZenonT(60) DEF LocalInv, RequestInv
  <2>2. DescriptorInv(c)'
    BY <1>0, <1>1, <1>3, <1>4, <1>6, <1>8, ZenonT(60) DEF DescriptorInv, Wanted
  <2>3. ~Serving(c)'
    BY <1>0, <1>1, <1>2, <1>3, ZenonT(60) DEF LocalInv, ChannelInv, Serving, Asked, Closer
  <2>4. ChannelInv(c)'
    BY <1>0, <1>1, <1>5, <2>3 DEF ChannelInv
  <2> QED BY <2>1, <2>2, <2>4 DEF LocalInv
<1> QED BY <1>4, <1>9, <1>10, <1>11, <1>12 DEF IInv

\* PM takes a channel off the list for FS: the driver is parked for this channel.
LEMMA ChannelCloseStep ==
  ASSUME IInv, PmChannelClose
  PROVE  IInv' /\ \E c \in Clients : output[pm.from].arg = c /\ ParkedFor(c) /\ TakenOut(c)
<1>0. pm.from = FS /\ AtPm(FS) /\ fs.at = "closing" /\ pm.at = "CHANNEL_CLOSE_IPC"
  BY PmForFs DEF PmChannelClose
<1>a. PICK c \in Clients : c = fs.from /\ c = output[FS].arg /\ AtFs(c)
  BY <1>0, PmForFs
<1>2. LocalInv(c) /\ ~input[<<FS, PM>>] /\ FS \notin ready[PM]
  BY <1>0, ZenonT(60) DEF IInv, ServerInv
<1>3. fds[c] /\ InList(c) /\ ~pending[c] /\ pc[c] = "CLOSE_IPC" /\ ~AtPm(c) /\ ParkedFor(c)
  BY <1>0, <1>a, <1>2, ZenonT(60) DEF LocalInv, RequestInv, DescriptorInv, ChannelInv, Wanted
<1>1. /\ list' = remove_channel_list(list, c)
      /\ input' = [input EXCEPT ![<<FS, PM>>] = TRUE] /\ pm' = Idle
      /\ fds' = fds /\ chan' = chan /\ ready' = ready /\ output' = output /\ pc' = pc
      /\ pending' = pending /\ drv' = drv /\ calls' = calls /\ fs' = fs
  <2>1. ~NotFound(list, c)
    BY <1>3 DEF NotFound, InList
  <2> QED BY <1>0, <1>a, <2>1 DEF PmChannelClose, local_channel_close, pmOthers
<1>4. /\ TakenOut(c) /\ Packed(list)'
      /\ list' \in [0 .. MAX_CHANNELS -> Clients \union {NoChannel}]
      /\ \A d \in Clients : InList(d)' <=> InList(d) /\ d # c
  <2>1. TypeOK /\ Packed(list)
    BY DEF IInv
  <2>2. list \in [0 .. MAX_CHANNELS -> Clients \union {NoChannel}]
    BY <2>1 DEF TypeOK
  <2> QED BY <1>1, <1>3, <2>1, <2>2, RemoveIs, ZenonT(60)
<1>6. /\ input' \in [Boxes -> BOOLEAN] /\ input'[<<FS, PM>>]
      /\ \A x \in Boxes : x # <<FS, PM>> => input'[x] = input[x]
  BY <1>1, BoxSet, BoxesAre, ZenonT(60) DEF IInv
<1>7. /\ input'[<<PM, FS>>] = input[<<PM, FS>>] /\ input'[<<DRV, FS>>] = input[<<DRV, FS>>]
      /\ \A d \in Clients : /\ input'[<<d, FS>>] = input[<<d, FS>>]
                            /\ input'[<<d, PM>>] = input[<<d, PM>>]
  BY <1>6, Ids, BoxesAre
<1>8. pm'.at = "idle" /\ ~AtPm(FS)' /\ ~AtPm(PM)' /\ ~AtPm(c)' /\ AtFs(c)'
  BY <1>1, <1>a DEF Idle, AtPm, AtFs
<1>9. TypeOK'
  BY <1>1, <1>4, <1>6 DEF IInv, TypeOK, Idle
<1>10. ServerInv' /\ DriverInv'
  BY <1>0, <1>1, <1>2, <1>7, <1>8, ZenonT(60) DEF IInv, ServerInv, DriverInv, AtFs
<1>11. ASSUME NEW d \in Clients, d # c PROVE LocalInv(d)'
  <2>1. SameProgram(d)
    BY <1>1, <1>7, <1>11, ZenonT(60) DEF SameProgram
  <2>2. d # FS /\ ~AtFs(d) /\ (InList(d)' <=> InList(d))
    BY <1>a, <1>4, <1>11, Ids DEF AtFs
  <2> QED BY <1>0, <1>1, <1>7, <1>8, <2>1, <2>2, PmFrame, ZenonT(60) DEF ParkedFor
<1>12. LocalInv(c)'
  <2>1. RequestInv(c)'
    BY <1>0, <1>1, <1>2, <1>3, <1>7, <1>8, <1>a, ZenonT(60) DEF LocalInv, RequestInv
  <2>2. DescriptorInv(c)'
    BY <1>0, <1>1, <1>3, <1>4, <1>6, <1>8, ZenonT(60) DEF DescriptorInv, Wanted
  <2>4. ChannelInv(c)'
    BY <1>0, <1>1, <1>2, <1>3, <1>7, <1>8, <1>a, ZenonT(60)
    DEF LocalInv, ChannelInv, Asked, Closer, Serving, ParkedFor
  <2> QED BY <2>1, <2>2, <2>4 DEF LocalInv
<1> QED BY <1>0, <1>a, <1>3, <1>4, <1>9, <1>10, <1>11, <1>12, ZenonT(60) DEF IInv

\* fork without a free CPU, and the answer to the parent.
LEMMA NoForkStep ==
  ASSUME IInv, local_fork, FreeCpus = {}
  PROVE  IInv' /\ list' = list
<1>0. PICK p \in Clients : p = pm.from /\ AtPm(p)
  BY PmClient DEF local_fork
<1>1. /\ pm.at = "FORK_IPC" /\ pm' = Idle /\ input' = [input EXCEPT ![<<p, PM>>] = TRUE]
      /\ fds' = fds /\ chan' = chan /\ list' = list /\ pc' = pc /\ ready' = ready
      /\ output' = output /\ pending' = pending /\ drv' = drv /\ calls' = calls /\ fs' = fs
  BY <1>0 DEF local_fork, pmOthers
<1>2. /\ input' \in [Boxes -> BOOLEAN] /\ input'[<<p, PM>>]
      /\ \A x \in Boxes : x # <<p, PM>> => input'[x] = input[x]
  BY <1>1, BoxSet, BoxesAre, ZenonT(60) DEF IInv
<1>3. /\ input'[<<FS, PM>>] = input[<<FS, PM>>] /\ input'[<<PM, FS>>] = input[<<PM, FS>>]
      /\ input'[<<DRV, FS>>] = input[<<DRV, FS>>] /\ input'[<<p, FS>>] = input[<<p, FS>>]
      /\ \A d \in Clients : d # p => /\ input'[<<d, FS>>] = input[<<d, FS>>]
                                     /\ input'[<<d, PM>>] = input[<<d, PM>>]
  BY <1>2, Ids, BoxesAre
<1>4. pm'.at = "idle" /\ ~AtPm(FS)' /\ ~AtPm(PM)' /\ ~AtPm(p)' /\ ~AtPm(FS)
  BY <1>0, <1>1, Ids DEF Idle, AtPm
<1>5. TypeOK'
  BY <1>1, <1>2 DEF IInv, TypeOK, Idle
<1>6. ServerInv'
  BY <1>0, <1>1, <1>3, <1>4, ZenonT(60) DEF IInv, ServerInv, AtFs
<1>7. Packed(list)' /\ DriverInv'
  BY <1>1, <1>3, KeepsList, ZenonT(60) DEF IInv, DriverInv
<1>8. ASSUME NEW d \in Clients, d # p PROVE LocalInv(d)'
  <2>1. SameProgram(d) /\ (InList(d)' <=> InList(d))
    BY <1>1, <1>3, <1>8 DEF SameProgram, InList
  <2> QED BY <1>0, <1>1, <1>3, <1>4, <1>8, <2>1, PmFrame, ZenonT(60) DEF ParkedFor
<1>9. LocalInv(p)'
  <2>1. LocalInv(p)
    BY DEF IInv
  <2>2. ~AtFs(p) /\ ~AtFs(p)' /\ pc[p] = "FORK_IPC" /\ p \notin ready[PM]
    BY <1>0, <1>1, <2>1, ZenonT(60) DEF LocalInv, RequestInv, AtFs
  <2>3. RequestInv(p)'
    BY <1>1, <1>3, <1>4, <2>1, <2>2, ZenonT(60) DEF LocalInv, RequestInv
  <2>4. DescriptorInv(p)'
    BY <1>1, <1>4, <2>1, <2>2, ZenonT(60) DEF LocalInv, DescriptorInv, Wanted, InList
  <2>5. ChannelInv(p)'
    BY <1>1, <1>3, <1>4, <2>1, <2>2, ZenonT(60)
    DEF LocalInv, ChannelInv, Asked, Closer, Serving, ParkedFor
  <2> QED BY <2>3, <2>4, <2>5 DEF LocalInv
<1> QED BY <1>1, <1>5, <1>6, <1>7, <1>8, <1>9 DEF IInv

\* fork: the child's CPU has no request, no descriptor and no channel yet.
LEMMA ForkStep ==
  ASSUME IInv, local_fork, FreeCpus # {},
         IsFiniteSet(Clients), Cardinality(Clients) < MAX_CHANNELS
  PROVE  IInv' /\ (list' # list => \E c \in Clients : Appended(c))
<1>0. PICK p \in Clients : p = pm.from /\ AtPm(p)
  BY PmClient DEF local_fork
<1>a. FreeCpus \in SUBSET Nat
  BY ServersAssumption, ZenonT(60) DEF FreeCpus
<1>b. PICK c \in Clients : c = Lowest(FreeCpus) /\ pc[c] = "none"
  BY <1>a, LowestIn DEF FreeCpus
<1>1. /\ pm.at = "FORK_IPC" /\ pm' = Idle /\ input' = [input EXCEPT ![<<p, PM>>] = TRUE]
      /\ fds' = [fds EXCEPT ![c] = fds[p]] /\ pc' = [pc EXCEPT ![c] = "run"]
      /\ IF fds[p] THEN /\ chan' = [chan EXCEPT ![c] = Clean]
                        /\ list' = add_channel_list(list, c)
                   ELSE chan' = chan /\ list' = list
      /\ ready' = ready /\ output' = output /\ pending' = pending /\ drv' = drv
      /\ calls' = calls /\ fs' = fs
  BY <1>0, <1>b DEF local_fork, local_channel, pmOthers
<1>2. /\ input' \in [Boxes -> BOOLEAN] /\ input'[<<p, PM>>]
      /\ \A x \in Boxes : x # <<p, PM>> => input'[x] = input[x]
  BY <1>1, BoxSet, BoxesAre, ZenonT(60) DEF IInv
<1>3. /\ input'[<<FS, PM>>] = input[<<FS, PM>>] /\ input'[<<PM, FS>>] = input[<<PM, FS>>]
      /\ input'[<<DRV, FS>>] = input[<<DRV, FS>>] /\ input'[<<p, FS>>] = input[<<p, FS>>]
      /\ \A d \in Clients : d # p => /\ input'[<<d, FS>>] = input[<<d, FS>>]
                                     /\ input'[<<d, PM>>] = input[<<d, PM>>]
  BY <1>2, Ids, BoxesAre
<1>4. /\ pm'.at = "idle" /\ ~AtPm(FS)' /\ ~AtPm(PM)' /\ ~AtPm(p)' /\ ~AtPm(c)' /\ ~AtPm(FS)
  BY <1>0, <1>1, Ids DEF Idle, AtPm
<1>5. LocalInv(c) /\ LocalInv(p) /\ pc[p] = "FORK_IPC" /\ p # c
  BY <1>0, <1>1, <1>b DEF IInv, LocalInv, RequestInv
<1>6. /\ c \notin ready[FS] /\ c \notin ready[PM] /\ ~AtFs(c) /\ ~AtPm(c)
      /\ ~input[<<c, FS>>] /\ ~input[<<c, PM>>]
  BY <1>5, <1>b, NoRequest, ZenonT(60)
<1>7. ~fds[c] /\ ~InList(c) /\ ~pending[c] /\ ~Closer(c)
  BY <1>5, <1>6, <1>b, ZenonT(60) DEF LocalInv, DescriptorInv, Wanted, Closer
<1>8. ~chan[c].ready_send /\ ~chan[c].ready_reply /\ ~Serving(c)
  BY <1>5, <1>7, ZenonT(60) DEF LocalInv, ChannelInv, Asked
<1>9. /\ Packed(list)' /\ list' \in [0 .. MAX_CHANNELS -> Clients \union {NoChannel}]
      /\ \A d \in Clients : InList(d)' <=> InList(d) \/ (fds[p] /\ d = c)
      /\ list' # list => Appended(c)
  <2>1. TypeOK /\ Packed(list)
    BY DEF IInv
  <2>2. list \in [0 .. MAX_CHANNELS -> Clients \union {NoChannel}]
    BY <2>1 DEF TypeOK
  <2>3. CASE fds[p]
    BY <1>1, <1>7, <2>1, <2>2, <2>3, AddIs
  <2>4. CASE ~fds[p]
    BY <1>1, <2>1, <2>2, <2>4, KeepsList DEF InList
  <2> QED BY <2>3, <2>4
<1>10. /\ chan' \in [Clients -> Pages] /\ ~chan'[c].ready_send /\ ~chan'[c].ready_reply
       /\ \A d \in Clients : d # c => chan'[d] = chan[d]
  <2>1. Clean \in Pages
    BY DEF Clean, Pages
  <2>2. CASE fds[p]
    <3>1. /\ chan' \in [Clients -> Pages] /\ chan'[c] = Clean
          /\ \A d \in Clients : d # c => chan'[d] = chan[d]
      BY <1>1, <2>1, <2>2, PageSet DEF IInv
    <3>2. Clean.ready_send = FALSE /\ Clean.ready_reply = FALSE
      BY DEF Clean
    <3> QED BY <3>1, <3>2, ZenonT(60)
  <2>3. CASE ~fds[p]
    BY <1>1, <1>8, <2>3 DEF IInv, TypeOK, Pages
  <2> QED BY <2>2, <2>3
<1>11. /\ fds' \in [Clients -> BOOLEAN] /\ fds'[c] = fds[p] /\ pc'[c] = "run"
       /\ pc' \in [Clients -> (Calls \ {"cnl_send"}) \union {"run", "none"}]
       /\ \A d \in Clients : d # c => fds'[d] = fds[d] /\ pc'[d] = pc[d]
  BY <1>1 DEF IInv, TypeOK
<1>12. TypeOK'
  BY <1>1, <1>2, <1>9, <1>10, <1>11, ZenonT(60) DEF IInv, TypeOK, Idle, Pages
<1>13. ServerInv' /\ DriverInv'
  BY <1>0, <1>1, <1>3, <1>4, ZenonT(60) DEF IInv, ServerInv, DriverInv, AtFs
<1>14. ASSUME NEW d \in Clients, d # p, d # c PROVE LocalInv(d)'
  <2>1. SameProgram(d) /\ (InList(d)' <=> InList(d))
    BY <1>1, <1>3, <1>9, <1>10, <1>11, <1>14, ZenonT(60) DEF SameProgram
  <2> QED BY <1>0, <1>1, <1>3, <1>4, <1>14, <2>1, PmFrame, ZenonT(60) DEF ParkedFor
<1>15. LocalInv(p)'
  <2>1. ~AtFs(p) /\ ~AtFs(p)' /\ p \notin ready[PM] /\ pc'[p] = "FORK_IPC"
    BY <1>0, <1>1, <1>5, <1>11, ZenonT(60) DEF LocalInv, RequestInv, AtFs
  <2>2. fds'[p] = fds[p] /\ chan'[p] = chan[p] /\ (InList(p)' <=> InList(p))
    BY <1>5, <1>9, <1>10, <1>11, ZenonT(60)
  <2>3. RequestInv(p)'
    BY <1>1, <1>3, <1>4, <1>5, <2>1, ZenonT(60) DEF LocalInv, RequestInv
  <2>4. DescriptorInv(p)'
    BY <1>1, <1>4, <1>5, <2>1, <2>2, ZenonT(60) DEF LocalInv, DescriptorInv, Wanted
  <2>5. ChannelInv(p)'
    BY <1>0, <1>1, <1>3, <1>4, <1>5, <2>1, <2>2, ZenonT(60)
    DEF LocalInv, ChannelInv, Asked, Closer, Serving, ParkedFor
  <2> QED BY <2>3, <2>4, <2>5 DEF LocalInv
<1>16. LocalInv(c)'
  <2>1. ~AtFs(c)' /\ ~Serving(c)'
    BY <1>1, <1>6, <1>8 DEF AtFs, Serving
  <2>2. RequestInv(c)'
    BY <1>1, <1>3, <1>4, <1>5, <1>6, <2>1 DEF RequestInv
  <2>3. DescriptorInv(c)'
    BY <1>1, <1>4, <1>7, <1>9, <1>11, <2>1, ZenonT(60) DEF DescriptorInv, Wanted
  <2>4. ChannelInv(c)'
    BY <1>10, <2>1 DEF ChannelInv
  <2> QED BY <2>2, <2>3, <2>4 DEF LocalInv
<1> QED BY <1>9, <1>12, <1>13, <1>14, <1>15, <1>16 DEF IInv

\* exec: PM asks FS for the program.
LEMMA ExecStep ==
  ASSUME IInv, local_exec
  PROVE  IInv'
<1>0. PICK p \in Clients : p = pm.from /\ AtPm(p)
  BY PmClient DEF local_exec
<1>1. /\ pm.at = "EXEC_IPC" /\ pm' = [pm EXCEPT !.at = "loading"]
      /\ output' = [output EXCEPT ![PM] = [number |-> "LOAD_IPC", arg |-> p]]
      /\ ready' = [ready EXCEPT ![FS] = ready[FS] \union {PM}]
      /\ fds' = fds /\ chan' = chan /\ list' = list /\ input' = input /\ pc' = pc
      /\ pending' = pending /\ drv' = drv /\ calls' = calls /\ fs' = fs
  BY <1>0 DEF local_exec, msg_send, pmOthers
<1>2. /\ ready'[FS] = ready[FS] \union {PM} /\ ready'[PM] = ready[PM]
      /\ output'[PM].number = "LOAD_IPC" /\ output'[FS] = output[FS]
      /\ \A d \in Clients : output'[d] = output[d]
      /\ pm'.at = "loading" /\ pm'.from = p
  BY <1>0, <1>1, Ids DEF IInv, TypeOK
<1>3. TypeOK'
  BY <1>1, ZenonT(60) DEF IInv, TypeOK, Numbers, Calls
<1>4. ~AtFs(PM) /\ ~input[<<PM, FS>>] /\ ~AtPm(FS)
  BY <1>0, <1>1, Ids DEF IInv, ServerInv, AtPm
<1>5. ServerInv'
  BY <1>1, <1>2, <1>4, Ids DEF IInv, ServerInv, AtFs, AtPm
<1>6. Packed(list)' /\ DriverInv'
  BY <1>1, KeepsList DEF IInv, DriverInv
<1>7. ASSUME NEW d \in Clients, d # p PROVE LocalInv(d)'
  <2>1. SameProgram(d) /\ (InList(d)' <=> InList(d))
    BY <1>1, <1>2, Ids DEF SameProgram, InList
  <2> QED BY <1>0, <1>1, <1>2, <1>7, <2>1, PmFrame DEF ParkedFor
<1>8. LocalInv(p)'
  <2>1. LocalInv(p)
    BY DEF IInv
  <2>2. ~AtFs(p) /\ ~AtFs(p)' /\ pc[p] = "EXEC_IPC" /\ AtPm(p)'
    BY <1>0, <1>1, <1>2, <2>1 DEF LocalInv, RequestInv, AtPm, AtFs
  <2>3. RequestInv(p)'
    BY <1>0, <1>1, <1>2, <2>1, <2>2, Ids DEF LocalInv, RequestInv
  <2>4. DescriptorInv(p)'
    BY <1>1, <1>2, <2>1, <2>2 DEF LocalInv, DescriptorInv, Wanted, InList
  <2>5. ChannelInv(p)'
    BY <1>1, <1>2, <2>1, <2>2 DEF LocalInv, ChannelInv, Asked, Closer, Serving, ParkedFor
  <2> QED BY <2>3, <2>4, <2>5 DEF LocalInv
<1> QED BY <1>3, <1>5, <1>6, <1>7, <1>8 DEF IInv

\* The program is loaded.
LEMMA LoadedStep ==
  ASSUME IInv, PmLoaded
  PROVE  IInv'
<1>0. PICK p \in Clients : p = pm.from /\ AtPm(p)
  BY PmClient DEF PmLoaded
<1>1. /\ pm.at = "loading" /\ input[<<PM, FS>>] /\ pm' = Idle
      /\ input' = [input EXCEPT ![<<PM, FS>>] = FALSE, ![<<p, PM>>] = TRUE]
      /\ fds' = fds /\ chan' = chan /\ list' = list /\ pc' = pc /\ ready' = ready
      /\ output' = output /\ pending' = pending /\ drv' = drv /\ calls' = calls /\ fs' = fs
  BY <1>0 DEF PmLoaded, pmOthers
<1>2. /\ input' \in [Boxes -> BOOLEAN] /\ ~input'[<<PM, FS>>] /\ input'[<<p, PM>>]
      /\ \A x \in Boxes : x # <<PM, FS>> /\ x # <<p, PM>> => input'[x] = input[x]
  <2>1. TypeOK /\ <<PM, FS>> # <<p, PM>> /\ <<PM, FS>> \in Boxes /\ <<p, PM>> \in Boxes
    BY BoxesAre, Ids, ZenonT(60) DEF IInv
  <2> QED BY <1>1, <2>1, BoxSet2, ZenonT(60)
<1>3. /\ input'[<<FS, PM>>] = input[<<FS, PM>>]
      /\ input'[<<DRV, FS>>] = input[<<DRV, FS>>] /\ input'[<<p, FS>>] = input[<<p, FS>>]
      /\ \A d \in Clients : d # p => /\ input'[<<d, FS>>] = input[<<d, FS>>]
                                     /\ input'[<<d, PM>>] = input[<<d, PM>>]
  BY <1>2, Ids, BoxesAre
<1>4. pm'.at = "idle" /\ ~AtPm(FS)' /\ ~AtPm(PM)' /\ ~AtPm(p)' /\ ~AtPm(FS)
  BY <1>0, <1>1, Ids DEF Idle, AtPm
<1>5. TypeOK'
  BY <1>1, <1>2, ZenonT(60) DEF IInv, TypeOK, Idle
<1>6. ServerInv'
  BY <1>0, <1>1, <1>2, <1>3, <1>4, ZenonT(60) DEF IInv, ServerInv, AtFs
<1>7. Packed(list)' /\ DriverInv'
  BY <1>1, <1>3, KeepsList, ZenonT(60) DEF IInv, DriverInv
<1>8. ASSUME NEW d \in Clients, d # p PROVE LocalInv(d)'
  <2>1. SameProgram(d) /\ (InList(d)' <=> InList(d))
    BY <1>1, <1>3, <1>8, ZenonT(60) DEF SameProgram, InList
  <2> QED BY <1>0, <1>1, <1>3, <1>4, <1>8, <2>1, PmFrame, ZenonT(60) DEF ParkedFor
<1>9. LocalInv(p)'
  <2>1. LocalInv(p)
    BY DEF IInv
  <2>2. ~AtFs(p) /\ ~AtFs(p)' /\ pc[p] = "EXEC_IPC" /\ p \notin ready[PM]
    BY <1>0, <1>1, <2>1, ZenonT(60) DEF LocalInv, RequestInv, AtFs
  <2>3. RequestInv(p)'
    BY <1>1, <1>3, <1>4, <2>1, <2>2, ZenonT(60) DEF LocalInv, RequestInv
  <2>4. DescriptorInv(p)'
    BY <1>1, <1>4, <2>1, <2>2, ZenonT(60) DEF LocalInv, DescriptorInv, Wanted, InList
  <2>5. ChannelInv(p)'
    BY <1>1, <1>3, <1>4, <2>1, <2>2, ZenonT(60)
    DEF LocalInv, ChannelInv, Asked, Closer, Serving, ParkedFor
  <2> QED BY <2>3, <2>4, <2>5 DEF LocalInv
<1> QED BY <1>5, <1>6, <1>7, <1>8, <1>9 DEF IInv

\* exit with an open device: PM asks the driver to let go of the channel.
LEMMA ExitOpenStep ==
  ASSUME IInv, ExitOpen
  PROVE  IInv'
<1>0. PICK p \in Clients : p = pm.from /\ AtPm(p)
  BY PmClient DEF ExitOpen
<1>1. /\ pm.at = "EXIT_IPC" /\ fds[p] /\ pm' = [pm EXCEPT !.at = "driver"]
      /\ chan' = [chan EXCEPT ![p] = Sent(p, "CLOSE_CHANNEL")]
      /\ fds' = fds /\ list' = list /\ input' = input /\ pc' = pc /\ ready' = ready
      /\ output' = output /\ pending' = pending /\ drv' = drv /\ calls' = calls /\ fs' = fs
  BY <1>0 DEF ExitOpen, pmOthers
<1>2. /\ chan' \in [Clients -> Pages] /\ pm'.at = "driver" /\ pm'.from = p
      /\ chan'[p].ready_send /\ ~chan'[p].ready_reply /\ chan'[p].data = "CLOSE_CHANNEL"
      /\ \A d \in Clients : d # p => chan'[d] = chan[d]
  <2>1. Sent(p, "CLOSE_CHANNEL") \in Pages
    BY DEF Sent, Pages
  <2> QED BY <1>0, <1>1, <2>1, PageSet, ZenonT(60) DEF IInv, TypeOK, Sent
<1>3. TypeOK'
  BY <1>1, <1>2 DEF IInv, TypeOK, Pages
<1>4. ~AtPm(FS) /\ ~AtPm(FS)' /\ ~AtPm(PM)'
  BY <1>0, <1>2, Ids DEF AtPm
<1>5. ServerInv'
  BY <1>0, <1>1, <1>2, <1>4, Ids DEF IInv, ServerInv, AtFs
<1>6. Packed(list)' /\ DriverInv'
  BY <1>1, KeepsList DEF IInv, DriverInv
<1>7. ASSUME NEW d \in Clients, d # p PROVE LocalInv(d)'
  <2>1. SameProgram(d) /\ (InList(d)' <=> InList(d))
    BY <1>1, <1>2, <1>7 DEF SameProgram, InList
  <2> QED BY <1>0, <1>1, <1>2, <1>7, <2>1, PmFrame DEF ParkedFor
<1>8. LocalInv(p)'
  <2>1. LocalInv(p)
    BY DEF IInv
  <2>2. ~AtFs(p) /\ ~AtFs(p)' /\ pc[p] = "EXIT_IPC" /\ AtPm(p)'
    BY <1>0, <1>1, <1>2, <2>1 DEF LocalInv, RequestInv, AtPm, AtFs
  <2>3. ~pending[p] /\ ~Closer(p) /\ ~Serving(p)
    BY <1>1, <2>1, <2>2 DEF LocalInv, DescriptorInv, ChannelInv, Closer, Asked
  <2>4. RequestInv(p)'
    BY <1>0, <1>1, <1>2, <2>1, <2>2 DEF LocalInv, RequestInv
  <2>5. DescriptorInv(p)'
    BY <1>1, <1>2, <2>1, <2>2 DEF LocalInv, DescriptorInv, Wanted, InList
  <2>6. ChannelInv(p)'
    BY <1>1, <1>2, <2>2, <2>3 DEF ChannelInv, Asked, Closer, Serving
  <2> QED BY <2>4, <2>5, <2>6 DEF LocalInv
<1> QED BY <1>3, <1>5, <1>6, <1>7, <1>8 DEF IInv

\* exit without an open device.
LEMMA ExitClosedStep ==
  ASSUME IInv, ExitClosed
  PROVE  IInv'
<1>0. PICK p \in Clients : p = pm.from /\ AtPm(p)
  BY PmClient DEF ExitClosed
<1>1. /\ pm.at = "EXIT_IPC" /\ ~fds[p] /\ pm' = Idle /\ pc' = [pc EXCEPT ![p] = "none"]
      /\ fds' = fds /\ chan' = chan /\ list' = list /\ input' = input /\ ready' = ready
      /\ output' = output /\ pending' = pending /\ drv' = drv /\ calls' = calls /\ fs' = fs
  BY <1>0 DEF ExitClosed, pmOthers
<1>2. /\ pm'.at = "idle" /\ ~AtPm(FS)' /\ ~AtPm(PM)' /\ ~AtPm(p)' /\ ~AtPm(FS)
      /\ pc'[p] = "none" /\ \A d \in Clients : d # p => pc'[d] = pc[d]
  BY <1>0, <1>1, Ids DEF Idle, AtPm, IInv, TypeOK
<1>3. TypeOK'
  BY <1>1 DEF IInv, TypeOK, Idle
<1>5. ServerInv'
  BY <1>0, <1>1, <1>2, Ids, ZenonT(60) DEF IInv, ServerInv, AtFs
<1>6. Packed(list)' /\ DriverInv'
  BY <1>1, KeepsList DEF IInv, DriverInv
<1>7. ASSUME NEW d \in Clients, d # p PROVE LocalInv(d)'
  <2>1. SameProgram(d) /\ (InList(d)' <=> InList(d))
    BY <1>1, <1>2, <1>7, ZenonT(60) DEF SameProgram, InList
  <2> QED BY <1>0, <1>1, <1>2, <1>7, <2>1, PmFrame, ZenonT(60) DEF ParkedFor
<1>8. LocalInv(p)'
  <2>1. LocalInv(p)
    BY DEF IInv
  <2>2. /\ ~AtFs(p) /\ ~AtFs(p)' /\ pc[p] = "EXIT_IPC" /\ ~pending[p]
        /\ p \notin ready[FS] /\ p \notin ready[PM] /\ ~input[<<p, FS>>] /\ ~input[<<p, PM>>]
    BY <1>0, <1>1, <2>1, ZenonT(60) DEF LocalInv, RequestInv, DescriptorInv, AtFs
  <2>3. RequestInv(p)'
    BY <1>1, <1>2, <2>2, ZenonT(60) DEF RequestInv
  <2>4. DescriptorInv(p)'
    BY <1>1, <1>2, <2>1, <2>2, ZenonT(60) DEF LocalInv, DescriptorInv, Wanted, InList
  <2>5. ChannelInv(p)'
    BY <1>1, <1>2, <2>1, <2>2, ZenonT(60) DEF LocalInv, ChannelInv, Asked, Closer, Serving, ParkedFor
  <2> QED BY <2>3, <2>4, <2>5 DEF LocalInv
<1> QED BY <1>3, <1>5, <1>6, <1>7, <1>8 DEF IInv

\* The driver has let go of the channel of a program that exits; PM frees the
\* channel and releases the driver.
LEMMA ExitClosesStep ==
  ASSUME IInv, ExitCloses
  PROVE  IInv' /\ \E c \in Clients : pm.from = c /\ ParkedFor(c) /\ TakenOut(c)
<1>0. PICK p \in Clients : p = pm.from /\ AtPm(p)
  BY PmClient DEF ExitCloses
<1>a. LocalInv(p) /\ pm.at = "driver" /\ chan[p].ready_reply
  BY <1>0 DEF IInv, ExitCloses
<1>2. /\ pc[p] = "EXIT_IPC" /\ ~AtFs(p) /\ p \notin ready[FS] /\ p \notin ready[PM]
      /\ ~input[<<p, FS>>] /\ ~input[<<p, PM>>]
  BY <1>0, <1>a, ZenonT(60) DEF LocalInv, RequestInv
<1>3. fds[p] /\ InList(p) /\ ~pending[p]
  BY <1>0, <1>a, <1>2, ZenonT(60) DEF LocalInv, DescriptorInv, Wanted
<1>b. ParkedFor(p) /\ ~chan[p].ready_send
  BY <1>0, <1>a DEF LocalInv, ChannelInv, Closer
<1>1. /\ list' = remove_channel_list(list, p) /\ pm' = Idle
      /\ chan' = [chan EXCEPT ![p] = [chan[p] EXCEPT !.ready_reply = FALSE]]
      /\ fds' = [fds EXCEPT ![p] = FALSE] /\ input' = [input EXCEPT ![<<DRV, FS>>] = TRUE]
      /\ pc' = [pc EXCEPT ![p] = "none"]
      /\ ready' = ready /\ output' = output /\ pending' = pending /\ drv' = drv
      /\ calls' = calls /\ fs' = fs
  <2>1. ~NotFound(list, p)
    BY <1>3 DEF NotFound, InList
  <2> QED BY <1>0, <2>1 DEF ExitCloses, local_channel_close, Received, pmOthers
<1>4. /\ TakenOut(p) /\ Packed(list)'
      /\ list' \in [0 .. MAX_CHANNELS -> Clients \union {NoChannel}]
      /\ \A d \in Clients : InList(d)' <=> InList(d) /\ d # p
  <2>1. TypeOK /\ Packed(list)
    BY DEF IInv
  <2>2. list \in [0 .. MAX_CHANNELS -> Clients \union {NoChannel}]
    BY <2>1 DEF TypeOK
  <2> QED BY <1>1, <1>3, <2>1, <2>2, RemoveIs
<1>5. /\ chan' \in [Clients -> Pages]
      /\ chan'[p].ready_send = chan[p].ready_send /\ ~chan'[p].ready_reply
      /\ \A d \in Clients : d # p => chan'[d] = chan[d]
  BY <1>1, PageSet, PageFlag, ZenonT(60) DEF IInv
<1>6. /\ input' \in [Boxes -> BOOLEAN] /\ input'[<<DRV, FS>>]
      /\ \A x \in Boxes : x # <<DRV, FS>> => input'[x] = input[x]
  BY <1>1, BoxSet, BoxesAre, ZenonT(60) DEF IInv
<1>7. /\ input'[<<PM, FS>>] = input[<<PM, FS>>] /\ input'[<<FS, PM>>] = input[<<FS, PM>>]
      /\ \A d \in Clients : /\ input'[<<d, FS>>] = input[<<d, FS>>]
                            /\ input'[<<d, PM>>] = input[<<d, PM>>]
  BY <1>6, Ids, BoxesAre
<1>8. /\ fds' \in [Clients -> BOOLEAN] /\ ~fds'[p] /\ pc'[p] = "none"
      /\ pc' \in [Clients -> (Calls \ {"cnl_send"}) \union {"run", "none"}]
      /\ \A d \in Clients : d # p => fds'[d] = fds[d] /\ pc'[d] = pc[d]
  BY <1>1 DEF IInv, TypeOK
<1>9. pm'.at = "idle" /\ ~AtPm(FS)' /\ ~AtPm(PM)' /\ ~AtPm(p)' /\ ~AtPm(FS)
  BY <1>0, <1>1, Ids DEF Idle, AtPm
<1>10. TypeOK'
  BY <1>1, <1>4, <1>5, <1>6, <1>8 DEF IInv, TypeOK, Idle, Pages
<1>11. ServerInv'
  BY <1>0, <1>1, <1>7, <1>9, <1>a, ZenonT(60) DEF IInv, ServerInv, AtFs
<1>12. DriverInv'
  BY <1>1, <1>b DEF IInv, DriverInv, ParkedFor
<1>13. ASSUME NEW d \in Clients, d # p PROVE LocalInv(d)'
  <2>1. SameProgram(d) /\ (InList(d)' <=> InList(d))
    BY <1>1, <1>4, <1>5, <1>7, <1>8, <1>13, ZenonT(60) DEF SameProgram
  <2>2. ~ParkedFor(d)
    BY <1>b, <1>13 DEF ParkedFor
  <2> QED BY <1>0, <1>1, <1>7, <1>9, <1>13, <2>1, <2>2, PmFrame, ZenonT(60)
<1>14. LocalInv(p)'
  <2>1. ~AtFs(p)' /\ ~Serving(p)'
    BY <1>1, <1>2, <1>b DEF AtFs, Serving, ParkedFor
  <2>2. RequestInv(p)'
    BY <1>1, <1>2, <1>7, <1>9, <2>1, ZenonT(60) DEF RequestInv
  <2>3. DescriptorInv(p)'
    BY <1>1, <1>3, <1>4, <1>8, <1>9, <2>1 DEF DescriptorInv, Wanted
  <2>4. ChannelInv(p)'
    BY <1>5, <1>b, <2>1 DEF ChannelInv
  <2> QED BY <2>2, <2>3, <2>4 DEF LocalInv
<1> QED BY <1>0, <1>4, <1>10, <1>11, <1>12, <1>13, <1>14, <1>b, ZenonT(60) DEF IInv
-----------------------------------------------------------------------------
(* The theorems *)

\* What a step may do to the list, and when it may take a channel off it.
StepOK ==
  /\ list' # list => \E c \in Clients : Appended(c) \/ TakenOut(c)
  /\ \A c \in Clients : Removes(c) => ParkedFor(c)

\* Every step preserves the invariant, and treats the list as stated.
LEMMA NextIInv ==
  ASSUME IInv, [Next]_vars, IsFiniteSet(Clients), Cardinality(Clients) < MAX_CHANNELS
  PROVE  IInv' /\ StepOK
<1>1. ASSUME ~PmChannelClose, ~ExitCloses PROVE \A c \in Clients : ~Removes(c)
  BY <1>1 DEF Removes
<1>2. CASE PmChannelClose
  <2>1. PICK c \in Clients : output[pm.from].arg = c /\ ParkedFor(c) /\ TakenOut(c)
    BY <1>2, ChannelCloseStep
  <2>2. ~ExitCloses
    BY <1>2 DEF PmChannelClose, ExitCloses
  <2> QED BY <1>2, <2>1, <2>2, ChannelCloseStep DEF StepOK, Removes
<1>3. CASE ExitCloses
  <2>1. PICK c \in Clients : pm.from = c /\ ParkedFor(c) /\ TakenOut(c)
    BY <1>3, ExitClosesStep
  <2>2. ~PmChannelClose
    BY <1>3 DEF PmChannelClose, ExitCloses
  <2> QED BY <1>3, <2>1, <2>2, ExitClosesStep DEF StepOK, Removes
<1> SUFFICES ASSUME ~PmChannelClose, ~ExitCloses
             PROVE  IInv' /\ (list' # list => \E c \in Clients : Appended(c) \/ TakenOut(c))
  BY <1>1, <1>2, <1>3 DEF StepOK
<1>4. CASE UNCHANGED vars
  <2>1. /\ fds' = fds /\ chan' = chan /\ list' = list /\ drv' = drv /\ ready' = ready
        /\ output' = output /\ input' = input /\ pc' = pc /\ pending' = pending /\ fs' = fs
        /\ pm' = pm /\ calls' = calls
    BY <1>4 DEF vars, devices
  <2>2. TypeOK' /\ DriverInv' /\ Packed(list)'
    <3>1. TypeOK'
      BY <2>1, ZenonT(60) DEF IInv, TypeOK
    <3> QED BY <2>1, <3>1, KeepsList DEF IInv, DriverInv
  <2>4. ServerInv'
    BY <2>1, ZenonT(60) DEF IInv, ServerInv, AtFs, AtPm
  <2>3. ASSUME NEW d \in Clients PROVE LocalInv(d)'
    <3>1. SameProgram(d) /\ SameServers(d) /\ SameDriver(d)
      BY <2>1, ZenonT(60)
      DEF SameProgram, SameServers, SameDriver, AtFs, AtPm, InList, Serving, ParkedFor
    <3> QED BY <3>1, Frame DEF IInv
  <2> QED BY <2>1, <2>2, <2>3, <2>4 DEF IInv
<1>5. CASE Driver
  <2>1. IInv'
    BY <1>5, ScanOnStep, ScanFindsStep, DriverReplyStep, ReleasedStep DEF Driver
  <2>2. list' = list
    BY <1>5 DEF Driver, ScanOn, ScanFinds, cnl_reply, close_channel
  <2> QED BY <2>1, <2>2
<1>6. CASE FileServer
  <2>1. IInv'
    BY <1>6, FsCheckStep, OpenCharStep, OpenedStep, CloseStep, CloseAtPmStep, ClosedStep, LoadStep
    DEF FileServer
  <2>2. list' = list
    BY <1>6
    DEF FileServer, FsCheck, local_open_char, FsOpened, local_close, FsCloseAtPm, FsClosed,
        local_load, fsOthers
  <2> QED BY <2>1, <2>2
<1>7. CASE PmCheck \/ local_exec \/ PmLoaded \/ ExitOpen \/ ExitClosed
  <2>1. IInv'
    BY <1>7, PmCheckStep, ExecStep, LoadedStep, ExitOpenStep, ExitClosedStep
  <2>2. list' = list
    BY <1>7 DEF PmCheck, local_exec, PmLoaded, ExitOpen, ExitClosed
  <2> QED BY <2>1, <2>2
<1>8. CASE PmChannel
  BY <1>8, ChannelStep
<1>9. CASE local_fork
  BY <1>9, NoForkStep, ForkStep
<1>10. CASE \E c \in Clients : Program(c) \/ msg_receive(c) \/ cnl_receive(c)
  <2>1. PICK c \in Clients : Program(c) \/ msg_receive(c) \/ cnl_receive(c)
    BY <1>10
  <2>2. CASE open(c) \/ close(c) \/ fork_internal(c) \/ exec(c) \/ exit(c)
    <3>1. PICK op \in {"OPEN_IPC", "CLOSE_IPC", "FORK_IPC", "EXEC_IPC", "EXIT_IPC"} :
            /\ Call(c, op, IF op \in {"OPEN_IPC", "CLOSE_IPC"} THEN FS ELSE PM)
            /\ op \in {"CLOSE_IPC", "EXEC_IPC", "EXIT_IPC"} => ~pending[c]
      BY <2>2 DEF open, close, fork_internal, exec, exit
    <3>2. IInv'
      BY <3>1, CallStep
    <3>3. list' = list
      BY <3>1 DEF Call, devices
    <3> QED BY <3>2, <3>3
  <2>3. CASE cnl_send(c) \/ msg_receive(c) \/ cnl_receive(c)
    <3>1. IInv'
      BY <2>3, SendStep, ReceiveStep, AnswerStep
    <3>2. list' = list
      BY <2>3 DEF cnl_send, msg_receive, cnl_receive, devices
    <3> QED BY <3>1, <3>2
  <2> QED BY <2>1, <2>2, <2>3 DEF Program
<1> QED BY <1>4, <1>5, <1>6, <1>7, <1>8, <1>9, <1>10 DEF Next, ProcessManager

\* The invariant holds, for every set of CPUs that is smaller than the list.
LEMMA Invariance ==
  ASSUME IsFiniteSet(Clients), Cardinality(Clients) < MAX_CHANNELS
  PROVE  Spec => []IInv
<1>1. Init => IInv
  BY InitIInv
<1>2. IInv /\ [Next]_vars => IInv'
  BY NextIInv
<1> QED BY <1>1, <1>2, PTL DEF Spec

\* With both servers idle the driver polls the channels of exactly the open
\* descriptors (local_open_char, local_close_char, local_fork and local_exit).
THEOREM ListIsDescriptors ==
  ASSUME IsFiniteSet(Clients), Cardinality(Clients) < MAX_CHANNELS
  PROVE  Spec => []ListMatchesFds
<1>1. IInv => ListMatchesFds
  <2> SUFFICES ASSUME IInv, fs.at = "idle", pm.at = "idle"
               PROVE  Polled(list) = {c \in Clients : fds[c]}
    BY DEF ListMatchesFds
  <2>1. \A c \in Clients : InList(c) <=> fds[c]
    BY ZenonT(60) DEF IInv, LocalInv, DescriptorInv, Wanted, AtFs
  <2>2. \A c \in Clients : c \in Polled(list) <=> InList(c)
    BY PolledIs, Ids DEF IInv
  <2>3. Polled(list) \subseteq Clients
    <3>1. ASSUME NEW i \in Slots, \A j \in 0 .. i : list[j] # NoChannel PROVE list[i] \in Clients
      <4>1. i \in 0 .. MAX_CHANNELS /\ i \in 0 .. i
        BY ServersAssumption DEF Slots
      <4> QED BY <3>1, <4>1 DEF IInv, TypeOK
    <3> QED BY <3>1 DEF Polled
  <2> QED BY <2>1, <2>2, <2>3
<1> QED BY <1>1, Invariance, PTL

\* Neither the driver nor a program uses the page of a channel that PM has taken
\* off the list and freed.
THEOREM FreedChannelsUnused ==
  ASSUME IsFiniteSet(Clients), Cardinality(Clients) < MAX_CHANNELS
  PROVE  Spec => []NoUseAfterClose
<1>1. IInv => NoUseAfterClose
  <2> SUFFICES ASSUME IInv PROVE NoUseAfterClose
    OBVIOUS
  <2>1. \A c \in Clients : c \in Polled(list) <=> InList(c)
    BY PolledIs, Ids DEF IInv
  <2>2. ASSUME NEW c \in Clients, pending[c] \/ Closer(c) PROVE InList(c)
    <3>1. LocalInv(c)
      BY DEF IInv
    <3>2. fds[c]
      BY <2>2, <3>1 DEF LocalInv, DescriptorInv, Closer
    <3>3. ~(AtFs(c) /\ fs.at \in {"opening", "closing"})
      BY <2>2, <3>1, <3>2, ZenonT(60) DEF LocalInv, RequestInv, DescriptorInv, Closer
    <3> QED BY <3>1, <3>2, <3>3, ZenonT(60) DEF LocalInv, DescriptorInv, Wanted
  <2>3. ASSUME drv.at = "serve" PROVE drv.from \in Polled(list)
    <3>1. drv.from \in Clients
      BY <2>3, ZenonT(60) DEF IInv, DriverInv
    <3>2. Asked(drv.from)
      BY <2>3, <3>1 DEF IInv, LocalInv, ChannelInv, Serving
    <3> QED BY <2>1, <2>2, <3>1, <3>2, ZenonT(60) DEF Asked
  <2> QED BY <2>1, <2>2, <2>3 DEF NoUseAfterClose
<1> QED BY <1>1, Invariance, PTL

\* PM takes a channel off the list only while the driver is parked for it and has
\* not been released (local_channel_close, called for FS and by local_exit).
THEOREM RemovesOnlyParked ==
  ASSUME IsFiniteSet(Clients), Cardinality(Clients) < MAX_CHANNELS
  PROVE  Spec => ParkedDuringRemoval
<1>1. IInv /\ [Next]_vars =>
        [\A c \in Clients : Removes(c) => /\ drv.at = "parked" /\ drv.from = c
                                          /\ ~input[<<DRV, FS>>]]_vars
  BY NextIInv DEF StepOK, ParkedFor
<1> QED BY <1>1, Invariance, PTL DEF Spec, ParkedDuringRemoval

\* PM appends one channel to the list or takes one out and closes the gap, and
\* changes the list in no other way (add_channel_list, remove_channel_list).
THEOREM ListEditsKeepOrder ==
  ASSUME IsFiniteSet(Clients), Cardinality(Clients) < MAX_CHANNELS
  PROVE  Spec => ListKeepsOrder
<1>1. IInv /\ [Next]_vars => [list' # list => \E c \in Clients : Appended(c) \/ TakenOut(c)]_vars
  BY NextIInv DEF StepOK
<1> QED BY <1>1, Invariance, PTL DEF Spec, ListKeepsOrder
=============================================================================
