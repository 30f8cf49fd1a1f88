------------------------------- MODULE E1000 -------------------------------
(***************************************************************************)
(* The network driver (drivers/net/e1000) between the rings it shares with *)
(* the device and lwIP: it polls the device's count of received packets,   *)
(* hands every buffer to lwIP without a copy, and the echo server sends    *)
(* the datagram back from the same buffer.  A packet is its number; all of *)
(* lwIP between ni.input and udp_recv is Input.                            *)
(***************************************************************************)
EXTENDS Integers, Sequences, SequenceTheorems, TLAPS

CONSTANTS
  E1000_RXDESC_NR, E1000_TXDESC_NR,
  MEMP_NUM_PBUF,        \* pbuf headers without memory of their own
  Lengths,              \* of packets; 0 is what a descriptor holds at the start
  MaxPackets            \* bound on the packets that arrive

Rx == 0..(E1000_RXDESC_NR - 1)
Tx == 0..(E1000_TXDESC_NR - 1)
Nothing == 0

VARIABLES
  rx,           \* rx_desc and rx_buf: [packet, length] of every slot
  RDH, RDT, TPR,
  tx,           \* tx_desc and tx_buf: the packet of every slot
  TDH, TDT,
  todo,         \* missed_packets - i of rx_packet
  input,        \* [slot, desc, length] of the running e1000_read, or Idle
  pbufs,        \* free entries of MEMP_PBUF
  arrived,      \* ghost: <<kind, length>> of the packets, by number
  taken,        \* ghost: the packets lwIP is done with
  source,       \* ghost: whose length each of them was given
  wire,         \* ghost: the packets the device has sent
  echoed,       \* ghost: the packets the server has answered
  overrun       \* ghost: TDT was moved on to TDH

nicVars == <<rx, RDH, RDT, TPR, tx, TDH, TDT, todo, input, pbufs, arrived, taken, source, wire, echoed, overrun>>

Unread == -1          \* the length of a descriptor not looked at yet
Idle == [slot |-> -1, desc |-> -1, length |-> Unread]

\* The length a descriptor has after packet k; before the first it is 0.
LengthIn(packets, k) == IF k = 0 THEN 0 ELSE packets[k][2]

\* initialization: lwIP and the echo server, with all pbufs free.
initialization == input = Idle /\ pbufs = MEMP_NUM_PBUF

e1000_init_buf ==
  /\ rx = [i \in Rx |-> [packet |-> Nothing, length |-> 0]]
  /\ RDH = 0 /\ RDT = E1000_RXDESC_NR - 1 /\ TPR = 0
  /\ tx = [i \in Tx |-> Nothing]
  /\ TDH = 0 /\ TDT = 0

NicInit ==
  /\ initialization /\ e1000_init_buf /\ todo = 0
  /\ arrived = <<>> /\ taken = <<>> /\ source = <<>> /\ wire = <<>> /\ echoed = <<>> /\ overrun = FALSE
-----------------------------------------------------------------------------
\* The device (external): it fills descriptors from RDH up to RDT, counts the packets
\* it stored, and drops a packet when it has no descriptor.
Receive(kind, length) ==
  /\ Len(arrived) < MaxPackets /\ RDH # RDT
  /\ arrived' = Append(arrived, <<kind, length>>)
  /\ rx' = [rx EXCEPT ![RDH] = [packet |-> Len(arrived) + 1, length |-> length]]
  /\ RDH' = (RDH + 1) % E1000_RXDESC_NR
  /\ TPR' = TPR + 1
  /\ UNCHANGED <<RDT, tx, TDH, TDT, todo, input, pbufs, taken, source, wire, echoed, overrun>>

\* It sends the descriptors from TDH up to TDT.
Transmit ==
  /\ TDH # TDT
  /\ wire' = Append(wire, tx[TDH])
  /\ TDH' = (TDH + 1) % E1000_TXDESC_NR
  /\ UNCHANGED <<rx, RDH, RDT, TPR, tx, TDT, todo, input, pbufs, arrived, taken, source, echoed, overrun>>
-----------------------------------------------------------------------------

\* rx_packet reads the count, which clears it.
Poll ==
  /\ todo = 0 /\ input = Idle /\ TPR > 0
  /\ todo' = TPR /\ TPR' = 0
  /\ UNCHANGED <<rx, RDH, RDT, tx, TDH, TDT, input, pbufs, arrived, taken, source, wire, echoed, overrun>>

\* e1000_read gives the descriptor at RDT back to the device before it looks at it:
\* the buffer is that of the slot after RDT.
e1000_read ==
  /\ todo > 0 /\ input = Idle
  /\ LET cur == (RDT + 1) % E1000_RXDESC_NR
     IN input' = [slot |-> cur, desc |-> RDT, length |-> Unread] /\ RDT' = cur
  /\ todo' = todo - 1
  /\ UNCHANGED <<rx, RDH, TPR, tx, TDH, TDT, pbufs, arrived, taken, source, wire, echoed, overrun>>

\* Only then is the length read, from what the device may have filled again.
\* lwip_input does not look whether pbuf_alloc failed; without a pbuf it goes no further.
lwip_input ==
  /\ input # Idle /\ input.length = Unread /\ pbufs > 0
  /\ input' = [input EXCEPT !.length = rx[input.desc].length]
  /\ source' = Append(source, rx[input.desc].packet)
  /\ pbufs' = pbufs - 1
  /\ UNCHANGED <<rx, RDH, RDT, TPR, tx, TDH, TDT, todo, arrived, taken, wire, echoed, overrun>>

Packet == rx[input.slot].packet

\* ethernet_input, ip_input: a packet is dropped when the pbuf is shorter than its
\* header says, and cut when it is longer.
PacketComplete == input.length >= arrived[Packet][2]

\* Whatever is not for the echo server is freed.
InputFrees ==
  /\ input # Idle /\ input.length # Unread /\ ~(arrived[Packet][1] = "echo" /\ PacketComplete)
  /\ taken' = Append(taken, Packet)
  /\ pbufs' = pbufs + 1 /\ input' = Idle
  /\ UNCHANGED <<rx, RDH, RDT, TPR, tx, TDH, TDT, todo, arrived, source, wire, echoed, overrun>>

\* Mutant: TDT is moved before the slot is filled.
WriteBehind(packet) ==
  /\ TDT' = (TDT + 1) % E1000_TXDESC_NR
  /\ tx' = [tx EXCEPT ![TDT'] = packet]
  /\ overrun' = (overrun \/ TDT' = TDH)

\* output, arp_output and e1000_write: a copy into the slot at TDT, without a look at TDH.
e1000_write(packet) ==
  /\ tx' = [tx EXCEPT ![TDT] = packet]
  /\ TDT' = (TDT + 1) % E1000_TXDESC_NR
  /\ overrun' = (overrun \/ TDT' = TDH)

\* our_print answers with the pbuf it got and keeps it.
our_print ==
  /\ input # Idle /\ input.length # Unread /\ arrived[Packet][1] = "echo" /\ PacketComplete
  /\ taken' = Append(taken, Packet)
  /\ e1000_write(Packet)
  /\ echoed' = Append(echoed, Packet) /\ input' = Idle
  /\ UNCHANGED <<rx, RDH, RDT, TPR, TDH, todo, pbufs, arrived, source, wire>>

NicDriver == Poll \/ e1000_read \/ lwip_input \/ InputFrees \/ our_print
NicNext == (\E k \in {"echo", "other"}, l \in Lengths : Receive(k, l)) \/ Transmit \/ NicDriver

\* The driver polls for ever on a CPU of its own.
NicSpec == NicInit /\ [][NicNext]_nicVars /\ WF_nicVars(NicDriver)
-----------------------------------------------------------------------------
\* Every packet the device stores reaches lwIP once and in order, whatever arrives
\* between the read of the count and the end of the loop over it; and the device does
\* not write the buffer lwIP works on, which RDT names until the next e1000_read.
TakenInOrder ==
  /\ \A i \in 1..Len(taken) : taken[i] = i
  /\ input # Idle => Packet = Len(taken) + 1

\* Which datagrams are answered: lwip_input gets the length of the descriptor before the
\* buffer, that of the packet before.  As RDT is written first, the device may by then
\* have filled that descriptor of a full ring again, with the packet a whole ring later.
\* A datagram is echoed exactly if it is not longer than the one or the other.
Sources(i) == {i - 1, i - 1 + E1000_RXDESC_NR}
Echoed(answers, i) == \E j \in 1..Len(answers) : answers[j] = i
EchoedByLength ==
  \A i \in 1..Len(taken) :
    /\ source[i] \in Sources(i)
    /\ Echoed(echoed, i) <=> (arrived[i][1] = "echo" /\ LengthIn(arrived, source[i]) >= arrived[i][2])

\* Answers leave in the order they were given, unless the driver was a whole ring
\* ahead of the device: TDT then stands on TDH, and the ring looks empty.
SentInOrderUnlessOverrun ==
  ~overrun => Len(wire) <= Len(echoed) /\ wire = SubSeq(echoed, 1, Len(wire))

\* The packets and their answers, whatever the device and the driver do meanwhile.
RingsOK == TakenInOrder /\ EchoedByLength /\ SentInOrderUnlessOverrun

\* Every packet is taken, unless echoed datagrams have used up the pbufs: our_print
\* never frees one.
AllTakenOrLeaked == Len(taken) = Len(arrived) \/ Len(echoed) = MEMP_NUM_PBUF
-----------------------------------------------------------------------------
(***************************************************************************)
(* The proofs, for rings of any size.  Offsets are counted from the slot   *)
(* the driver holds (RDT) and from the slot the device sends next (TDH):   *)
(* the packets not yet taken stand behind RDT in their order, as many as   *)
(* the count and the loop over it still announce (Receiving); the          *)
(* descriptor that was given back keeps the packet before, unless the ring *)
(* is full again (Handling); the answers not yet sent stand behind TDH in  *)
(* their order (Sending).                                                  *)
(***************************************************************************)
Wrap(x, n) == IF x >= n THEN x - n ELSE x

\* Packets that lwIP was given or works on, those it was not, and answers not sent.
Started == Len(taken) + (IF input = Idle THEN 0 ELSE 1)
Waiting == Len(arrived) - Started
Unsent == Len(echoed) - Len(wire)

Slots == [packet : Nat, length : Nat]

NicTypeOK ==
  /\ rx \in [Rx -> Slots] /\ RDH \in Rx /\ RDT \in Rx /\ TPR \in Nat /\ todo \in Nat
  /\ tx \in [Tx -> Nat] /\ TDH \in Tx /\ TDT \in Tx
  /\ arrived \in Seq({"echo", "other"} \X Lengths) /\ overrun \in BOOLEAN
  /\ taken \in Seq(Nat) /\ source \in Seq(Nat) /\ wire \in Seq(Nat) /\ echoed \in Seq(Nat)
  /\ input \in [slot : Int, desc : Int, length : Int]

Receiving ==
  /\ Waiting \in 0 .. E1000_RXDESC_NR - 1 /\ TPR + todo = Waiting
  /\ RDH = Wrap(RDT + Waiting + 1, E1000_RXDESC_NR)
  /\ \A j \in 0 .. Waiting :
       rx[Wrap(RDT + j, E1000_RXDESC_NR)] = [packet |-> Started + j, length |-> LengthIn(arrived, Started + j)]
  /\ \A i \in 1 .. Len(taken) : taken[i] = i

Held == [packet |-> Len(taken), length |-> LengthIn(arrived, Len(taken))]

Handling ==
  /\ Len(source) = Len(taken) + (IF input = Idle \/ input.length = Unread THEN 0 ELSE 1)
  /\ \A i \in 1 .. Len(source) : source[i] \in Sources(i) /\ source[i] <= Len(arrived)
  /\ input # Idle => input.slot = RDT /\ input.desc = Wrap(RDT + (E1000_RXDESC_NR - 1), E1000_RXDESC_NR)
  /\ input # Idle /\ input.length = Unread /\ Waiting < E1000_RXDESC_NR - 1 => rx[input.desc] = Held
  /\ input # Idle /\ input.length # Unread => input.length = LengthIn(arrived, source[Len(source)])

Sending ==
  ~overrun =>
    /\ Unsent \in 0 .. E1000_TXDESC_NR - 1
    /\ TDT = Wrap(TDH + Unsent, E1000_TXDESC_NR)
    /\ \A j \in 0 .. Unsent - 1 : tx[Wrap(TDH + j, E1000_TXDESC_NR)] = echoed[Len(wire) + 1 + j]
    /\ \A i \in 1 .. Len(wire) : wire[i] = echoed[i]

\* Only what lwIP was given is answered.
Answered == \A j \in 1 .. Len(echoed) : echoed[j] \in 1 .. Len(taken)

NicInv == NicTypeOK /\ Receiving /\ Handling /\ Sending /\ Answered /\ EchoedByLength

\* What the proofs need of the constants.
NicConstants == E1000_RXDESC_NR \in Nat \ {0} /\ E1000_TXDESC_NR \in Nat \ {0} /\ Lengths \subseteq Nat \ {0}

-----------------------------------------------------------------------------
\* One step around a ring.
LEMMA ModWrap ==
  ASSUME NEW n \in Nat \ {0}, NEW x \in 0 .. n - 1
  PROVE  (x + 1) % n = Wrap(x + 1, n) /\ Wrap(x + 1, n) \in 0 .. n - 1
<1>1. CASE x + 1 < n
  BY <1>1 DEF Wrap
<1>2. CASE x + 1 = n
  BY <1>2 DEF Wrap
<1> QED BY <1>1, <1>2

\* The slot behind the q first ones is none of these.
LEMMA RingPush ==
  ASSUME NEW n \in Nat \ {0}, NEW h \in 0 .. n - 1, NEW q \in 0 .. n - 1
  PROVE  /\ Wrap(h + q, n) \in 0 .. n - 1
         /\ \A j \in 0 .. q - 1 : Wrap(h + j, n) # Wrap(h + q, n) /\ Wrap(h + j, n) \in 0 .. n - 1
         /\ (Wrap(h + q, n) + 1) % n = Wrap(h + q + 1, n)
<1>1. Wrap(h + q, n) \in 0 .. n - 1
  BY DEF Wrap
<1>2. \A j \in 0 .. q - 1 : Wrap(h + j, n) # Wrap(h + q, n) /\ Wrap(h + j, n) \in 0 .. n - 1
  BY DEF Wrap
<1>3. Wrap(Wrap(h + q, n) + 1, n) = Wrap(h + q + 1, n)
  BY DEF Wrap
<1>4. (Wrap(h + q, n) + 1) % n = Wrap(h + q + 1, n)
  BY <1>1, <1>3, ModWrap
<1> QED BY <1>1, <1>2, <1>4

\* The first slot is given up: offsets shrink by one.
LEMMA RingPop ==
  ASSUME NEW n \in Nat \ {0}, NEW h \in 0 .. n - 1
  PROVE  /\ (h + 1) % n \in 0 .. n - 1
         /\ \A j \in 0 .. n - 1 : Wrap(((h + 1) % n) + j, n) = Wrap(h + (j + 1), n)
<1>1. (h + 1) % n = Wrap(h + 1, n)
  BY ModWrap
<1>2. \A j \in 0 .. n - 1 : Wrap(Wrap(h + 1, n) + j, n) = Wrap(h + (j + 1), n)
  BY DEF Wrap
<1>3. Wrap(h + 1, n) \in 0 .. n - 1
  BY DEF Wrap
<1> QED BY <1>1, <1>2, <1>3, ZenonT(60)

\* The types of the parts.
LEMMA NicTypes ==
  ASSUME NicConstants, NicTypeOK
  PROVE  /\ Len(taken) \in Nat /\ Len(arrived) \in Nat /\ Len(wire) \in Nat /\ Len(echoed) \in Nat
         /\ Len(source) \in Nat
         /\ E1000_RXDESC_NR \in Nat \ {0} /\ E1000_TXDESC_NR \in Nat \ {0}
         /\ Started \in Nat
         /\ \A k \in 1 .. Len(arrived) : arrived[k][2] \in Nat \ {0}
         /\ \A k \in 0 .. Len(arrived) : LengthIn(arrived, k) \in Nat
<1>1. /\ Len(taken) \in Nat /\ Len(arrived) \in Nat /\ Len(wire) \in Nat /\ Len(echoed) \in Nat
      /\ Len(source) \in Nat
      /\ \A k \in 1 .. Len(arrived) : arrived[k] \in {"echo", "other"} \X Lengths
  BY DEF NicTypeOK
<1>2. \A k \in 1 .. Len(arrived) : arrived[k][2] \in Lengths
  BY <1>1
<1>3. \A k \in 1 .. Len(arrived) : arrived[k][2] \in Nat \ {0}
  BY <1>2, ZenonT(60) DEF NicConstants
<1>4. \A k \in 0 .. Len(arrived) : LengthIn(arrived, k) \in Nat
  BY <1>1, <1>3 DEF LengthIn
<1>5. Started \in Nat
  BY <1>1 DEF Started
<1> QED BY <1>1, <1>3, <1>4, <1>5 DEF NicConstants

\* The initial state satisfies the invariant.
LEMMA NicInitInv == ASSUME NicConstants, NicInit PROVE NicInv
<1>1. /\ rx = [i \in Rx |-> [packet |-> 0, length |-> 0]] /\ RDH = 0 /\ RDT = E1000_RXDESC_NR - 1 /\ TPR = 0
      /\ tx = [i \in Tx |-> 0] /\ TDH = 0 /\ TDT = 0 /\ input = Idle /\ todo = 0
      /\ arrived = <<>> /\ taken = <<>> /\ source = <<>> /\ wire = <<>> /\ echoed = <<>> /\ overrun = FALSE
  BY DEF NicInit, initialization, e1000_init_buf, Nothing
<1>2. E1000_RXDESC_NR \in Nat \ {0} /\ E1000_TXDESC_NR \in Nat \ {0}
  BY DEF NicConstants
<1>3. NicTypeOK
  <2>1. rx \in [Rx -> Slots] /\ tx \in [Tx -> Nat]
    BY <1>1 DEF Slots
  <2>2. RDH \in Rx /\ RDT \in Rx /\ TDH \in Tx /\ TDT \in Tx
    BY <1>1, <1>2 DEF Rx, Tx
  <2>3. arrived \in Seq({"echo", "other"} \X Lengths)
    BY <1>1
  <2>4. taken \in Seq(Nat) /\ source \in Seq(Nat) /\ wire \in Seq(Nat) /\ echoed \in Seq(Nat)
    BY <1>1
  <2>6. input \in [slot : Int, desc : Int, length : Int]
    BY <1>1 DEF Idle, Unread
  <2>5. overrun \in BOOLEAN /\ TPR \in Nat /\ todo \in Nat
    BY <1>1, ZenonT(60)
  <2> QED BY <2>1, <2>2, <2>3, <2>4, <2>5, <2>6 DEF NicTypeOK
<1>4. Started = 0 /\ Waiting = 0 /\ Unsent = 0 /\ Len(taken) = 0 /\ Len(wire) = 0 /\ Len(echoed) = 0
  BY <1>1 DEF Started, Waiting, Unsent
<1>5. Receiving
  <2>1. Wrap(RDT + 0, E1000_RXDESC_NR) = RDT /\ Wrap(RDT + 0 + 1, E1000_RXDESC_NR) = 0 /\ RDT \in Rx
    BY <1>1, <1>2 DEF Wrap, Rx
  <2>2. rx[RDT] = [packet |-> 0, length |-> 0]
    BY <1>1, <2>1
  <2> QED BY <1>1, <1>2, <1>4, <2>1, <2>2 DEF Receiving, LengthIn
<1>6. Sending
  BY <1>1, <1>2, <1>4 DEF Sending, Wrap
<1>7. Answered /\ EchoedByLength
  BY <1>4 DEF Answered, EchoedByLength
<1>8. Handling
  BY <1>1, <1>4 DEF Handling
<1> QED BY <1>3, <1>5, <1>6, <1>7, <1>8 DEF NicInv

\* The device stores a packet in the first slot behind those that wait.
LEMMA ReceiveStep ==
  ASSUME NicConstants, NicInv, NEW kind \in {"echo", "other"}, NEW length \in Lengths, Receive(kind, length)
  PROVE  NicInv'
<1>1. /\ RDH # RDT /\ arrived' = Append(arrived, <<kind, length>>)
      /\ rx' = [rx EXCEPT ![RDH] = [packet |-> Len(arrived) + 1, length |-> length]]
      /\ RDH' = (RDH + 1) % E1000_RXDESC_NR /\ TPR' = TPR + 1
      /\ RDT' = RDT /\ tx' = tx /\ TDH' = TDH /\ TDT' = TDT /\ todo' = todo /\ input' = input
      /\ taken' = taken /\ source' = source /\ wire' = wire /\ echoed' = echoed /\ overrun' = overrun
  BY DEF Receive
<1>2. /\ arrived' \in Seq({"echo", "other"} \X Lengths) /\ Len(arrived') = Len(arrived) + 1
      /\ \A k \in 1 .. Len(arrived) : arrived'[k] = arrived[k]
      /\ arrived'[Len(arrived) + 1] = <<kind, length>> /\ Len(arrived) \in Nat
  <2>1. arrived \in Seq({"echo", "other"} \X Lengths) /\ <<kind, length>> \in {"echo", "other"} \X Lengths
    BY DEF NicInv, NicTypeOK
  <2> QED BY <1>1, <2>1, AppendProperties, LenProperties
<1>3. /\ Started' = Started /\ Waiting' = Waiting + 1 /\ Unsent' = Unsent
      /\ Started \in Nat /\ Waiting \in Nat /\ Len(taken) \in Nat
      /\ Started + Waiting = Len(arrived)
  BY <1>1, <1>2, NicTypes DEF NicInv, Receiving, Started, Waiting, Unsent
<1>4. /\ RDT \in 0 .. E1000_RXDESC_NR - 1 /\ E1000_RXDESC_NR \in Nat \ {0}
      /\ RDH = Wrap(RDT + (Waiting + 1), E1000_RXDESC_NR) /\ Waiting + 1 \in 0 .. E1000_RXDESC_NR - 1
  <2>1. /\ RDT \in 0 .. E1000_RXDESC_NR - 1 /\ E1000_RXDESC_NR \in Nat \ {0}
        /\ Waiting \in 0 .. E1000_RXDESC_NR - 1 /\ RDH = Wrap(RDT + Waiting + 1, E1000_RXDESC_NR)
    BY DEF NicInv, NicTypeOK, Receiving, NicConstants, Rx
  <2>2. Waiting + 1 # E1000_RXDESC_NR
    BY <1>1, <2>1 DEF Wrap
  <2> QED BY <2>1, <2>2
<1>5. rx \in [0 .. E1000_RXDESC_NR - 1 -> Slots] /\ [packet |-> Len(arrived) + 1, length |-> length] \in Slots
  <2>1. rx \in [Rx -> Slots] /\ length \in Nat
    BY DEF NicInv, NicTypeOK, NicConstants
  <2>2. Len(arrived) + 1 \in Nat
    BY <1>2
  <2> QED BY <2>1, <2>2 DEF Rx, Slots
<1>6. /\ rx' \in [Rx -> Slots] /\ RDH' = Wrap(RDT + (Waiting + 1) + 1, E1000_RXDESC_NR)
      /\ rx'[RDH] = [packet |-> Len(arrived) + 1, length |-> length]
      /\ \A j \in 0 .. (Waiting + 1) - 1 :
           rx'[Wrap(RDT + j, E1000_RXDESC_NR)] = rx[Wrap(RDT + j, E1000_RXDESC_NR)]
  <2>0. PICK q \in 0 .. E1000_RXDESC_NR - 1 : q = Waiting + 1
    BY <1>4
  <2>1. /\ Wrap(RDT + q, E1000_RXDESC_NR) \in 0 .. E1000_RXDESC_NR - 1
        /\ \A j \in 0 .. q - 1 : /\ Wrap(RDT + j, E1000_RXDESC_NR) # Wrap(RDT + q, E1000_RXDESC_NR)
                                 /\ Wrap(RDT + j, E1000_RXDESC_NR) \in 0 .. E1000_RXDESC_NR - 1
        /\ (Wrap(RDT + q, E1000_RXDESC_NR) + 1) % E1000_RXDESC_NR = Wrap(RDT + q + 1, E1000_RXDESC_NR)
    BY <1>4, RingPush, ZenonT(60)
  <2>2. /\ RDH \in 0 .. E1000_RXDESC_NR - 1 /\ RDH' = Wrap(RDT + q + 1, E1000_RXDESC_NR)
        /\ \A j \in 0 .. q - 1 : /\ Wrap(RDT + j, E1000_RXDESC_NR) # RDH
                                 /\ Wrap(RDT + j, E1000_RXDESC_NR) \in 0 .. E1000_RXDESC_NR - 1
    BY <1>1, <1>4, <2>0, <2>1
  <2> QED BY <1>1, <1>5, <2>0, <2>2 DEF Rx
<1>7. NicTypeOK'
  <2>1. RDH' \in Rx
    <3>1. RDH \in 0 .. E1000_RXDESC_NR - 1 /\ E1000_RXDESC_NR \in Nat \ {0}
      BY DEF NicInv, NicTypeOK, Rx, NicConstants
    <3> QED BY <1>1, <3>1, ModWrap DEF Rx
  <2>2. TPR' \in Nat
    BY <1>1 DEF NicInv, NicTypeOK
  <2>3. arrived' \in Seq({"echo", "other"} \X Lengths) /\ rx' \in [Rx -> Slots]
    BY <1>2, <1>6
  <2> QED BY <1>1, <2>1, <2>2, <2>3 DEF NicInv, NicTypeOK
<1>8. \A k \in 0 .. Len(arrived) : LengthIn(arrived', k) = LengthIn(arrived, k)
  BY <1>2 DEF LengthIn
<1>9. Receiving'
  <2>1. Waiting' \in 0 .. E1000_RXDESC_NR - 1 /\ TPR' + todo' = Waiting'
    <3>1. TPR + todo = Waiting /\ TPR \in Nat /\ todo \in Nat
      BY DEF NicInv, NicTypeOK, Receiving
    <3> QED BY <1>1, <1>3, <1>4, <3>1
  <2>2. ASSUME NEW j \in 0 .. Waiting'
        PROVE  rx'[Wrap(RDT' + j, E1000_RXDESC_NR)] = [packet |-> Started' + j, length |-> LengthIn(arrived', Started' + j)]
    <3>1. CASE j = Waiting + 1
      <4>1. Started + j = Len(arrived) + 1 /\ Len(arrived) + 1 # 0
        BY <1>2, <1>3, <3>1
      <4>2. LengthIn(arrived', Len(arrived) + 1) = length
        BY <1>2, <4>1 DEF LengthIn
      <4>3. rx'[Wrap(RDT' + j, E1000_RXDESC_NR)] = [packet |-> Len(arrived) + 1, length |-> length]
        BY <1>1, <1>4, <1>6, <3>1
      <4> QED BY <1>3, <4>1, <4>2, <4>3
    <3>2. CASE j # Waiting + 1
      <4>1. j \in 0 .. Waiting /\ j \in 0 .. (Waiting + 1) - 1 /\ Started + j \in 0 .. Len(arrived)
        BY <1>3, <2>2, <3>2
      <4>2. rx[Wrap(RDT + j, E1000_RXDESC_NR)] = [packet |-> Started + j, length |-> LengthIn(arrived, Started + j)]
        BY <4>1 DEF NicInv, Receiving
      <4> QED BY <1>1, <1>3, <1>6, <1>8, <4>1, <4>2, ZenonT(60)
    <3> QED BY <3>1, <3>2
  <2>4. RDH' = Wrap(RDT' + Waiting' + 1, E1000_RXDESC_NR)
    BY <1>1, <1>3, <1>6
  <2>5. \A i \in 1 .. Len(taken') : taken'[i] = i
    BY <1>1 DEF NicInv, Receiving
  <2> QED BY <1>1, <2>1, <2>2, <2>4, <2>5 DEF Receiving
<1>10. Sending' /\ Answered'
  BY <1>1, <1>3 DEF NicInv, Sending, Answered
<1>11. /\ \A i \in 1 .. Len(source) : source[i] \in Sources(i) /\ source[i] \in 0 .. Len(arrived)
       /\ Len(source) = Len(taken) + (IF input = Idle \/ input.length = Unread THEN 0 ELSE 1)
       /\ Len(source) \in Nat
  <2>1. \A i \in 1 .. Len(source) : source[i] \in Nat
    <3>1. source \in Seq(Nat)
      BY DEF NicInv, NicTypeOK
    <3> QED BY <3>1
  <2>2. Len(source) \in Nat
    BY NicTypes DEF NicInv
  <2>3. /\ \A i \in 1 .. Len(source) : source[i] \in Sources(i) /\ source[i] <= Len(arrived)
        /\ Len(source) = Len(taken) + (IF input = Idle \/ input.length = Unread THEN 0 ELSE 1)
    BY DEF NicInv, Handling
  <2> QED BY <1>2, <2>1, <2>2, <2>3
<1>12. Handling'
  <2>1. Len(source') = Len(taken') + (IF input' = Idle \/ input'.length = Unread THEN 0 ELSE 1)
    BY <1>1, <1>11
  <2>2. \A i \in 1 .. Len(source') : source'[i] \in Sources(i) /\ source'[i] <= Len(arrived')
    BY <1>1, <1>2, <1>11
  <2>3. input' # Idle => input'.slot = RDT' /\ input'.desc = Wrap(RDT' + (E1000_RXDESC_NR - 1), E1000_RXDESC_NR)
    BY <1>1 DEF NicInv, Handling
  <2>4. ASSUME input # Idle, input.length = Unread, Waiting' < E1000_RXDESC_NR - 1 PROVE rx'[input.desc] = Held'
    <3>1. Waiting < E1000_RXDESC_NR - 1 /\ Waiting + 1 < E1000_RXDESC_NR - 1
      BY <1>3, <1>4, <2>4
    <3>2. rx[input.desc] = Held /\ input.desc = Wrap(RDT + (E1000_RXDESC_NR - 1), E1000_RXDESC_NR)
      BY <2>4, <3>1 DEF NicInv, Handling
    <3>3. input.desc # RDH
      BY <1>3, <1>4, <3>1, <3>2 DEF Wrap
    <3>4. rx'[input.desc] = rx[input.desc]
      BY <1>1, <1>5, <3>3
    <3>5. Len(taken) \in 0 .. Len(arrived)
      BY <1>2, <1>3 DEF Started
    <3>6. Held' = Held
      BY <1>1, <1>8, <3>5 DEF Held
    <3> QED BY <3>2, <3>4, <3>6
  <2>5. ASSUME input # Idle, input.length # Unread PROVE input.length = LengthIn(arrived', source[Len(source)])
    <3>1. Len(source) \in 1 .. Len(source)
      BY <1>3, <1>11, <2>5
    <3>2. source[Len(source)] \in 0 .. Len(arrived)
      BY <1>11, <3>1
    <3>3. input.length = LengthIn(arrived, source[Len(source)])
      BY <2>5 DEF NicInv, Handling
    <3> QED BY <1>8, <3>2, <3>3
  <2> QED BY <1>1, <2>1, <2>2, <2>3, <2>4, <2>5 DEF Handling
<1>13. EchoedByLength'
  <2> SUFFICES ASSUME NEW i \in 1 .. Len(taken)
               PROVE  /\ source[i] \in Sources(i)
                      /\ Echoed(echoed, i) <=> (arrived'[i][1] = "echo" /\ LengthIn(arrived', source[i]) >= arrived'[i][2])
    BY <1>1 DEF EchoedByLength
  <2>1. i \in 1 .. Len(arrived) /\ i \in 1 .. Len(source)
    BY <1>2, <1>3, <1>11 DEF Started
  <2>2. arrived'[i] = arrived[i] /\ LengthIn(arrived', source[i]) = LengthIn(arrived, source[i])
    BY <1>2, <1>8, <1>11, <2>1
  <2> QED BY <2>2 DEF NicInv, EchoedByLength
<1> QED BY <1>7, <1>9, <1>10, <1>12, <1>13 DEF NicInv

\* The steps that leave the received packets alone, but for who announces them.
LEMMA ReceivingFrame ==
  ASSUME rx' = rx, RDH' = RDH, RDT' = RDT, arrived' = arrived, taken' = taken, input' = input,
         TPR' + todo' = TPR + todo, Receiving
  PROVE  Receiving'
BY ZenonT(60) DEF Receiving, Started, Waiting

\* The steps that leave alone what e1000_read holds, and what lwIP is done with.
LEMMA HandlingFrame ==
  ASSUME rx' = rx, RDT' = RDT, arrived' = arrived, taken' = taken, source' = source, input' = input, Handling
  PROVE  Handling'
BY ZenonT(60) DEF Handling, Held, Started, Waiting

\* The steps that leave the answers alone.
LEMMA SendingFrame ==
  ASSUME tx' = tx, TDH' = TDH, TDT' = TDT, wire' = wire, echoed' = echoed, overrun' = overrun, Sending
  PROVE  Sending'
BY DEF Sending, Unsent

\* Poll: the driver takes over the count of the device.
LEMMA PollStep == ASSUME NicConstants, NicInv, Poll PROVE NicInv'
<1>1. /\ todo = 0 /\ todo' = TPR /\ TPR' = 0
      /\ rx' = rx /\ RDH' = RDH /\ RDT' = RDT /\ tx' = tx /\ TDH' = TDH /\ TDT' = TDT /\ input' = input
      /\ arrived' = arrived /\ taken' = taken /\ source' = source /\ wire' = wire /\ echoed' = echoed /\ overrun' = overrun
  BY DEF Poll
<1>2. TPR \in Nat
  BY DEF NicInv, NicTypeOK
<1>3. NicTypeOK'
  BY <1>1, <1>2 DEF NicInv, NicTypeOK
<1>4. Receiving'
  <2>1. TPR' + todo' = TPR + todo
    BY <1>1, <1>2
  <2> QED BY <1>1, <2>1, ReceivingFrame DEF NicInv
<1>5. Sending'
  BY <1>1, SendingFrame DEF NicInv
<1>6. Answered' /\ EchoedByLength'
  BY <1>1 DEF NicInv, Answered, EchoedByLength
<1>7. Handling'
  BY <1>1, HandlingFrame DEF NicInv
<1> QED BY <1>3, <1>4, <1>5, <1>6, <1>7 DEF NicInv

\* Transmit: the device sends the first answer.
LEMMA TransmitStep == ASSUME NicConstants, NicInv, Transmit PROVE NicInv'
<1>1. /\ TDH # TDT /\ wire' = Append(wire, tx[TDH]) /\ TDH' = (TDH + 1) % E1000_TXDESC_NR
      /\ rx' = rx /\ RDH' = RDH /\ RDT' = RDT /\ TPR' = TPR /\ tx' = tx /\ TDT' = TDT /\ todo' = todo
      /\ input' = input /\ arrived' = arrived /\ taken' = taken /\ source' = source /\ echoed' = echoed /\ overrun' = overrun
  BY DEF Transmit
<1>2. /\ TDH \in 0 .. E1000_TXDESC_NR - 1 /\ E1000_TXDESC_NR \in Nat \ {0} /\ tx[TDH] \in Nat /\ wire \in Seq(Nat)
      /\ Len(wire) \in Nat /\ Len(echoed) \in Nat
  BY NicTypes DEF NicInv, NicTypeOK, Tx, NicConstants
<1>3. /\ wire' \in Seq(Nat) /\ Len(wire') = Len(wire) + 1
      /\ \A i \in 1 .. Len(wire) : wire'[i] = wire[i]
      /\ wire'[Len(wire) + 1] = tx[TDH]
  BY <1>1, <1>2, AppendProperties
<1>4. /\ TDH' \in 0 .. E1000_TXDESC_NR - 1
      /\ \A j \in 0 .. E1000_TXDESC_NR - 1 : Wrap(TDH' + j, E1000_TXDESC_NR) = Wrap(TDH + (j + 1), E1000_TXDESC_NR)
  BY <1>1, <1>2, RingPop, ZenonT(60)
<1>5. NicTypeOK'
  BY <1>1, <1>3, <1>4, ZenonT(60) DEF NicInv, NicTypeOK, Tx
<1>6. Receiving'
  BY <1>1, ReceivingFrame DEF NicInv
<1>7. Answered' /\ EchoedByLength'
  BY <1>1 DEF NicInv, Answered, EchoedByLength
<1>9. Handling'
  BY <1>1, HandlingFrame DEF NicInv
<1>8. Sending'
  <2> SUFFICES ASSUME ~overrun PROVE Sending'
    BY <1>1 DEF Sending
  <2>1. /\ Unsent \in 0 .. E1000_TXDESC_NR - 1
        /\ TDT = Wrap(TDH + Unsent, E1000_TXDESC_NR)
        /\ \A j \in 0 .. Unsent - 1 : tx[Wrap(TDH + j, E1000_TXDESC_NR)] = echoed[Len(wire) + 1 + j]
        /\ \A i \in 1 .. Len(wire) : wire[i] = echoed[i]
    BY DEF NicInv, Sending
  <2>2. Unsent # 0 /\ Wrap(TDH + 0, E1000_TXDESC_NR) = TDH
    BY <1>1, <1>2, <2>1 DEF Wrap
  <2>3. tx[TDH] = echoed[Len(wire) + 1]
    <3>1. 0 \in 0 .. Unsent - 1 /\ Len(wire) + 1 + 0 = Len(wire) + 1
      BY <1>2, <2>1, <2>2
    <3> QED BY <2>1, <2>2, <3>1
  <2>4. Unsent' = Unsent - 1 /\ Unsent' \in 0 .. E1000_TXDESC_NR - 1 /\ Unsent' + 1 = Unsent
    BY <1>1, <1>2, <1>3, <2>1, <2>2 DEF Unsent
  <2>5. TDT' = Wrap(TDH' + Unsent', E1000_TXDESC_NR)
    BY <1>1, <1>4, <2>1, <2>4
  <2>6. ASSUME NEW j \in 0 .. Unsent' - 1
        PROVE  tx'[Wrap(TDH' + j, E1000_TXDESC_NR)] = echoed'[Len(wire') + 1 + j]
    <3>1. j \in 0 .. E1000_TXDESC_NR - 1 /\ j + 1 \in 0 .. Unsent - 1
      BY <1>2, <2>1, <2>4
    <3>2. Len(wire') + 1 + j = Len(wire) + 1 + (j + 1)
      BY <1>2, <1>3, <3>1
    <3> QED BY <1>1, <1>4, <2>1, <3>1, <3>2, ZenonT(60)
  <2>7. ASSUME NEW i \in 1 .. Len(wire') PROVE wire'[i] = echoed'[i]
    <3>1. i \in 1 .. Len(wire) \/ i = Len(wire) + 1
      BY <1>2, <1>3
    <3> QED BY <1>1, <1>3, <2>1, <2>3, <3>1
  <2> QED BY <2>4, <2>5, <2>6, <2>7 DEF Sending
<1> QED BY <1>5, <1>6, <1>7, <1>8, <1>9 DEF NicInv

\* e1000_read: the driver moves on to the first packet that waits.
LEMMA NicReadStep == ASSUME NicConstants, NicInv, e1000_read PROVE NicInv'
<1>1. /\ todo > 0 /\ input = Idle /\ todo' = todo - 1
      /\ RDT' = (RDT + 1) % E1000_RXDESC_NR
      /\ input' = [slot |-> RDT', desc |-> RDT, length |-> Unread]
      /\ rx' = rx /\ RDH' = RDH /\ TPR' = TPR /\ tx' = tx /\ TDH' = TDH /\ TDT' = TDT
      /\ arrived' = arrived /\ taken' = taken /\ source' = source /\ wire' = wire /\ echoed' = echoed /\ overrun' = overrun
  BY DEF e1000_read
<1>2. /\ RDT \in 0 .. E1000_RXDESC_NR - 1 /\ E1000_RXDESC_NR \in Nat \ {0} /\ Len(taken) \in Nat /\ Len(arrived) \in Nat
      /\ TPR \in Nat /\ todo \in Nat
  BY NicTypes DEF NicInv, NicTypeOK, Rx
<1>3. /\ RDT' \in 0 .. E1000_RXDESC_NR - 1
      /\ \A j \in 0 .. E1000_RXDESC_NR - 1 : Wrap(RDT' + j, E1000_RXDESC_NR) = Wrap(RDT + (j + 1), E1000_RXDESC_NR)
  BY <1>1, <1>2, RingPop, ZenonT(60)
<1>4. NicTypeOK'
  <2>1. todo' \in Nat
    BY <1>1, <1>2
  <2>2. RDT' \in Rx
    BY <1>3 DEF Rx
  <2>3. input' \in [slot : Int, desc : Int, length : Int]
    BY <1>1, <1>2, <1>3 DEF Unread
  <2> QED BY <1>1, <2>1, <2>2, <2>3 DEF NicInv, NicTypeOK
<1>5. Sending'
  BY <1>1, SendingFrame DEF NicInv
<1>6. Answered' /\ EchoedByLength'
  BY <1>1 DEF NicInv, Answered, EchoedByLength
<1>7. input' # Idle
  <2>1. input'.slot = RDT' /\ RDT' # -1
    BY <1>1, <1>2, <1>3
  <2> QED BY <2>1 DEF Idle
<1>8. /\ Waiting \in 0 .. E1000_RXDESC_NR - 1 /\ TPR + todo = Waiting
      /\ RDH = Wrap(RDT + Waiting + 1, E1000_RXDESC_NR)
      /\ \A j \in 0 .. Waiting :
           rx[Wrap(RDT + j, E1000_RXDESC_NR)] = [packet |-> Started + j, length |-> LengthIn(arrived, Started + j)]
      /\ \A i \in 1 .. Len(taken) : taken[i] = i
  BY DEF NicInv, Receiving
<1>9. /\ Started = Len(taken) /\ Started' = Started + 1 /\ Waiting' = Waiting - 1 /\ Waiting \in Nat /\ Waiting > 0
  BY <1>1, <1>2, <1>7, <1>8 DEF Started, Waiting
<1>10. Receiving'
  <2>1. Waiting' \in 0 .. E1000_RXDESC_NR - 1 /\ TPR' + todo' = Waiting'
    <3>1. TPR' = TPR /\ todo' = todo - 1
      BY <1>1
    <3>2. E1000_RXDESC_NR \in Nat /\ TPR \in Nat /\ todo \in Nat
      BY <1>2
    <3>3. Waiting \in 0 .. E1000_RXDESC_NR - 1 /\ TPR + todo = Waiting
      BY <1>8
    <3>4. Waiting' = Waiting - 1 /\ Waiting > 0
      BY <1>9
    <3>5. Waiting' \in 0 .. E1000_RXDESC_NR - 1
      BY <3>2, <3>3, <3>4
    <3>6. TPR' + todo' = Waiting'
      BY <3>1, <3>2, <3>3, <3>4
    <3> QED BY <3>5, <3>6
  <2>2. RDH' = Wrap(RDT' + Waiting' + 1, E1000_RXDESC_NR)
    <3>1. Waiting \in 0 .. E1000_RXDESC_NR - 1 /\ RDT' + Waiting' + 1 = RDT' + Waiting /\ RDT + (Waiting + 1) = RDT + Waiting + 1
      <4>1. RDT \in Nat /\ RDT' \in Nat
        BY <1>2, <1>3
      <4> QED BY <1>8, <1>9, <4>1
    <3> QED BY <1>1, <1>3, <1>8, <3>1
  <2>3. ASSUME NEW j \in 0 .. Waiting'
        PROVE  rx'[Wrap(RDT' + j, E1000_RXDESC_NR)] = [packet |-> Started' + j, length |-> LengthIn(arrived', Started' + j)]
    <3>1. j \in 0 .. E1000_RXDESC_NR - 1 /\ j + 1 \in 0 .. Waiting /\ Started' + j = Started + (j + 1)
      BY <1>2, <1>8, <1>9
    <3> QED BY <1>1, <1>3, <1>8, <3>1
  <2> QED BY <1>1, <1>8, <2>1, <2>2, <2>3 DEF Receiving
<1>11. Handling'
  <2>1. input'.slot = RDT' /\ input'.desc = RDT /\ input'.length = Unread
    BY <1>1
  <2>2. RDT = Wrap(RDT' + (E1000_RXDESC_NR - 1), E1000_RXDESC_NR)
    <3>1. E1000_RXDESC_NR - 1 \in 0 .. E1000_RXDESC_NR - 1 /\ RDT = Wrap(RDT + ((E1000_RXDESC_NR - 1) + 1), E1000_RXDESC_NR)
      BY <1>2 DEF Wrap
    <3> QED BY <1>3, <3>1
  <2>3. rx[RDT] = Held
    <3>1. 0 \in 0 .. Waiting /\ Wrap(RDT + 0, E1000_RXDESC_NR) = RDT /\ Started + 0 = Len(taken)
      BY <1>2, <1>9 DEF Wrap
    <3>2. rx[Wrap(RDT + 0, E1000_RXDESC_NR)] = [packet |-> Started + 0, length |-> LengthIn(arrived, Started + 0)]
      BY <1>8, <3>1
    <3> QED BY <3>1, <3>2 DEF Held
  <2>4. Held' = Held
    BY <1>1 DEF Held
  <2>5. Len(source) = Len(taken) /\ \A i \in 1 .. Len(source) : source[i] \in Sources(i) /\ source[i] <= Len(arrived)
    BY <1>1, <1>2 DEF NicInv, Handling
  <2>6. Len(source') = Len(taken') + (IF input' = Idle \/ input'.length = Unread THEN 0 ELSE 1)
    BY <1>1, <1>2, <2>1, <2>5
  <2>7. \A i \in 1 .. Len(source') : source'[i] \in Sources(i) /\ source'[i] <= Len(arrived')
    BY <1>1, <2>5
  <2>8. rx'[input'.desc] = Held'
    BY <1>1, <2>1, <2>3, <2>4
  <2> QED BY <2>1, <2>2, <2>6, <2>7, <2>8 DEF Handling
<1> QED BY <1>4, <1>5, <1>6, <1>10, <1>11 DEF NicInv

\* lwip_input: whose length is taken, that of the packet before or of the one a whole
\* ring later.
LEMMA LengthStep == ASSUME NicConstants, NicInv, lwip_input PROVE NicInv'
<1>1. /\ input # Idle /\ input.length = Unread
      /\ input' = [input EXCEPT !.length = rx[input.desc].length]
      /\ source' = Append(source, rx[input.desc].packet)
      /\ rx' = rx /\ RDH' = RDH /\ RDT' = RDT /\ TPR' = TPR /\ tx' = tx /\ TDH' = TDH /\ TDT' = TDT
      /\ todo' = todo /\ arrived' = arrived /\ taken' = taken /\ wire' = wire /\ echoed' = echoed /\ overrun' = overrun
  BY DEF lwip_input
<1>2. /\ RDT \in 0 .. E1000_RXDESC_NR - 1 /\ E1000_RXDESC_NR \in Nat \ {0} /\ Len(taken) \in Nat /\ Len(arrived) \in Nat
      /\ source \in Seq(Nat) /\ input \in [slot : Int, desc : Int, length : Int]
      /\ \A k \in 0 .. Len(arrived) : LengthIn(arrived, k) \in Nat
  BY NicTypes DEF NicInv, NicTypeOK, Rx
<1>3. /\ Waiting \in 0 .. E1000_RXDESC_NR - 1
      /\ \A j \in 0 .. Waiting :
           rx[Wrap(RDT + j, E1000_RXDESC_NR)] = [packet |-> Started + j, length |-> LengthIn(arrived, Started + j)]
  BY DEF NicInv, Receiving
<1>4. Started = Len(taken) + 1 /\ Started + Waiting = Len(arrived)
  BY <1>1, <1>2, <1>3 DEF Started, Waiting
<1>5. /\ Len(source) = Len(taken) /\ input.slot = RDT
      /\ input.desc = Wrap(RDT + (E1000_RXDESC_NR - 1), E1000_RXDESC_NR)
      /\ Waiting < E1000_RXDESC_NR - 1 => rx[input.desc] = Held
      /\ \A i \in 1 .. Len(source) : source[i] \in Sources(i) /\ source[i] <= Len(arrived)
  BY <1>1, <1>2 DEF NicInv, Handling
<1>6. PICK k \in 0 .. Len(arrived) : /\ k \in Sources(Len(taken) + 1)
                                     /\ rx[input.desc] = [packet |-> k, length |-> LengthIn(arrived, k)]
  <2>1. CASE Waiting < E1000_RXDESC_NR - 1
    <3>1. Len(taken) \in 0 .. Len(arrived) /\ Len(taken) \in Sources(Len(taken) + 1)
      BY <1>2, <1>3, <1>4 DEF Sources
    <3> QED BY <1>5, <2>1, <3>1 DEF Held
  <2>2. CASE Waiting = E1000_RXDESC_NR - 1
    <3>1. /\ Started + (E1000_RXDESC_NR - 1) \in 0 .. Len(arrived)
          /\ Started + (E1000_RXDESC_NR - 1) \in Sources(Len(taken) + 1)
      BY <1>2, <1>3, <1>4, <2>2 DEF Sources
    <3>2. E1000_RXDESC_NR - 1 \in 0 .. Waiting
      BY <1>2, <2>2
    <3>3. rx[input.desc] = [packet |-> Started + (E1000_RXDESC_NR - 1),
                            length |-> LengthIn(arrived, Started + (E1000_RXDESC_NR - 1))]
      BY <1>3, <1>5, <3>2, ZenonT(60)
    <3> QED BY <3>1, <3>3
  <2>3. Waiting < E1000_RXDESC_NR - 1 \/ Waiting = E1000_RXDESC_NR - 1
    <3>1. E1000_RXDESC_NR \in Nat \ {0}
      BY <1>2
    <3>2. Waiting \in 0 .. E1000_RXDESC_NR - 1
      BY <1>3
    <3> QED BY <3>1, <3>2
  <2> QED BY <2>1, <2>2, <2>3
<1>7. /\ source' \in Seq(Nat) /\ Len(source') = Len(source) + 1
      /\ \A i \in 1 .. Len(source) : source'[i] = source[i]
      /\ source'[Len(source) + 1] = k
  <2>1. k \in Nat /\ source' = Append(source, k)
    BY <1>1, <1>2, <1>6
  <2> QED BY <1>2, <2>1, AppendProperties
<1>8. /\ input'.slot = input.slot /\ input'.desc = input.desc /\ input'.length = LengthIn(arrived, k)
      /\ input' \in [slot : Int, desc : Int, length : Int]
  <2>1. LengthIn(arrived, k) \in Int /\ rx[input.desc].length = LengthIn(arrived, k)
    BY <1>2, <1>6
  <2> QED BY <1>1, <1>2, <2>1
<1>9. input' # Idle /\ input'.length # Unread
  <2>1. LengthIn(arrived, k) \in Nat
    BY <1>2
  <2>2. input'.length # Unread
    BY <1>8, <2>1 DEF Unread
  <2> QED BY <2>2 DEF Idle
<1>10. NicTypeOK'
  BY <1>1, <1>7, <1>8 DEF NicInv, NicTypeOK
<1>11. Receiving'
  <2>1. Started' = Started /\ Waiting' = Waiting
    BY <1>1, <1>9 DEF Started, Waiting
  <2> QED BY <1>1, <2>1 DEF NicInv, Receiving
<1>12. Handling'
  <2>1. Len(source') = Len(taken') + (IF input' = Idle \/ input'.length = Unread THEN 0 ELSE 1)
    BY <1>1, <1>2, <1>5, <1>7, <1>9
  <2>2. ASSUME NEW i \in 1 .. Len(source') PROVE source'[i] \in Sources(i) /\ source'[i] <= Len(arrived')
    <3>1. i \in 1 .. Len(source) \/ i = Len(source) + 1
      BY <1>2, <1>5, <1>7
    <3>2. CASE i \in 1 .. Len(source)
      BY <1>1, <1>5, <1>7, <3>2
    <3>3. CASE i = Len(source) + 1
      <4>1. k <= Len(arrived) /\ source'[i] = k /\ i = Len(taken) + 1
        BY <1>2, <1>5, <1>7, <3>3
      <4> QED BY <1>1, <1>6, <4>1
    <3> QED BY <3>1, <3>2, <3>3
  <2>3. source'[Len(source')] = k
    BY <1>7
  <2> QED BY <1>1, <1>5, <1>8, <1>9, <2>1, <2>2, <2>3 DEF Handling
<1>13. Sending'
  BY <1>1, SendingFrame DEF NicInv
<1>14. Answered'
  BY <1>1 DEF NicInv, Answered
<1>15. EchoedByLength'
  <2>1. \A i \in 1 .. Len(taken) : source'[i] = source[i]
    BY <1>5, <1>7
  <2> QED BY <1>1, <2>1 DEF NicInv, EchoedByLength
<1> QED BY <1>10, <1>11, <1>12, <1>13, <1>14, <1>15 DEF NicInv

\* The packet lwIP works on, and when it is complete.
LEMMA InputFacts ==
  ASSUME NicConstants, NicInv, input # Idle
  PROVE  /\ Packet = Len(taken) + 1 /\ Len(taken) \in Nat /\ Len(taken) + 1 \in 1 .. Len(arrived)
         /\ input.length # Unread =>
              /\ Len(source) = Len(taken) + 1 /\ source[Packet] \in Sources(Packet)
              /\ PacketComplete <=> LengthIn(arrived, source[Packet]) >= arrived[Packet][2]
<1>1. /\ Len(taken) \in Nat /\ Len(arrived) \in Nat /\ RDT \in 0 .. E1000_RXDESC_NR - 1 /\ E1000_RXDESC_NR \in Nat \ {0}
  BY NicTypes DEF NicInv, NicTypeOK, Rx
<1>2. /\ Waiting \in Nat
      /\ \A j \in 0 .. Waiting :
           rx[Wrap(RDT + j, E1000_RXDESC_NR)] = [packet |-> Started + j, length |-> LengthIn(arrived, Started + j)]
  BY <1>1 DEF NicInv, Receiving
<1>3. Started = Len(taken) + 1 /\ Started \in 1 .. Len(arrived)
  BY <1>1, <1>2 DEF Started, Waiting
<1>4. Packet = Len(taken) + 1
  <2>1. 0 \in 0 .. Waiting /\ Wrap(RDT + 0, E1000_RXDESC_NR) = RDT /\ Started + 0 = Len(taken) + 1
    BY <1>1, <1>2, <1>3 DEF Wrap
  <2>2. rx[Wrap(RDT + 0, E1000_RXDESC_NR)] = [packet |-> Started + 0, length |-> LengthIn(arrived, Started + 0)]
    BY <1>2, <2>1
  <2>3. input.slot = RDT
    BY DEF NicInv, Handling
  <2> QED BY <2>1, <2>2, <2>3 DEF Packet
<1>5. ASSUME input.length # Unread
      PROVE  /\ Len(source) = Len(taken) + 1 /\ source[Packet] \in Sources(Packet)
             /\ PacketComplete <=> LengthIn(arrived, source[Packet]) >= arrived[Packet][2]
  <2>1. /\ Len(source) = Len(taken) + 1 /\ input.length = LengthIn(arrived, source[Len(source)])
        /\ \A i \in 1 .. Len(source) : source[i] \in Sources(i)
    BY <1>5 DEF NicInv, Handling
  <2>2. Len(source) = Packet /\ Packet \in 1 .. Len(source)
    BY <1>1, <1>4, <2>1
  <2> QED BY <2>1, <2>2 DEF PacketComplete
<1> QED BY <1>1, <1>3, <1>4, <1>5

\* lwIP is done with a packet: what that changes on the side of reception.
LEMMA InputEnds ==
  ASSUME NicConstants, NicInv, input # Idle, input.length # Unread, input' = Idle, taken' = Append(taken, Packet),
         rx' = rx, RDH' = RDH, RDT' = RDT, TPR' = TPR, todo' = todo, arrived' = arrived, source' = source
  PROVE  /\ taken' \in Seq(Nat) /\ Len(taken') = Len(taken) + 1
         /\ \A i \in 1 .. Len(taken') : taken'[i] = i
         /\ input' \in [slot : Int, desc : Int, length : Int]
         /\ Receiving' /\ Handling'
<1>1. Packet = Len(taken) + 1 /\ Len(taken) \in Nat /\ taken \in Seq(Nat) /\ Len(source) = Len(taken) + 1
  BY InputFacts DEF NicInv, NicTypeOK
<1>2. /\ taken' \in Seq(Nat) /\ Len(taken') = Len(taken) + 1
      /\ \A i \in 1 .. Len(taken) : taken'[i] = taken[i]
      /\ taken'[Len(taken) + 1] = Packet
  BY <1>1, AppendProperties
<1>3. \A i \in 1 .. Len(taken) : taken[i] = i
  BY DEF NicInv, Receiving
<1>4. \A i \in 1 .. Len(taken') : taken'[i] = i
  BY <1>1, <1>2, <1>3
<1>5. Started' = Started /\ Waiting' = Waiting
  BY <1>1, <1>2 DEF Started, Waiting
<1>6. Receiving'
  BY <1>4, <1>5 DEF NicInv, Receiving
<1>7. Handling'
  <2>1. \A i \in 1 .. Len(source') : source'[i] \in Sources(i) /\ source'[i] <= Len(arrived')
    BY DEF NicInv, Handling
  <2>2. Len(source') = Len(taken') + (IF input' = Idle \/ input'.length = Unread THEN 0 ELSE 1)
    BY <1>1, <1>2
  <2> QED BY <2>1, <2>2 DEF Handling
<1>8. input' \in [slot : Int, desc : Int, length : Int]
  BY DEF Idle, Unread
<1> QED BY <1>2, <1>4, <1>6, <1>7, <1>8

\* InputFrees: a packet that is not for the server, or not complete.
LEMMA FreesStep == ASSUME NicConstants, NicInv, InputFrees PROVE NicInv'
<1>1. /\ input # Idle /\ input.length # Unread /\ ~(arrived[Packet][1] = "echo" /\ PacketComplete)
      /\ taken' = Append(taken, Packet) /\ input' = Idle
      /\ rx' = rx /\ RDH' = RDH /\ RDT' = RDT /\ TPR' = TPR /\ tx' = tx /\ TDH' = TDH /\ TDT' = TDT
      /\ todo' = todo /\ arrived' = arrived /\ source' = source /\ wire' = wire /\ echoed' = echoed /\ overrun' = overrun
  BY DEF InputFrees
<1>2. /\ taken' \in Seq(Nat) /\ Len(taken') = Len(taken) + 1 /\ Receiving' /\ Handling'
      /\ input' \in [slot : Int, desc : Int, length : Int]
  BY <1>1, InputEnds
<1>3. NicTypeOK'
  BY <1>1, <1>2 DEF NicInv, NicTypeOK
<1>4. Sending'
  BY <1>1, SendingFrame DEF NicInv
<1>5. /\ Packet = Len(taken) + 1 /\ Len(taken) \in Nat
      /\ source[Packet] \in Sources(Packet)
      /\ PacketComplete <=> LengthIn(arrived, source[Packet]) >= arrived[Packet][2]
  BY <1>1, InputFacts
<1>6. /\ \A j \in 1 .. Len(echoed) : echoed[j] \in 1 .. Len(taken)
  BY DEF NicInv, Answered
<1>7. Answered'
  BY <1>1, <1>2, <1>5, <1>6 DEF Answered
<1>8. EchoedByLength'
  <2> SUFFICES ASSUME NEW i \in 1 .. Len(taken')
               PROVE  /\ source[i] \in Sources(i)
                      /\ Echoed(echoed, i) <=> (arrived[i][1] = "echo" /\ LengthIn(arrived, source[i]) >= arrived[i][2])
    BY <1>1 DEF EchoedByLength
  <2>1. CASE i \in 1 .. Len(taken)
    BY <2>1 DEF NicInv, EchoedByLength
  <2>2. CASE i = Packet
    <3>1. ~Echoed(echoed, i)
      BY <1>5, <1>6, <2>2 DEF Echoed
    <3>2. ~(arrived[i][1] = "echo" /\ LengthIn(arrived, source[i]) >= arrived[i][2]) /\ source[i] \in Sources(i)
      BY <1>1, <1>5, <2>2, ZenonT(60)
    <3> QED BY <3>1, <3>2
  <2>3. i \in 1 .. Len(taken) \/ i = Packet
    BY <1>2, <1>5
  <2> QED BY <2>1, <2>2, <2>3
<1> QED BY <1>2, <1>3, <1>4, <1>7, <1>8 DEF NicInv

\* our_print: the answer goes into the slot behind those not yet sent.
LEMMA EchoStep == ASSUME NicConstants, NicInv, our_print PROVE NicInv'
<1>1. /\ input # Idle /\ input.length # Unread /\ arrived[Packet][1] = "echo" /\ PacketComplete
      /\ taken' = Append(taken, Packet) /\ input' = Idle /\ echoed' = Append(echoed, Packet)
      /\ tx' = [tx EXCEPT ![TDT] = Packet] /\ TDT' = (TDT + 1) % E1000_TXDESC_NR
      /\ overrun' = (overrun \/ TDT' = TDH)
      /\ rx' = rx /\ RDH' = RDH /\ RDT' = RDT /\ TPR' = TPR /\ TDH' = TDH
      /\ todo' = todo /\ arrived' = arrived /\ source' = source /\ wire' = wire
  BY DEF our_print, e1000_write
<1>2. /\ taken' \in Seq(Nat) /\ Len(taken') = Len(taken) + 1 /\ Receiving' /\ Handling'
      /\ input' \in [slot : Int, desc : Int, length : Int]
  BY <1>1, InputEnds
<1>3. /\ Packet = Len(taken) + 1 /\ Len(taken) \in Nat
      /\ source[Packet] \in Sources(Packet)
      /\ PacketComplete <=> LengthIn(arrived, source[Packet]) >= arrived[Packet][2]
  BY <1>1, InputFacts
<1>4. /\ TDT \in 0 .. E1000_TXDESC_NR - 1 /\ TDH \in 0 .. E1000_TXDESC_NR - 1 /\ E1000_TXDESC_NR \in Nat \ {0}
      /\ tx \in [0 .. E1000_TXDESC_NR - 1 -> Nat] /\ echoed \in Seq(Nat) /\ Packet \in Nat
      /\ Len(wire) \in Nat /\ Len(echoed) \in Nat
  <2>1. NicTypeOK
    BY DEF NicInv
  <2>2. Packet \in Nat
    BY <1>3
  <2>3. E1000_TXDESC_NR \in Nat \ {0} /\ Len(wire) \in Nat /\ Len(echoed) \in Nat
    BY <2>1, NicTypes
  <2> QED BY <2>1, <2>2, <2>3 DEF NicTypeOK, Tx
<1>5. /\ echoed' \in Seq(Nat) /\ Len(echoed') = Len(echoed) + 1
      /\ \A i \in 1 .. Len(echoed) : echoed'[i] = echoed[i]
      /\ echoed'[Len(echoed) + 1] = Packet
  BY <1>1, <1>4, AppendProperties
<1>6. NicTypeOK'
  <2>1. TDT' \in 0 .. E1000_TXDESC_NR - 1
    BY <1>1, <1>4, ModWrap
  <2>2. tx' \in [Tx -> Nat] /\ overrun' \in BOOLEAN
    BY <1>1, <1>4 DEF Tx, NicInv, NicTypeOK
  <2> QED BY <1>1, <1>2, <1>5, <2>1, <2>2 DEF NicInv, NicTypeOK, Tx
<1>7. /\ \A j \in 1 .. Len(echoed) : echoed[j] \in 1 .. Len(taken)
  BY DEF NicInv, Answered
<1>8. Answered'
  <2> SUFFICES ASSUME NEW j \in 1 .. Len(echoed') PROVE echoed'[j] \in 1 .. Len(taken')
    BY DEF Answered
  <2>1. CASE j \in 1 .. Len(echoed)
    <3>1. echoed'[j] = echoed[j] /\ echoed[j] \in 1 .. Len(taken)
      BY <1>5, <1>7, <2>1
    <3> QED BY <1>2, <1>3, <3>1
  <2>2. CASE j = Len(echoed) + 1
    BY <1>2, <1>3, <1>5, <2>2
  <2> QED BY <1>4, <1>5, <2>1, <2>2
<1>9. EchoedByLength'
  <2> SUFFICES ASSUME NEW i \in 1 .. Len(taken')
               PROVE  /\ source[i] \in Sources(i)
                      /\ Echoed(echoed', i) <=> (arrived[i][1] = "echo" /\ LengthIn(arrived, source[i]) >= arrived[i][2])
    BY <1>1 DEF EchoedByLength
  <2>1. CASE i \in 1 .. Len(taken)
    <3>1. Echoed(echoed', i) <=> Echoed(echoed, i)
      <4>1. i # Packet
        BY <1>3, <2>1
      <4>2. Len(echoed) \in Nat
        BY <1>4
      <4>3. 1 .. Len(echoed) + 1 = (1 .. Len(echoed)) \union {Len(echoed) + 1}
        BY <4>2
      <4>4. ASSUME NEW j \in 1 .. Len(echoed'), echoed'[j] = i PROVE Echoed(echoed, i)
        <5>1. j \in 1 .. Len(echoed) /\ echoed[j] = i
          BY <1>5, <4>1, <4>3, <4>4
        <5> QED BY <5>1 DEF Echoed
      <4>5. ASSUME NEW j \in 1 .. Len(echoed), echoed[j] = i PROVE Echoed(echoed', i)
        <5>1. j \in 1 .. Len(echoed') /\ echoed'[j] = i
          BY <1>5, <4>3, <4>5
        <5> QED BY <5>1 DEF Echoed
      <4> QED BY <4>4, <4>5 DEF Echoed
    <3> QED BY <2>1, <3>1 DEF NicInv, EchoedByLength
  <2>2. CASE i = Packet
    <3>1. Len(echoed) + 1 \in 1 .. Len(echoed')
      BY <1>4, <1>5
    <3>2. Echoed(echoed', i)
      BY <1>5, <2>2, <3>1 DEF Echoed
    <3>3. arrived[i][1] = "echo" /\ LengthIn(arrived, source[i]) >= arrived[i][2] /\ source[i] \in Sources(i)
      BY <1>1, <1>3, <2>2, ZenonT(60)
    <3> QED BY <3>2, <3>3
  <2>3. i \in 1 .. Len(taken) \/ i = Packet
    BY <1>2, <1>3
  <2> QED BY <2>1, <2>2, <2>3
<1>10. Sending'
  <2> SUFFICES ASSUME ~overrun, TDT' # TDH PROVE Sending'
    BY <1>1, ZenonT(60) DEF Sending
  <2>1. /\ Unsent \in 0 .. E1000_TXDESC_NR - 1
        /\ TDT = Wrap(TDH + Unsent, E1000_TXDESC_NR)
        /\ \A j \in 0 .. Unsent - 1 : tx[Wrap(TDH + j, E1000_TXDESC_NR)] = echoed[Len(wire) + 1 + j]
        /\ \A i \in 1 .. Len(wire) : wire[i] = echoed[i]
    BY DEF NicInv, Sending
  <2>2. PICK q \in 0 .. E1000_TXDESC_NR - 1 : q = Unsent
    BY <2>1
  <2>3. /\ Wrap(TDH + q, E1000_TXDESC_NR) \in 0 .. E1000_TXDESC_NR - 1
        /\ \A j \in 0 .. q - 1 : /\ Wrap(TDH + j, E1000_TXDESC_NR) # Wrap(TDH + q, E1000_TXDESC_NR)
                                 /\ Wrap(TDH + j, E1000_TXDESC_NR) \in 0 .. E1000_TXDESC_NR - 1
        /\ (Wrap(TDH + q, E1000_TXDESC_NR) + 1) % E1000_TXDESC_NR = Wrap(TDH + q + 1, E1000_TXDESC_NR)
    BY <1>4, RingPush, ZenonT(60)
  <2>4. /\ TDT' = Wrap(TDH + q + 1, E1000_TXDESC_NR) /\ tx'[TDT] = Packet
        /\ \A j \in 0 .. q - 1 : tx'[Wrap(TDH + j, E1000_TXDESC_NR)] = tx[Wrap(TDH + j, E1000_TXDESC_NR)]
    BY <1>1, <1>4, <2>1, <2>2, <2>3, ZenonT(60)
  <2>5. Unsent' = q + 1 /\ q + 1 \in 0 .. E1000_TXDESC_NR - 1 /\ Len(wire) + 1 + q = Len(echoed) + 1
    <3>1. Unsent' = q + 1 /\ Len(wire) + 1 + q = Len(echoed) + 1
      BY <1>1, <1>4, <1>5, <2>2 DEF Unsent
    <3>2. q + 1 # E1000_TXDESC_NR
      BY <1>4, <2>4 DEF Wrap
    <3> QED BY <1>4, <3>1, <3>2
  <2>6. ASSUME NEW j \in 0 .. Unsent' - 1
        PROVE  tx'[Wrap(TDH' + j, E1000_TXDESC_NR)] = echoed'[Len(wire') + 1 + j]
    <3>1. CASE j = q
      BY <1>1, <1>5, <2>1, <2>2, <2>4, <2>5, <3>1
    <3>2. CASE j # q
      <4>1. j \in 0 .. q - 1 /\ Len(wire) + 1 + j \in 1 .. Len(echoed)
        BY <1>4, <2>5, <3>2
      <4>2. tx'[Wrap(TDH + j, E1000_TXDESC_NR)] = echoed[Len(wire) + 1 + j]
        BY <2>1, <2>2, <2>4, <4>1
      <4>3. echoed'[Len(wire) + 1 + j] = echoed[Len(wire) + 1 + j]
        BY <1>5, <4>1
      <4> QED BY <1>1, <4>2, <4>3
    <3> QED BY <3>1, <3>2
  <2>7. \A i \in 1 .. Len(wire) : i \in 1 .. Len(echoed)
    BY <1>4, <2>1 DEF Unsent
  <2>8. \A i \in 1 .. Len(wire') : wire'[i] = echoed'[i]
    BY <1>1, <1>5, <2>1, <2>7
  <2>9. TDT' = Wrap(TDH' + Unsent', E1000_TXDESC_NR) /\ Unsent' \in 0 .. E1000_TXDESC_NR - 1
    <3>1. TDH + (q + 1) = TDH + q + 1
      BY <1>4
    <3> QED BY <1>1, <2>4, <2>5, <3>1
  <2> QED BY <2>6, <2>8, <2>9, ZenonT(60) DEF Sending
<1> QED BY <1>2, <1>6, <1>8, <1>9, <1>10 DEF NicInv

\* Every step keeps the invariant.
LEMMA NicNextStep == ASSUME NicConstants, NicInv, [NicNext]_nicVars PROVE NicInv'
<1>1. ASSUME UNCHANGED nicVars PROVE NicInv'
  <2>1. NicTypeOK'
    BY <1>1 DEF nicVars, NicInv, NicTypeOK
  <2>2. Receiving' /\ Sending'
    BY <1>1, ReceivingFrame, SendingFrame DEF nicVars, NicInv
  <2>3. Answered' /\ EchoedByLength'
    BY <1>1 DEF nicVars, NicInv, Answered, EchoedByLength
  <2>4. Handling'
    BY <1>1, HandlingFrame DEF nicVars, NicInv
  <2> QED BY <2>1, <2>2, <2>3, <2>4 DEF NicInv
<1> QED BY <1>1, ReceiveStep, TransmitStep, PollStep, NicReadStep, LengthStep, FreesStep, EchoStep DEF NicNext, NicDriver

\* What was sent is a prefix of the answers.
LEMMA IInvSent == ASSUME NicConstants, NicInv PROVE SentInOrderUnlessOverrun
<1> SUFFICES ASSUME ~overrun PROVE Len(wire) <= Len(echoed) /\ wire = SubSeq(echoed, 1, Len(wire))
  BY DEF SentInOrderUnlessOverrun
<1>1. /\ wire \in Seq(Nat) /\ echoed \in Seq(Nat) /\ Len(wire) \in Nat /\ Len(echoed) \in Nat /\ Unsent \in Nat
      /\ \A i \in 1 .. Len(wire) : wire[i] = echoed[i]
  BY NicTypes DEF NicInv, NicTypeOK, Sending
<1>2. Len(wire) <= Len(echoed)
  BY <1>1 DEF Unsent
<1>3. /\ SubSeq(echoed, 1, Len(wire)) \in Seq(Nat) /\ Len(SubSeq(echoed, 1, Len(wire))) = Len(wire)
      /\ \A i \in 1 .. Len(wire) : SubSeq(echoed, 1, Len(wire))[i] = echoed[i]
  BY <1>1, <1>2, SubSeqProperties
<1> QED BY <1>1, <1>2, <1>3, SeqEqual

\* For rings of any size and any packets: what the device stores reaches lwIP once and
\* in order; a datagram is echoed exactly if it is not longer than the packet whose
\* length e1000_read used, the one before or, in a full ring, the one a whole ring
\* later; and the answers leave in order as long as the driver does not run around the
\* ring.
THEOREM RingsCorrect ==
  ASSUME E1000_RXDESC_NR \in Nat \ {0}, E1000_TXDESC_NR \in Nat \ {0}, Lengths \subseteq Nat \ {0}
  PROVE  NicSpec => []RingsOK
<1>0. NicConstants
  BY DEF NicConstants
<1>1. NicInit => NicInv
  BY <1>0, NicInitInv
<1>2. NicInv /\ [NicNext]_nicVars => NicInv'
  BY <1>0, NicNextStep
<1>3. NicInv => RingsOK
  BY <1>0, InputFacts, IInvSent DEF NicInv, Receiving, TakenInOrder, RingsOK
<1> QED BY <1>1, <1>2, <1>3, PTL DEF NicSpec
=============================================================================
