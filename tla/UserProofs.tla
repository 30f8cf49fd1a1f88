---------------------------- MODULE UserProofs ----------------------------
(***************************************************************************)
(* Proofs about what a program is linked with or talks to, for all values  *)
(* of the constants: the keyboard driver (Keyboard), the thread library    *)
(* (Thread) and message passing (Ipc).  The inductive invariants of the    *)
(* first two stand in the modules themselves.                              *)
(***************************************************************************)
EXTENDS Ipc, Thread, Keyboard, SequenceTheorems, TLAPS
-----------------------------------------------------------------------------
(* The keyboard driver, for any programs and requests. *)

\* A function on 1 .. n is a sequence.
LEMMA IsSequence ==
  ASSUME NEW S, NEW n \in Nat, NEW f \in [1 .. n -> S]
  PROVE  f \in Seq(S) /\ Len(f) = n
<1>1. f \in Seq(S)
  BY SeqDef
<1> QED BY <1>1, LenProperties

\* The size of a request.
LEMMA CountIsNat == ASSUME KbdConstants, NEW n \in Counts \union {0} PROVE n \in Nat
<1>1. CASE n \in Counts
  BY <1>1 DEF KbdConstants
<1>2. CASE n = 0
  BY <1>2
<1> QED BY <1>1, <1>2

\* The types of the parts.
LEMMA KbdTypes ==
  ASSUME KbdConstants, KbdTypeOK
  PROVE  /\ drv.count \in Nat /\ drv.from \in Programs /\ MaxEvents \in Nat
         /\ bufpos \in Nat /\ bufpos \in 0 .. MaxEvents
         /\ codes \in Seq(Codes) /\ Len(codes) \in Nat
         /\ typed \in Seq(Keys) /\ typed \in Seq(Keys \union {0}) /\ Len(typed) \in Nat
         /\ given \in Seq(Keys \union {0}) /\ Len(given) \in Nat
<1>1. drv \in Drivers /\ bufpos \in 0 .. MaxEvents /\ MaxEvents \in Nat /\ Counts \subseteq Nat
  BY DEF KbdTypeOK, KbdConstants
<1>2. drv.count \in Counts \union {0} /\ drv.from \in Programs
  BY <1>1 DEF Drivers
<1>3. codes \in Seq(Codes) /\ typed \in Seq(Keys) /\ given \in Seq(Keys \union {0})
  BY DEF KbdTypeOK
<1>4. typed \in Seq(Keys \union {0})
  BY <1>3
<1>5. Len(codes) \in Nat /\ Len(typed) \in Nat /\ Len(given) \in Nat
  BY <1>3, LenProperties
<1>6. drv.count \in Nat
  BY <1>2, CountIsNat
<1>7. bufpos \in Nat
  BY <1>1
<1> QED BY <1>1, <1>2, <1>3, <1>4, <1>5, <1>6, <1>7

\* The initial state satisfies the invariant.
LEMMA KbdInitInv == ASSUME KbdConstants, KbdInit PROVE KbdInv
<1>1. Scanning.from \in Programs /\ Scanning.at = "scan" /\ Scanning.count = 0
  BY DEF Scanning, KbdConstants
<1>2. KbdTypeOK
  <2>1. Request \in [0 .. MaxEvents -> Keys \union {0}]
    BY DEF Request
  <2>2. Scanning \in Drivers
    BY <1>1 DEF Scanning, Drivers
  <2>3. codes = <<>> /\ typed = <<>> /\ given = <<>> /\ bufpos = 0 /\ MaxEvents \in Nat
    BY DEF KbdInit, KbdConstants
  <2>4. codes \in Seq(Codes) /\ typed \in Seq(Keys) /\ given \in Seq(Keys \union {0}) /\ bufpos \in 0 .. MaxEvents
    BY <2>3
  <2> QED BY <2>1, <2>2, <2>4, ZenonT(60) DEF KbdInit, KbdTypeOK
<1>3. Masked /\ Bounded /\ Pending
  BY <1>1 DEF KbdInit, Masked, Bounded, Pending, KbdConstants, Served
<1> QED BY <1>2, <1>3 DEF KbdInv

\* read_char: a program that is not being served.
LEMMA ReadCharStep ==
  ASSUME KbdConstants, KbdInv, NEW c \in Programs, NEW n \in Counts, read_char(c, n)
  PROVE  KbdInv' /\ WritesOnlyServedStep
<1>1. /\ request[c] = 0 /\ (drv.at # "scan" => drv.from # c)
      /\ request' = [request EXCEPT ![c] = n] /\ data' = [data EXCEPT ![c] = Request]
      /\ drv' = drv /\ bufpos' = bufpos /\ intr' = intr /\ shift' = shift /\ codes' = codes
      /\ typed' = typed /\ given' = given /\ late' = late
  BY DEF read_char, ghosts
<1>2. Request \in [0 .. MaxEvents -> Keys \union {0}]
  BY DEF Request
<1>3. KbdTypeOK'
  BY <1>1, <1>2 DEF KbdInv, KbdTypeOK
<1>4. Masked' /\ Bounded'
  BY <1>1 DEF KbdInv, Masked, Bounded
<1>5. drv.at # "scan" => data'[drv.from] = data[drv.from]
  BY <1>1 DEF KbdInv, KbdTypeOK
<1>6. Pending'
  BY <1>1, <1>5 DEF KbdInv, Pending, Holds, Served
<1>7. WritesOnlyServedStep
  BY <1>1 DEF KbdInv, KbdTypeOK, WritesOnlyServedStep, KbdConstants
<1> QED BY <1>3, <1>4, <1>6, <1>7 DEF KbdInv

\* Type: the controller keeps one more scan code.
LEMMA TypeStep ==
  ASSUME KbdConstants, KbdInv, NEW code \in Codes, Type(code)
  PROVE  KbdInv' /\ WritesOnlyServedStep
<1>1. /\ Len(typed) + Len(codes) < MaxEvents /\ codes' = Append(codes, code)
      /\ request' = request /\ data' = data
      /\ drv' = drv /\ bufpos' = bufpos /\ intr' = intr /\ shift' = shift
      /\ typed' = typed /\ given' = given /\ late' = late
  BY DEF Type, ghosts
<1>2. codes \in Seq(Codes) /\ typed \in Seq(Keys)
  BY DEF KbdInv, KbdTypeOK
<1>3. codes' \in Seq(Codes) /\ Len(codes') = Len(codes) + 1 /\ Len(codes) \in Nat /\ Len(typed) \in Nat
  BY <1>1, <1>2
<1>4. KbdTypeOK'
  BY <1>1, <1>3 DEF KbdInv, KbdTypeOK
<1>5. Masked' /\ Pending' /\ WritesOnlyServedStep
  BY <1>1 DEF KbdInv, Masked, Pending, Holds, WritesOnlyServedStep
<1>6. Bounded'
  BY <1>1, <1>3 DEF KbdInv, Bounded, KbdConstants
<1> QED BY <1>4, <1>5, <1>6 DEF KbdInv

\* The steps of the driver before it answers.
LEMMA WaitStep ==
  ASSUME KbdConstants, KbdInv, (\E c \in Programs : receive(c)) \/ Halt \/ Test \/ Reset
  PROVE  KbdInv' /\ WritesOnlyServedStep
<1>1. /\ data' = data /\ shift' = shift /\ codes' = codes
      /\ typed' = typed /\ given' = given /\ late' = late
  BY DEF receive, Halt, Test, Reset, ghosts
<1>2. drv \in Drivers
  BY DEF KbdInv, KbdTypeOK
<1>3. /\ drv' \in Drivers
      /\ drv'.at # "scan" /\ request' \in [Programs -> Counts \union {0}] /\ intr' \in BOOLEAN
      /\ \/ drv.at = "scan" /\ drv'.at = "hlt" /\ bufpos' = bufpos
         \/ /\ drv'.from = drv.from /\ drv'.count = drv.count /\ bufpos' = bufpos
            /\ drv.at \in {"hlt", "test"} /\ drv'.at \in {"hlt", "asleep"}
         \/ /\ drv'.from = drv.from /\ drv'.count = drv.count /\ bufpos' = bufpos
            /\ drv.at = "test" /\ drv'.at = "reset" /\ bufpos >= drv.count
         \/ /\ drv'.from = drv.from /\ drv'.count = drv.count /\ bufpos' = 0
            /\ drv.at = "reset" /\ drv'.at = "cli"
  <2>1. CASE \E c \in Programs : receive(c)
    BY <1>2, <2>1 DEF receive, KbdInv, KbdTypeOK, Drivers
  <2>2. CASE Halt
    BY <1>2, <2>2 DEF Halt, KbdInv, KbdTypeOK, Drivers
  <2>3. CASE Test
    BY <1>2, <2>3 DEF Test, KbdInv, KbdTypeOK, Drivers
  <2>4. CASE Reset
    BY <1>2, <2>4, ZenonT(60) DEF Reset, KbdInv, KbdTypeOK, Drivers
  <2> QED BY <2>1, <2>2, <2>3, <2>4
<1>4. /\ bufpos \in Nat /\ drv.count \in Nat /\ drv'.count \in Nat /\ MaxEvents \in Nat
      /\ Len(typed) \in Nat /\ bufpos \in 0 .. MaxEvents
  <2>1. drv'.count \in Counts \union {0}
    BY <1>3 DEF Drivers
  <2>2. drv'.count \in Nat
    BY <2>1, CountIsNat
  <2> QED BY <2>2, KbdTypes DEF KbdInv
<1>5. KbdTypeOK'
  BY <1>1, <1>3, <1>4 DEF KbdInv, KbdTypeOK
<1>6. Masked'
  BY <1>3 DEF Masked
<1>7. Bounded'
  BY <1>1, <1>3, <1>4 DEF KbdInv, Bounded
<1>8. Pending'
  <2> SUFFICES ASSUME ~late PROVE Pending'
    BY <1>1, ZenonT(60) DEF Pending
  <2>1. \A i \in 1 .. Len(given) : given'[i] = typed'[i]
    BY <1>1, ZenonT(60) DEF KbdInv, Pending
  <2>2. CASE drv.at = "scan" /\ drv'.at = "hlt" /\ bufpos' = bufpos
    BY <1>1, <1>4, <2>1, <2>2 DEF KbdInv, Pending, Holds, Served
  <2>3. CASE drv.at \in Served /\ drv'.at \in {"hlt", "asleep"} /\ bufpos' = bufpos
             /\ drv'.from = drv.from /\ drv'.count = drv.count
    BY <1>1, <2>1, <2>3 DEF KbdInv, Pending, Holds, Served
  <2>4. CASE drv.at = "test" /\ drv'.at = "reset" /\ bufpos' = bufpos
             /\ drv'.from = drv.from /\ drv'.count = drv.count /\ bufpos >= drv.count
    BY <1>1, <1>4, <2>1, <2>4 DEF KbdInv, Pending, Holds, Served
  <2>5. CASE drv.at = "reset" /\ drv'.at = "cli" /\ bufpos' = 0
             /\ drv'.from = drv.from /\ drv'.count = drv.count
    BY <1>1, <2>1, <2>5 DEF KbdInv, Pending, Holds, Served
  <2> QED BY <1>3, <2>2, <2>3, <2>4, <2>5 DEF Served
<1>9. WritesOnlyServedStep
  BY <1>1 DEF WritesOnlyServedStep
<1> QED BY <1>5, <1>6, <1>7, <1>8, <1>9 DEF KbdInv

\* cnl_reply: the program copies the keys that came for it.
LEMMA ReplyStep == ASSUME KbdConstants, KbdInv, cnl_reply PROVE KbdInv' /\ WritesOnlyServedStep
<1>1. /\ drv.at = "cli" /\ intr' = FALSE /\ given' = given \o Answer /\ drv' = Scanning
      /\ request' = request /\ data' = data /\ bufpos' = bufpos /\ shift' = shift
      /\ codes' = codes /\ typed' = typed /\ late' = late
  BY DEF cnl_reply
<1>2. /\ drv.count \in Nat /\ drv.count <= MaxEvents /\ MaxEvents \in Nat /\ drv.from \in Programs
      /\ given \in Seq(Keys \union {0}) /\ typed \in Seq(Keys)
  BY <1>1, KbdTypes DEF KbdInv, Bounded
<1>3. /\ Answer \in Seq(Keys \union {0}) /\ Len(Answer) = drv.count
      /\ \A i \in 1 .. drv.count : Answer[i] = data[drv.from][i - 1]
  <2>1. \A i \in 1 .. drv.count : data[drv.from][i - 1] \in Keys \union {0}
    BY <1>2 DEF KbdInv, KbdTypeOK
  <2>2. Answer \in [1 .. drv.count -> Keys \union {0}]
    BY <1>2, <2>1 DEF Answer
  <2> QED BY <1>2, <2>2, IsSequence, ZenonT(60) DEF Answer
<1>4. /\ given' \in Seq(Keys \union {0}) /\ Len(given') = Len(given) + drv.count
      /\ \A i \in 1 .. Len(given) + drv.count :
           given'[i] = IF i <= Len(given) THEN given[i] ELSE Answer[i - Len(given)]
  BY <1>1, <1>2, <1>3, ConcatProperties
<1>5. Scanning \in Drivers
      /\ Scanning.at = "scan"
  BY DEF Scanning, KbdConstants, Drivers
<1>6. KbdTypeOK'
  BY <1>1, <1>4, <1>5, ZenonT(60) DEF KbdInv, KbdTypeOK
<1>7. Masked' /\ Bounded' /\ WritesOnlyServedStep
  BY <1>1, <1>5 DEF KbdInv, Masked, Bounded, WritesOnlyServedStep
<1>8. Pending'
  <2> SUFFICES ASSUME ~late PROVE Pending'
    BY <1>1 DEF Pending
  <2>1. bufpos = 0 /\ Len(typed) = Len(given) + drv.count
    BY <1>1 DEF KbdInv, Pending, Holds
  <2>2. \A i \in 0 .. drv.count - 1 : data[drv.from][i] = typed[Len(given) + 1 + i]
    BY <1>1 DEF KbdInv, Pending, Holds
  <2>3. \A i \in 1 .. Len(given) : given[i] = typed[i]
    BY DEF KbdInv, Pending
  <2>4. Len(given) \in Nat
    BY <1>2
  <2>5. ASSUME NEW i \in 1 .. Len(given') PROVE given'[i] = typed[i]
    <3>1. CASE i <= Len(given)
      BY <1>4, <2>3, <2>4, <2>5, <3>1
    <3>2. CASE ~(i <= Len(given))
      <4>1. i - Len(given) \in 1 .. drv.count /\ (i - Len(given)) - 1 \in 0 .. drv.count - 1
        BY <1>2, <1>4, <2>4, <3>2
      <4>2. given'[i] = data[drv.from][(i - Len(given)) - 1]
        BY <1>2, <1>3, <1>4, <2>4, <3>2, <4>1
      <4>3. Len(given) + 1 + ((i - Len(given)) - 1) = i
        BY <1>2, <1>4, <2>4
      <4> QED BY <2>2, <4>1, <4>2, <4>3
    <3> QED BY <3>1, <3>2
  <2> QED BY <1>1, <1>4, <1>5, <2>1, <2>5 DEF Pending, Served
<1> QED BY <1>6, <1>7, <1>8 DEF KbdInv

\* kbd_proc_data for a key: the next byte of the request that is being served.
LEMMA KeyStep ==
  ASSUME KbdConstants, KbdInv, NEW key \in Keys, kbd_add_buf(key), typed' = Append(typed, key),
         late' = (late \/ drv.at = "cli" \/ bufpos >= drv.count),
         Interrupt, codes' = Tail(codes), drv' = Awake,
         request' = request, intr' = intr, given' = given, shift' = shift
  PROVE  KbdInv' /\ WritesOnlyServedStep
<1>1. /\ drv.at # "scan" /\ codes # <<>>
      /\ data' = [data EXCEPT ![drv.from] = [data[drv.from] EXCEPT ![bufpos] = key]]
      /\ bufpos' = bufpos + 1
  BY DEF KbdInv, Masked, Interrupt, kbd_add_buf
<1>2. codes \in Seq(Codes) /\ typed \in Seq(Keys) /\ given \in Seq(Keys \union {0})
  BY DEF KbdInv, KbdTypeOK
<1>3. codes' \in Seq(Codes) /\ Len(codes') = Len(codes) - 1 /\ Len(codes) \in Nat
  BY <1>1, <1>2
<1>4. /\ typed' \in Seq(Keys) /\ Len(typed') = Len(typed) + 1 /\ Len(typed) \in Nat
      /\ \A i \in 1 .. Len(typed) : typed'[i] = typed[i]
      /\ typed'[Len(typed) + 1] = key
  BY <1>2, AppendProperties, LenProperties
<1>5. /\ Len(typed) + Len(codes) <= MaxEvents /\ bufpos <= Len(typed) /\ Len(codes) > 0
      /\ bufpos \in Nat /\ MaxEvents \in Nat /\ bufpos \in 0 .. MaxEvents /\ bufpos + 1 \in 0 .. MaxEvents
  BY <1>1, <1>2, <1>3, <1>4 DEF KbdInv, Bounded, KbdTypeOK, KbdConstants
<1>6. /\ drv \in Drivers
      /\ drv.count \in Nat /\ drv.from \in Programs
  BY KbdTypes DEF KbdInv, KbdTypeOK
<1>7. /\ drv' \in Drivers
      /\ drv'.from = drv.from /\ drv'.count = drv.count
      /\ drv'.at = drv.at \/ (drv.at = "asleep" /\ drv'.at = "test")
  BY <1>6 DEF Awake, Drivers
<1>8. /\ [data[drv.from] EXCEPT ![bufpos] = key] \in [0 .. MaxEvents -> Keys \union {0}]
      /\ data'[drv.from] = [data[drv.from] EXCEPT ![bufpos] = key]
      /\ data' \in [Programs -> [0 .. MaxEvents -> Keys \union {0}]]
      /\ \A c \in Programs : c # drv.from => data'[c] = data[c]
  BY <1>1, <1>5, <1>6, ZenonT(60) DEF KbdInv, KbdTypeOK
<1>9. /\ data'[drv.from][bufpos] = key
      /\ \A i \in 0 .. bufpos - 1 : data'[drv.from][i] = data[drv.from][i]
  <2>1. data[drv.from] \in [0 .. MaxEvents -> Keys \union {0}]
    BY <1>6 DEF KbdInv, KbdTypeOK
  <2> QED BY <1>5, <1>8, <2>1
<1>10. late' \in BOOLEAN
  BY DEF KbdInv, KbdTypeOK
<1>11. KbdTypeOK'
  BY <1>1, <1>3, <1>4, <1>5, <1>7, <1>8, <1>10 DEF KbdInv, KbdTypeOK
<1>12. Masked' /\ Bounded'
  BY <1>1, <1>3, <1>4, <1>5, <1>7 DEF KbdInv, Masked, Bounded
<1>13. WritesOnlyServedStep
  BY <1>1, <1>8 DEF WritesOnlyServedStep
<1>14. Pending'
  <2> SUFFICES ASSUME ~late, drv.at # "cli", ~(bufpos >= drv.count) PROVE Pending'
    BY ZenonT(60) DEF Pending
  <2>0. drv.at \in Served /\ drv.at # "reset" /\ bufpos + 1 <= drv.count
    <3>1. drv.at \in Served
      BY <1>1, <1>6 DEF Drivers, Served
    <3>2. drv.at # "reset"
      <4>1. drv.at = "reset" => bufpos = drv.count
        BY ZenonT(60) DEF KbdInv, Pending
      <4> QED BY <1>5, <1>6, <4>1
    <3> QED BY <1>5, <1>6, <3>1, <3>2
  <2>1. /\ Len(typed) = Len(given) + bufpos
        /\ \A i \in 0 .. bufpos - 1 : data[drv.from][i] = typed[Len(given) + 1 + i]
        /\ \A i \in 1 .. Len(given) : given[i] = typed[i]
        /\ Len(given) \in Nat
    <3>1. Len(given) \in Nat
      BY <1>2, LenProperties
    <3>2. Holds(bufpos) /\ \A i \in 1 .. Len(given) : given[i] = typed[i]
      BY <2>0, ZenonT(60) DEF KbdInv, Pending
    <3> QED BY <3>1, <3>2, ZenonT(60) DEF Holds
  <2>2. \A i \in 1 .. Len(given) : given'[i] = typed'[i]
    <3>1. ASSUME NEW i \in 1 .. Len(given) PROVE i \in 1 .. Len(typed)
      BY <1>5, <2>1
    <3> QED BY <1>4, <2>1, <3>1, ZenonT(60)
  <2>3. ASSUME NEW i \in 0 .. (bufpos + 1) - 1 PROVE data'[drv.from][i] = typed'[Len(given) + 1 + i]
    <3>1. CASE i = bufpos
      <4>1. Len(given) + 1 + i = Len(typed) + 1
        BY <1>4, <1>5, <2>1, <3>1
      <4> QED BY <1>4, <1>9, <3>1, <4>1, ZenonT(60)
    <3>2. CASE i # bufpos
      <4>0. i \in Nat /\ i < bufpos /\ bufpos \in Nat
        BY <1>5, <3>2
      <4>1. i \in 0 .. bufpos - 1 /\ Len(given) + 1 + i \in 1 .. Len(typed)
        BY <2>1, <4>0
      <4> QED BY <1>4, <1>9, <2>1, <4>1, ZenonT(60)
    <3> QED BY <3>1, <3>2, ZenonT(60)
  <2>4. Holds(bufpos)'
    <3>1. Len(typed') = Len(given') + bufpos'
      BY <1>1, <1>4, <1>5, <2>1
    <3> QED BY <1>1, <1>7, <2>3, <3>1, ZenonT(60) DEF Holds
  <2> QED BY <1>1, <1>7, <2>0, <2>2, <2>4, ZenonT(60) DEF Pending, Served
<1> QED BY <1>11, <1>12, <1>13, <1>14 DEF KbdInv

\* kbd_proc_data for a modifier or a release: nothing is written.
LEMMA OtherKeyStep ==
  ASSUME KbdConstants, KbdInv, Interrupt, codes' = Tail(codes), drv' = Awake,
         shift' \in BOOLEAN, data' = data, bufpos' = bufpos, typed' = typed, late' = late,
         request' = request, intr' = intr, given' = given
  PROVE  KbdInv' /\ WritesOnlyServedStep
<1>1. codes \in Seq(Codes) /\ typed \in Seq(Keys) /\ codes # <<>>
  BY DEF KbdInv, KbdTypeOK, Interrupt
<1>2. codes' \in Seq(Codes) /\ Len(codes') = Len(codes) - 1 /\ Len(codes) \in Nat /\ Len(typed) \in Nat
  BY <1>1
<1>3. drv \in Drivers
  BY DEF KbdInv, KbdTypeOK
<1>4. /\ drv' \in Drivers
      /\ drv'.from = drv.from /\ drv'.count = drv.count
      /\ drv'.at = drv.at \/ (drv.at = "asleep" /\ drv'.at = "test")
  BY <1>3 DEF Awake, Drivers
<1>5. KbdTypeOK'
  BY <1>2, <1>4 DEF KbdInv, KbdTypeOK
<1>6. Masked' /\ Bounded' /\ WritesOnlyServedStep
  BY <1>2, <1>4 DEF KbdInv, Masked, Bounded, WritesOnlyServedStep, KbdConstants
<1>7. Pending'
  BY <1>4 DEF KbdInv, Pending, Holds, Served
<1> QED BY <1>5, <1>6, <1>7 DEF KbdInv

\* kbd_proc_data
LEMMA InterruptStep == ASSUME KbdConstants, KbdInv, kbd_proc_data PROVE KbdInv' /\ WritesOnlyServedStep
<1>1. /\ Interrupt /\ codes' = Tail(codes) /\ drv' = Awake
      /\ request' = request /\ intr' = intr /\ given' = given
  BY DEF kbd_proc_data
<1>2. PICK key \in {(2 * (Len(typed) + 1)) + (IF shift THEN 1 ELSE 0)} : TRUE
  OBVIOUS
<1>3. \/ shift' \in BOOLEAN /\ data' = data /\ bufpos' = bufpos /\ typed' = typed /\ late' = late
      \/ /\ kbd_add_buf(key) /\ typed' = Append(typed, key) /\ shift' = shift
         /\ late' = (late \/ drv.at = "cli" \/ bufpos >= drv.count)
  BY <1>2, ZenonT(60) DEF kbd_proc_data, KbdInv, KbdTypeOK
<1>4. key \in Keys
  <2>1. codes \in Seq(Codes) /\ typed \in Seq(Keys) /\ codes # <<>> /\ shift \in BOOLEAN
    BY <1>1 DEF KbdInv, KbdTypeOK, Interrupt
  <2>2. Len(codes) \in Nat /\ Len(codes) # 0 /\ Len(typed) \in Nat
    BY <2>1
  <2>3. Len(typed) < MaxEvents /\ MaxEvents \in Nat
    BY <2>2 DEF KbdInv, Bounded, KbdConstants
  <2> QED BY <1>2, <2>2, <2>3 DEF Keys
<1> QED BY <1>1, <1>3, <1>4, KeyStep, OtherKeyStep

\* Every step keeps the invariant, and writes only where it may.
LEMMA KbdNextStep == ASSUME KbdConstants, KbdInv, [KbdNext]_kbdVars PROVE KbdInv' /\ (WritesOnlyServedStep \/ UNCHANGED kbdVars)
<1>1. ASSUME UNCHANGED kbdVars PROVE KbdInv'
  BY <1>1 DEF kbdVars, ghosts, KbdInv, KbdTypeOK, Masked, Bounded, Pending, Holds
<1> QED BY <1>1, ReadCharStep, TypeStep, WaitStep, ReplyStep, InterruptStep DEF KbdNext, KbdDriver, Codes

\* The invariant says that the programs have got the first keys.
LEMMA IInvKeys == ASSUME KbdConstants, KbdInv PROVE KeysInOrderUnlessLate
<1> SUFFICES ASSUME ~late PROVE Len(given) <= Len(typed) /\ given = SubSeq(typed, 1, Len(given))
  BY DEF KeysInOrderUnlessLate
<1>1. /\ given \in Seq(Keys \union {0}) /\ typed \in Seq(Keys \union {0})
      /\ \A i \in 1 .. Len(given) : given[i] = typed[i]
      /\ drv.count \in Nat /\ bufpos \in Nat
  BY KbdTypes DEF KbdInv, Pending
<1>2. Len(given) <= Len(typed)
  <2>1. Len(given) \in Nat /\ Len(typed) \in Nat
    BY KbdTypes DEF KbdInv
  <2>2. drv.at = "scan" \/ drv.at = "cli" \/ drv.at \in Served
    BY DEF KbdInv, KbdTypeOK, Drivers, Served
  <2>3. Len(typed) = Len(given) \/ Len(typed) = Len(given) + drv.count \/ Len(typed) = Len(given) + bufpos
    BY <2>2 DEF KbdInv, Pending, Holds
  <2> QED BY <1>1, <2>1, <2>3
<1>3. /\ SubSeq(typed, 1, Len(given)) \in Seq(Keys \union {0})
      /\ Len(SubSeq(typed, 1, Len(given))) = Len(given)
      /\ \A i \in 1 .. Len(given) : SubSeq(typed, 1, Len(given))[i] = typed[i]
  BY <1>1, <1>2, SubSeqProperties
<1> QED BY <1>1, <1>2, <1>3, SeqEqual

\* For any programs and sizes of requests: keys are neither lost, repeated nor
\* reordered while none comes late.
THEOREM KeysReachPrograms ==
  ASSUME Counts \subseteq Nat \ {0}, MaxEvents \in Nat, Programs # {}
  PROVE  KbdSpec => []KeysInOrderUnlessLate
<1>0. KbdConstants
  BY DEF KbdConstants
<1>1. KbdInit => KbdInv
  BY <1>0, KbdInitInv
<1>2. KbdInv /\ [KbdNext]_kbdVars => KbdInv'
  BY <1>0, KbdNextStep
<1>3. KbdInv => KeysInOrderUnlessLate
  BY <1>0, IInvKeys
<1> QED BY <1>1, <1>2, <1>3, PTL DEF KbdSpec

\* For any programs and sizes of requests: the interrupt handler never writes into
\* the channel of a program whose request it is not serving.
THEOREM HandlerWritesServed ==
  ASSUME Counts \subseteq Nat \ {0}, MaxEvents \in Nat, Programs # {}
  PROVE  KbdSpec => HandlerWritesOK
<1>0. KbdConstants
  BY DEF KbdConstants
<1>1. KbdInit => KbdInv
  BY <1>0, KbdInitInv
<1>2. KbdInv /\ [KbdNext]_kbdVars => KbdInv' /\ [WritesOnlyServedStep]_kbdVars
  BY <1>0, KbdNextStep
<1> QED BY <1>1, <1>2, PTL DEF KbdSpec, HandlerWritesOK

-----------------------------------------------------------------------------
(* The threads, for any set of threads. *)

\* The initial state satisfies the invariant.
LEMMA ThreadInitInv == ASSUME ThreadNames, ThreadInit PROVE ThreadInv
<1>1. ThreadTypeOK
  BY ZenonT(60) DEF ThreadInit, ThreadTypeOK, ThreadNames, Places
<1>2. Fresh /\ Main /\ Restoring /\ ListOK /\ RegistersKeptUnlessNested
  BY DEF ThreadInit, Fresh, Main, Restoring, ListOK, RegistersKeptUnlessNested, ThreadNames, Own
<1> QED BY <1>1, <1>2 DEF ThreadInv

\* The list depends on its pointers only.
LEMMA ListFrame ==
  ASSUME head' = head, last' = last, nxt' = nxt, ListOK, head # NULL => Linked(current')
  PROVE  ListOK'
BY DEF ListOK, Linked, ReachedFrom

\* thread_init: the caller becomes the only thread.
LEMMA InitStep == ASSUME ThreadNames, ThreadInv, thread_init PROVE ThreadInv'
<1>1. /\ cpu.at = "user" /\ head = NULL
      /\ nxt' = [nxt EXCEPT ![main_thread] = NULL]
      /\ current' = main_thread /\ head' = main_thread /\ last' = main_thread
      /\ timer' = TRUE /\ regs' = regs /\ cpu' = cpu /\ irr' = irr /\ nested' = nested
  BY DEF thread_init
<1>2. ThreadTypeOK'
  BY <1>1 DEF ThreadInv, ThreadTypeOK, ThreadNames
<1>3. \A t \in Threads : nxt'[t] = NULL
  BY <1>1 DEF ThreadInv, ThreadTypeOK, Fresh
<1>4. Fresh' /\ Main' /\ Restoring'
  BY <1>1 DEF Fresh, Main, Restoring, ThreadNames
<1>5. ListOK'
  <2>1. \A t \in Threads : Linked(t)' <=> t = main_thread
    BY <1>1, <1>3 DEF Linked, ThreadNames
  <2>2. main_thread \in ReachedFrom(head)'
    BY <1>1 DEF ReachedFrom, ThreadNames
  <2> QED BY <1>1, <1>3, <2>1, <2>2 DEF ListOK, ThreadNames
<1>6. RegistersKeptUnlessNested'
  BY <1>1 DEF ThreadInv, RegistersKeptUnlessNested, Main, Own
<1> QED BY <1>2, <1>4, <1>5, <1>6 DEF ThreadInv

\* thread_create: a new thread behind the last one.
LEMMA CreateStep == ASSUME ThreadNames, ThreadInv, NEW t \in Threads, thread_create(t) PROVE ThreadInv'
<1>1. /\ cpu.at = "user" /\ head # NULL /\ ~Linked(t)
      /\ regs' = [regs EXCEPT ![t] = [resume |-> "user", rax |-> t]]
      /\ nxt' = [nxt EXCEPT ![t] = NULL, ![last] = t] /\ last' = t
      /\ head' = head /\ current' = current /\ cpu' = cpu /\ timer' = timer
      /\ irr' = irr /\ nested' = nested
  BY DEF thread_create
<1>2. /\ last \in Threads /\ current \in Threads /\ head \in Threads
      /\ Linked(last) /\ Linked(current) /\ t # last /\ t # current
  BY <1>1 DEF ThreadInv, ThreadTypeOK, ListOK, ThreadNames
<1>3. /\ nxt[t] = NULL /\ nxt[last] = NULL
      /\ nxt'[t] = NULL /\ nxt'[last] = t
      /\ \A s \in Threads : s # last => nxt'[s] = nxt[s]
  BY <1>1, <1>2 DEF ThreadInv, ThreadTypeOK, ListOK
<1>4. ThreadTypeOK'
  BY <1>1, <1>2 DEF ThreadInv, ThreadTypeOK, ThreadNames
<1>5. regs'[t] = Own(t) /\ \A s \in Threads : s # t => regs'[s] = regs[s]
  BY <1>1 DEF ThreadInv, ThreadTypeOK, Own
<1>6. Fresh' /\ Main' /\ Restoring' /\ RegistersKeptUnlessNested'
  BY <1>1, <1>2, <1>5 DEF ThreadInv, Fresh, Main, Restoring, RegistersKeptUnlessNested, Own
<1>7. \A s \in Threads : Linked(s)' <=> Linked(s) \/ s = t
  BY <1>1, <1>2, <1>3, ZenonT(60) DEF Linked, ThreadNames
<1>8. ASSUME NEW s \in Threads, Linked(s)' PROVE s \in ReachedFrom(head)'
  <2> SUFFICES ASSUME NEW S \in SUBSET Threads, head \in S,
                      \A r \in S : nxt'[r] # NULL => nxt'[r] \in S
               PROVE  s \in S
    BY <1>1, ZenonT(60) DEF ReachedFrom
  <2>1. \A r \in S : nxt[r] # NULL => nxt[r] \in S
    BY <1>3
  <2>2. \A r \in Threads : Linked(r) => r \in S
    BY <1>1, <2>1 DEF ThreadInv, ListOK, ReachedFrom
  <2>3. t \in S
    BY <1>2, <1>3, <2>2 DEF ThreadNames
  <2> QED BY <1>7, <1>8, <2>2, <2>3
<1>9. ListOK'
  <2>1. \A s \in Threads : Linked(s)' => (nxt'[s] = NULL <=> s = t)
    <3>1. \A s \in Threads : Linked(s) => (nxt[s] = NULL <=> s = last)
      BY <1>1 DEF ThreadInv, ListOK
    <3> QED BY <1>2, <1>3, <1>7, <3>1 DEF ThreadNames
  <2>2. \A s \in Threads : nxt'[s] # head
    BY <1>1, <1>2, <1>3, ZenonT(60) DEF ThreadInv, ListOK, Linked
  <2>3. \A r, s \in Threads : nxt'[r] = nxt'[s] /\ nxt'[r] # NULL => r = s
    BY <1>1, <1>2, <1>3 DEF ThreadInv, ListOK, Linked
  <2>4. \A s \in Threads : ~Linked(s)' => nxt'[s] = NULL
    BY <1>1, <1>2, <1>3, <1>7, ZenonT(60) DEF ThreadInv, ListOK
  <2> QED BY <1>1, <1>2, <1>7, <1>8, <2>1, <2>2, <2>3, <2>4, ZenonT(60) DEF ListOK
<1> QED BY <1>4, <1>6, <1>9 DEF ThreadInv

\* The handler: the frame of the current thread is saved and the next one chosen.
LEMMA SwitchStep == ASSUME ThreadNames, ThreadInv, thread_switch_handler PROVE ThreadInv'
<1>1. /\ cpu.at \in {"user", "restore"} /\ head # last /\ irr' = FALSE
      /\ regs' = [regs EXCEPT ![current] = [resume |-> cpu.at, rax |-> cpu.rax]]
      /\ nested' = IF cpu.at = "restore" THEN nested \union {current} ELSE nested
      /\ current' = scheduler /\ cpu' = [at |-> "restore", rax |-> EOI]
      /\ head' = head /\ last' = last /\ nxt' = nxt /\ timer' = timer
  BY DEF thread_switch_handler
<1>2. head # NULL /\ current \in Threads /\ head \in Threads /\ Linked(current)
  BY <1>1 DEF ThreadInv, ThreadTypeOK, Fresh, ListOK, ThreadNames
<1>3. scheduler \in Threads /\ Linked(scheduler)
  BY <1>2 DEF ThreadInv, ThreadTypeOK, scheduler, Linked
<1>4. ThreadTypeOK'
  <2>1. cpu' \in [at : Places, rax : Threads \union {EOI}]
    BY <1>1 DEF Places
  <2>2. [resume |-> cpu.at, rax |-> cpu.rax] \in Frames
    BY <1>1 DEF ThreadInv, ThreadTypeOK, Frames
  <2>3. regs' \in [Threads -> Frames]
    BY <1>1, <1>2, <2>2 DEF ThreadInv, ThreadTypeOK, Frames
  <2>4. nested' \in SUBSET Threads
    BY <1>1, <1>2 DEF ThreadInv, ThreadTypeOK
  <2>5. irr' \in BOOLEAN /\ timer' \in BOOLEAN
    BY <1>1, ZenonT(60) DEF ThreadInv, ThreadTypeOK
  <2>6. /\ head' \in {NULL, main_thread} /\ nxt' \in [Threads -> Threads \union {NULL}]
        /\ last' \in Threads \union {NULL} /\ current' \in Threads \union {NULL}
        /\ NULL \in {last', current'} => head' = NULL
    BY <1>1, <1>3 DEF ThreadInv, ThreadTypeOK, ThreadNames
  <2> QED BY <2>1, <2>3, <2>4, <2>5, <2>6 DEF ThreadTypeOK, Frames
<1>5. /\ regs'[current] = [resume |-> cpu.at, rax |-> cpu.rax]
      /\ \A t \in Threads : t # current => regs'[t] = regs[t]
      /\ cpu'.at = "restore"
  BY <1>1, <1>2 DEF ThreadInv, ThreadTypeOK
<1>6. current \notin nested' => regs'[current] = Own(current)
  BY <1>1, <1>2, <1>5 DEF ThreadInv, RegistersKeptUnlessNested, Own, ThreadNames
<1>7. \A t \in Threads : t \notin nested' => regs'[t] = Own(t)
  BY <1>1, <1>5, <1>6 DEF ThreadInv, RegistersKeptUnlessNested, Own
<1>8. Restoring' /\ RegistersKeptUnlessNested'
  BY <1>1, <1>3, <1>5, <1>7 DEF Restoring, RegistersKeptUnlessNested, Own
<1>9. Fresh' /\ Main'
  BY <1>1, <1>2 DEF Fresh, Main
<1>10. ListOK'
  BY <1>1, <1>3, ListFrame DEF ThreadInv
<1> QED BY <1>4, <1>8, <1>9, <1>10 DEF ThreadInv

\* The rest of it: the registers of the current thread.
LEMMA RestoreStep == ASSUME ThreadNames, ThreadInv, Restore PROVE ThreadInv'
<1>1. /\ cpu.at = "restore"
      /\ cpu' = [at |-> regs[current].resume, rax |-> regs[current].rax]
      /\ regs' = [regs EXCEPT ![current] = [regs[current] EXCEPT !.resume = "user"]]
      /\ head' = head /\ last' = last /\ current' = current /\ nxt' = nxt
      /\ timer' = timer /\ irr' = irr /\ nested' = nested
  BY DEF Restore, list
<1>2. head # NULL /\ current \in Threads /\ Linked(current)
  BY <1>1 DEF ThreadInv, ThreadTypeOK, Fresh, ListOK
<1>3. regs \in [Threads -> Frames] /\ regs[current] \in Frames
  BY <1>2 DEF ThreadInv, ThreadTypeOK, Frames
<1>4. [regs[current] EXCEPT !.resume = "user"] \in Frames
  BY <1>3 DEF Frames
<1>5. /\ regs' \in [Threads -> Frames]
      /\ \A t \in Threads : t # current => regs'[t] = regs[t]
  BY <1>1, <1>2, <1>3, <1>4
<1>6. ThreadTypeOK'
  BY <1>1, <1>3, <1>5 DEF ThreadInv, ThreadTypeOK, Frames, Places
<1>7. current \notin nested => cpu'.at = "user" /\ cpu'.rax = current
  BY <1>1, <1>2 DEF ThreadInv, Restoring, Own
<1>8. Restoring' /\ RegistersKeptUnlessNested'
  BY <1>1, <1>2, <1>5, <1>7 DEF ThreadInv, Restoring, RegistersKeptUnlessNested
<1>9. Fresh' /\ Main'
  BY <1>1, <1>2 DEF Fresh, Main
<1>10. ListOK'
  BY <1>1, <1>2, ListFrame DEF ThreadInv
<1> QED BY <1>6, <1>8, <1>9, <1>10 DEF ThreadInv

\* The steps that touch neither the list nor the frames.
LEMMA OtherStep ==
  ASSUME ThreadNames, ThreadInv,
         Uninitialized \/ thread_set_timer_freq \/ Tick \/ HandlerReturns \/ UNCHANGED threadVars
  PROVE  ThreadInv'
<1>1. /\ head' = head /\ last' = last /\ current' = current /\ nxt' = nxt
      /\ regs' = regs /\ nested' = nested /\ timer' \in BOOLEAN /\ irr' \in BOOLEAN
      /\ \/ cpu' = cpu
         \/ head = NULL /\ cpu' = [cpu EXCEPT !.at = "panic"]
  BY ZenonT(60) DEF ThreadInv, ThreadTypeOK, Uninitialized, thread_set_timer_freq, Tick, HandlerReturns, threadVars, list
<1>2. ThreadTypeOK'
  BY <1>1 DEF ThreadInv, ThreadTypeOK, Places
<1>3. cpu'.rax = cpu.rax /\ (cpu'.at = cpu.at \/ (head = NULL /\ cpu'.at = "panic"))
  BY <1>1 DEF ThreadInv, ThreadTypeOK
<1>4. Fresh' /\ Main' /\ Restoring' /\ RegistersKeptUnlessNested'
  BY <1>1, <1>3 DEF ThreadInv, Fresh, Main, Restoring, RegistersKeptUnlessNested
<1>5. ListOK'
  BY <1>1, ListFrame DEF ThreadInv, ListOK
<1> QED BY <1>2, <1>4, <1>5 DEF ThreadInv

\* The thread list stays one chain from head to last with the current thread on it,
\* and a thread goes on with the registers it was interrupted with, unless a tick
\* came while thread_switch_handler was restoring them.
THEOREM ThreadsCorrect ==
  ASSUME main_thread \in Threads, NULL \notin Threads
  PROVE  ThreadSpec => []ThreadsOK
<1>0. ThreadNames
  BY DEF ThreadNames
<1>1. ThreadInit => ThreadInv
  BY <1>0, ThreadInitInv
<1>2. ThreadInv /\ [ThreadNext]_threadVars => ThreadInv'
  BY <1>0, InitStep, CreateStep, SwitchStep, RestoreStep, OtherStep DEF ThreadNext, Handler
<1>3. ThreadInv => ThreadsOK
  BY DEF ThreadInv, ThreadsOK
<1> QED BY <1>1, <1>2, <1>3, PTL DEF ThreadSpec

-----------------------------------------------------------------------------
(* Message passing, for any set of programs and any number of requests, as  *)
(* long as the CPUs fit into the int that lib/bitmap.c shifts: only          *)
(* overlapping updates of the ready bitmap can lose or repeat a request.     *)

SrvType ==
  [at : {"poll", "scan", "load", "store", "serve", "data", "number"},
   i : 0 .. ncpus, from : CPUs \union {-1}, m : Nat]

\* The server has a CPU in hand exactly between msg_check and msg_reply.
FromInv == srv.from = -1 <=> srv.at \in {"poll", "scan"}

\* Where the bit, the server and the scan index stand.
ServerInv ==
  /\ bitmap \subseteq Clients
  /\ srv.from \in Clients \union {-1}
  /\ srv.at \in {"load", "store"} => srv.from \in bitmap
  /\ srv.at \in {"serve", "data", "number"} => srv.from \notin bitmap
  /\ srv.at = "scan" => \E b \in bitmap : srv.i <= b

\* Which number each place holds while a request of c travels.
DataOf(c) ==
  /\ pc[c] \in {"load", "store", "wait"} => msg_output[c] = sent[c]
  /\ msg_input[c].number => msg_input[c].data = sent[c]
  /\ pc[c] = "read" => msg_input[c].data = sent[c]
  /\ pc[c] = "run" => got[c] = sent[c]

DataInv ==
  /\ \A c \in Clients : DataOf(c)
  /\ srv.at \in {"data", "number"} => srv.m = sent[srv.from]
  /\ srv.at = "number" => msg_input[srv.from].data = sent[srv.from]

Travels == ServerInv /\ InOnePlace /\ DataInv

IInv == TypeOK /\ FromInv /\ (raced \/ Travels)

\* On CPUs below 31 the int operations of lib/bitmap.c do what their names say.
LEMMA BitsOfAnInt ==
  ASSUME NEW w \in SUBSET (0 .. 30), NEW b \in 0 .. 30
  PROVE  /\ set_bit(w, b) = w \union {b}
         /\ clear_bit(w, b) = w \ {b}
         /\ check_bit(w, b) = {0} <=> b \in w
<1>1. b % 32 = b /\ b % 64 = b
  OBVIOUS
<1>2. OneShifted(b) = {b}
  BY <1>1 DEF OneShifted
<1>3. check_bit(w, b) = {0} <=> b \in w
  <2>1. check_bit(w, b) = {k \in 0 .. 31 : k + b \in w \intersect {b}}
    BY <1>1, <1>2 DEF check_bit
  <2>2. CASE b \in w
    BY <2>1, <2>2
  <2>3. CASE b \notin w
    BY <2>1, <2>3
  <2> QED BY <2>2, <2>3
<1> QED BY <1>2, <1>3 DEF set_bit, clear_bit

\* The initial states satisfy the inductive invariant.
LEMMA InitIInv == Init => IInv
<1> SUFFICES ASSUME Init PROVE IInv
  OBVIOUS
<1> USE IpcAssumption DEF Init, CPUs
<1>1. TypeOK
  <2>1. Clients \subseteq CPUs
    OBVIOUS
  <2>2. srv \in [at : {"poll", "scan", "load", "store", "serve", "data", "number"},
                i : 0 .. ncpus, from : CPUs \union {-1}, m : Nat]
    OBVIOUS
  <2> QED BY <2>1, <2>2 DEF TypeOK
<1>2. FromInv /\ ServerInv
  BY DEF FromInv, ServerInv
<1>3. InOnePlace /\ DataInv
  BY DEF InOnePlace, DataInv, DataOf, Serving
<1> QED BY <1>1, <1>2, <1>3 DEF IInv, Travels

\* A step of a program keeps the types.
LEMMA ClientTypes ==
  ASSUME TypeOK, NEW c \in Clients, Fill(c) \/ Send(c) \/ Receive(c)
  PROVE  TypeOK'
<1> USE IpcAssumption DEF TypeOK, CPUs, server
<1>1. c \in CPUs
  OBVIOUS
<1>2. CASE Fill(c)
  <2>1. sent[c] + 1 \in Nat
    OBVIOUS
  <2>2. sent' \in [Clients -> Nat] /\ msg_output' \in [CPUs -> Nat]
    BY <1>1, <1>2, <2>1 DEF Fill
  <2>3. pc' \in [Clients -> {"run", "load", "store", "wait", "read"}]
    BY <1>2 DEF Fill
  <2> QED BY <1>2, <2>2, <2>3 DEF Fill
<1>3. CASE SetBitLoad(c)
  BY <1>1, <1>3 DEF SetBitLoad
<1>4. CASE SetBitStore(c)
  <2>1. bitmap' \in SUBSET (0 .. 63)
    <3>1. c % 32 \in 0 .. 31
      OBVIOUS
    <3>2. OneShifted(c) \subseteq 0 .. 63
      BY <3>1 DEF OneShifted
    <3> QED BY <1>4, <3>2 DEF SetBitStore, set_bit
  <2>2. raced' \in BOOLEAN
    BY <1>4 DEF SetBitStore
  <2>3. reg' \in [Clients -> SUBSET (0 .. 63)]
    BY <1>4 DEF SetBitStore
  <2> QED BY <1>4, <2>1, <2>2, <2>3 DEF SetBitStore
<1>5. CASE ReceiveNumber(c)
  BY <1>1, <1>5, ZenonT(60) DEF ReceiveNumber
<1>6. CASE ReceiveData(c)
  BY <1>1, <1>6 DEF ReceiveData
<1> QED BY <1>2, <1>3, <1>4, <1>5, <1>6 DEF Send, Receive

\* A step of the server keeps the types.
LEMMA ServerTypes ==
  ASSUME TypeOK, FromInv, Server
  PROVE  TypeOK' /\ FromInv'
<1> USE IpcAssumption DEF TypeOK, CPUs, others, FromInv
<1>1. CASE Poll
  <2>1. srv' = [at |-> "scan", i |-> 0, from |-> srv.from, m |-> srv.m]
    BY <1>1 DEF Poll
  <2>2. srv' \in SrvType
    BY <2>1 DEF SrvType
  <2>3. FromInv'
    BY <1>1, <2>1 DEF Poll
  <2> QED BY <1>1, <2>2, <2>3 DEF Poll, SrvType
<1>2. CASE Scan
  <2>1. CASE check_bit(bitmap, srv.i) = {0}
    <3>1. srv' = [at |-> "load", i |-> 0, from |-> srv.i, m |-> srv.m]
      BY <1>2, <2>1 DEF Scan
    <3>2. srv.i \in CPUs
      BY <1>2 DEF Scan
    <3>3. srv' \in SrvType
      BY <3>1, <3>2 DEF SrvType
    <3>4. FromInv'
      BY <3>1, <3>2
    <3> QED BY <1>2, <3>3, <3>4 DEF Scan, SrvType
  <2>2. CASE check_bit(bitmap, srv.i) # {0}
    <3>1. srv' = [at |-> srv.at, i |-> srv.i + 1, from |-> srv.from, m |-> srv.m]
      BY <1>2, <2>2 DEF Scan
    <3>2. srv.i + 1 \in 0 .. ncpus
      BY <1>2 DEF Scan
    <3>3. srv' \in SrvType
      BY <3>1, <3>2 DEF SrvType
    <3>4. FromInv'
      BY <3>1
    <3> QED BY <1>2, <3>3, <3>4 DEF Scan, SrvType
  <2> QED BY <2>1, <2>2
<1>3. CASE ClearBitLoad
  BY <1>3 DEF ClearBitLoad
<1>4. CASE ClearBitStore
  <2>1. raced' \in BOOLEAN
    BY <1>4 DEF ClearBitStore
  <2> QED BY <1>4, <2>1 DEF ClearBitStore, clear_bit
<1>5. CASE Serve
  <2>1. msg_output[srv.from] \in Nat
    BY <1>5 DEF Serve
  <2>2. srv' = [at |-> "data", i |-> srv.i, from |-> srv.from, m |-> msg_output[srv.from]]
    BY <1>5 DEF Serve
  <2> QED BY <1>5, <2>1, <2>2 DEF Serve
<1>6. CASE ReplyData
  <2>1. srv' = [at |-> "number", i |-> srv.i, from |-> srv.from, m |-> srv.m]
    BY <1>6 DEF ReplyData
  <2>2. srv' \in SrvType
    BY <2>1 DEF SrvType
  <2>3. FromInv'
    BY <1>6, <2>1 DEF ReplyData
  <2>4. msg_input' \in [CPUs -> [number : BOOLEAN, data : Nat]]
    BY <1>6, ZenonT(60) DEF ReplyData
  <2> QED BY <1>6, <2>2, <2>3, <2>4 DEF ReplyData, SrvType
<1>7. CASE ReplyNumber
  <2>1. srv' = [at |-> "poll", i |-> srv.i, from |-> -1, m |-> 0]
    BY <1>7 DEF ReplyNumber
  <2>2. srv' \in SrvType
    BY <2>1 DEF SrvType
  <2>3. FromInv'
    BY <2>1
  <2>4. msg_input' \in [CPUs -> [number : BOOLEAN, data : Nat]]
    BY <1>7, ZenonT(60) DEF ReplyNumber
  <2> QED BY <1>7, <2>2, <2>3, <2>4 DEF ReplyNumber, SrvType
<1> QED BY <1>1, <1>2, <1>3, <1>4, <1>5, <1>6, <1>7 DEF Server

\* The programs run on CPUs that fit into the int.
LEMMA ClientsFit ==
  ASSUME ncpus <= 31
  PROVE  Clients \subseteq CPUs /\ Clients \subseteq 0 .. 30
BY IpcAssumption DEF CPUs

\* A program that does not wait, or has its answer, is not being served.
LEMMA NotServed ==
  ASSUME FromInv, InOnePlace, ~raced,
         NEW c \in Clients, pc[c] # "wait" \/ msg_input[c].number
  PROVE  srv.from # c
<1>1. ~Serving(c)
  BY DEF InOnePlace
<1>2. c # -1
  BY IpcAssumption
<1> QED BY <1>1, <1>2 DEF Serving, FromInv

\* A step of a program that does not make an update of the bitmap overlap
\* another keeps every request in its place.
LEMMA ClientStep ==
  ASSUME ncpus <= 31, TypeOK, FromInv, Travels, ~raced, raced' = FALSE,
         NEW c \in Clients, Fill(c) \/ Send(c) \/ Receive(c)
  PROVE  Travels'
<1> USE DEF TypeOK, FromInv, Travels
<1>0. c \in CPUs /\ Clients \subseteq CPUs /\ Clients \subseteq 0 .. 30
  BY ClientsFit
<1>1. CASE Fill(c)
  <2>1. ServerInv'
    BY <1>1 DEF Fill, ServerInv, server
  <2>2. InOnePlace'
    BY <1>1 DEF Fill, InOnePlace, Serving, server
  <2>3. \A d \in Clients : DataOf(d)'
    BY <1>0, <1>1 DEF Fill, DataInv, DataOf, InOnePlace, server
  <2>4. srv.from # c
    BY <1>1, NotServed DEF Fill
  <2> QED BY <1>1, <2>1, <2>2, <2>3, <2>4 DEF Fill, DataInv, ServerInv, server
<1>2. CASE SetBitLoad(c)
  <2>1. ServerInv'
    BY <1>2 DEF SetBitLoad, ServerInv, server
  <2>2. InOnePlace'
    BY <1>2 DEF SetBitLoad, InOnePlace, Serving, server
  <2>3. DataInv'
    BY <1>2 DEF SetBitLoad, DataInv, DataOf, server
  <2> QED BY <2>1, <2>2, <2>3
<1>3. CASE SetBitStore(c)
  <2>1. bitmap' = bitmap \union {c}
    <3>1. reg[c] = bitmap
      BY <1>3 DEF SetBitStore
    <3> QED BY <1>0, <1>3, <3>1, BitsOfAnInt DEF SetBitStore, ServerInv
  <2>2. c \notin bitmap /\ srv.from # c /\ ~msg_input[c].number
    <3>1. pc[c] = "store"
      BY <1>3 DEF SetBitStore
    <3>2. srv.from # c
      BY <3>1, NotServed
    <3> QED BY <3>1, <3>2 DEF InOnePlace, Serving
  <2>3. ServerInv'
    BY <1>3, <2>1, <2>2 DEF SetBitStore, ServerInv, server
  <2>4. InOnePlace'
    BY <1>3, <2>1, <2>2 DEF SetBitStore, InOnePlace, Serving, server
  <2>5. DataInv'
    BY <1>3 DEF SetBitStore, DataInv, DataOf, server
  <2> QED BY <2>3, <2>4, <2>5
<1>4. CASE ReceiveNumber(c)
  <2>1. ServerInv'
    BY <1>4 DEF ReceiveNumber, ServerInv, server
  <2>2. /\ \A d \in CPUs \ {c} : msg_input'[d] = msg_input[d]
        /\ msg_input'[c].number = FALSE /\ msg_input'[c].data = msg_input[c].data
    BY <1>0, <1>4 DEF ReceiveNumber
  <2>3. InOnePlace'
    BY <1>0, <1>4, <2>2 DEF ReceiveNumber, InOnePlace, Serving, server
  <2>4. \A d \in Clients : DataOf(d)'
    BY <1>0, <1>4, <2>2 DEF ReceiveNumber, DataInv, DataOf, server
  <2>5. srv.from # c
    BY <1>4, NotServed DEF ReceiveNumber
  <2> QED BY <1>0, <1>4, <2>1, <2>2, <2>3, <2>4, <2>5 DEF ReceiveNumber, DataInv, ServerInv, server
<1>5. CASE ReceiveData(c)
  <2>1. ServerInv'
    BY <1>5 DEF ReceiveData, ServerInv, server
  <2>2. InOnePlace'
    BY <1>5 DEF ReceiveData, InOnePlace, Serving, server
  <2>3. DataInv'
    BY <1>5 DEF ReceiveData, DataInv, DataOf, server
  <2> QED BY <2>1, <2>2, <2>3
<1> QED BY <1>1, <1>2, <1>3, <1>4, <1>5 DEF Send, Receive

\* A step of the server does the same.
LEMMA ServerStep ==
  ASSUME ncpus <= 31, TypeOK, FromInv, Travels, ~raced, raced' = FALSE, Server
  PROVE  Travels'
<1> USE DEF TypeOK, FromInv, Travels, others
<1>0. Clients \subseteq CPUs /\ Clients \subseteq 0 .. 30
  BY ClientsFit
<1>1. CASE Poll
  <2>1. ServerInv'
    BY <1>0, <1>1 DEF Poll, ServerInv
  <2>2. InOnePlace'
    BY <1>1 DEF Poll, InOnePlace, Serving
  <2>3. DataInv'
    BY <1>1 DEF Poll, DataInv, DataOf
  <2> QED BY <2>1, <2>2, <2>3
<1>2. CASE Scan
  <2>0. srv.i \in 0 .. 30
    <3>1. srv.i \in 0 .. ncpus /\ srv.i < ncpus
      BY <1>2 DEF Scan
    <3> QED BY <3>1, IpcAssumption
  <2>1. check_bit(bitmap, srv.i) = {0} <=> srv.i \in bitmap
    BY <1>0, <2>0, BitsOfAnInt DEF ServerInv
  <2>2. CASE srv.i \in bitmap
    <3>1. srv'.at = "load" /\ srv'.from = srv.i
      BY <1>2, <2>1, <2>2 DEF Scan
    <3>2. ServerInv'
      BY <1>2, <2>2, <3>1 DEF Scan, ServerInv
    <3>3. InOnePlace'
      BY <1>2, <2>2, <3>1 DEF Scan, InOnePlace, Serving, ServerInv
    <3>4. DataInv'
      BY <1>2, <3>1 DEF Scan, DataInv, DataOf
    <3> QED BY <3>2, <3>3, <3>4
  <2>3. CASE srv.i \notin bitmap
    <3>1. srv'.at = "scan" /\ srv'.from = srv.from /\ srv'.i = srv.i + 1
      BY <1>2, <2>1, <2>3 DEF Scan
    <3>2. ServerInv'
      <4>1. PICK b \in bitmap : srv.i <= b
        BY <1>2 DEF Scan, ServerInv
      <4>2. b \in 0 .. 30 /\ b # srv.i
        BY <1>0, <2>3 DEF ServerInv
      <4>3. srv.i + 1 <= b
        BY <2>0, <4>1, <4>2
      <4> QED BY <1>2, <3>1, <4>3 DEF Scan, ServerInv
    <3>3. InOnePlace'
      BY <1>2, <3>1 DEF Scan, InOnePlace, Serving
    <3>4. DataInv'
      BY <1>2, <3>1 DEF Scan, DataInv, DataOf
    <3> QED BY <3>2, <3>3, <3>4
  <2> QED BY <2>2, <2>3
<1>3. CASE ClearBitLoad
  <2>1. ServerInv'
    BY <1>3 DEF ClearBitLoad, ServerInv
  <2>2. InOnePlace'
    BY <1>3 DEF ClearBitLoad, InOnePlace, Serving
  <2>3. DataInv'
    BY <1>3 DEF ClearBitLoad, DataInv, DataOf
  <2> QED BY <2>1, <2>2, <2>3
<1>4. CASE ClearBitStore
  <2>1. bitmap' = bitmap \ {srv.from}
    <3>1. word = bitmap
      BY <1>4 DEF ClearBitStore
    <3>2. srv.from \in 0 .. 30 /\ bitmap \in SUBSET (0 .. 30)
      BY <1>0, <1>4 DEF ClearBitStore, ServerInv
    <3> QED BY <1>4, <3>1, <3>2, BitsOfAnInt DEF ClearBitStore
  <2>2. srv'.at = "serve" /\ srv'.from = srv.from
    BY <1>4 DEF ClearBitStore
  <2>3. ServerInv'
    BY <1>4, <2>1, <2>2 DEF ClearBitStore, ServerInv
  <2>4. InOnePlace'
    BY <1>4, <2>1, <2>2 DEF ClearBitStore, InOnePlace, Serving
  <2>5. DataInv'
    BY <1>4, <2>2 DEF ClearBitStore, DataInv, DataOf
  <2> QED BY <2>3, <2>4, <2>5
<1>5. CASE Serve
  <2>1. srv'.at = "data" /\ srv'.from = srv.from /\ srv'.m = msg_output[srv.from]
    BY <1>5 DEF Serve
  <2>2. ServerInv'
    BY <1>5, <2>1 DEF Serve, ServerInv
  <2>3. InOnePlace'
    BY <1>5, <2>1 DEF Serve, InOnePlace, Serving
  <2>4. srv.from \in Clients /\ pc[srv.from] = "wait"
    BY <1>5 DEF Serve, ServerInv, InOnePlace, Serving
  <2>5. DataInv'
    BY <1>5, <2>1, <2>4 DEF Serve, DataInv, DataOf
  <2> QED BY <2>2, <2>3, <2>5
<1>6. CASE ReplyData
  <2>1. srv'.at = "number" /\ srv'.from = srv.from /\ srv'.m = srv.m
    BY <1>6 DEF ReplyData
  <2>2. srv.from \in Clients /\ pc[srv.from] = "wait" /\ ~msg_input[srv.from].number
    BY <1>0, <1>6 DEF ReplyData, ServerInv, InOnePlace, Serving
  <2>3. /\ \A d \in CPUs : msg_input'[d].number = msg_input[d].number
        /\ \A d \in CPUs \ {srv.from} : msg_input'[d].data = msg_input[d].data
        /\ msg_input'[srv.from].data = srv.m
    BY <1>0, <1>6, <2>2 DEF ReplyData
  <2>4. ServerInv'
    BY <1>6, <2>1 DEF ReplyData, ServerInv
  <2>5. InOnePlace'
    BY <1>0, <1>6, <2>1, <2>3 DEF ReplyData, InOnePlace, Serving
  <2>6. \A d \in Clients : DataOf(d)'
    BY <1>0, <1>6, <2>2, <2>3 DEF ReplyData, DataInv, DataOf
  <2> QED BY <1>6, <2>1, <2>2, <2>3, <2>4, <2>5, <2>6 DEF ReplyData, DataInv
<1>7. CASE ReplyNumber
  <2>1. srv'.at = "poll" /\ srv'.from = -1
    BY <1>7 DEF ReplyNumber
  <2>2. srv.from \in Clients /\ pc[srv.from] = "wait" /\ srv.from \notin bitmap
    BY <1>0, <1>7 DEF ReplyNumber, ServerInv, InOnePlace, Serving
  <2>3. /\ \A d \in CPUs : msg_input'[d].data = msg_input[d].data
        /\ \A d \in CPUs \ {srv.from} : msg_input'[d].number = msg_input[d].number
        /\ msg_input'[srv.from].number = TRUE
    BY <1>0, <1>7, <2>2 DEF ReplyNumber
  <2>4. ServerInv'
    BY <1>7, <2>1 DEF ReplyNumber, ServerInv
  <2>5. InOnePlace'
    BY <1>0, <1>7, <2>1, <2>2, <2>3 DEF ReplyNumber, InOnePlace, Serving
  <2>6. DataInv'
    BY <1>0, <1>7, <2>1, <2>2, <2>3 DEF ReplyNumber, DataInv, DataOf
  <2> QED BY <2>4, <2>5, <2>6
<1> QED BY <1>1, <1>2, <1>3, <1>4, <1>5, <1>6, <1>7 DEF Server

\* Every step keeps the inductive invariant.
LEMMA NextIInv ==
  ASSUME ncpus <= 31, IInv, [Next]_vars
  PROVE  IInv'
<1>1. CASE UNCHANGED vars
  BY <1>1 DEF IInv, TypeOK, FromInv, Travels, ServerInv, InOnePlace, DataInv, DataOf,
              Serving, vars, client, server
<1>2. CASE Server
  <2>1. TypeOK' /\ FromInv'
    BY <1>2, ServerTypes DEF IInv
  <2>2. raced => raced'
    BY <1>2 DEF Server, Poll, Scan, ClearBitLoad, ClearBitStore, Serve, ReplyData, ReplyNumber
  <2>3. CASE raced' = FALSE
    BY <1>2, <2>1, <2>2, <2>3, ServerStep DEF IInv
  <2>4. CASE raced' = TRUE
    BY <2>1, <2>4 DEF IInv
  <2> QED BY <2>1, <2>3, <2>4 DEF TypeOK
<1>3. ASSUME NEW c \in Clients, Fill(c) \/ Send(c) \/ Receive(c)
      PROVE  IInv'
  <2>1. TypeOK' /\ FromInv'
    <3>1. TypeOK'
      BY <1>3, ClientTypes DEF IInv
    <3>2. srv' = srv
      BY <1>3 DEF Fill, Send, SetBitLoad, SetBitStore, Receive, ReceiveNumber, ReceiveData, server
    <3> QED BY <3>1, <3>2 DEF IInv, FromInv
  <2>2. raced => raced'
    BY <1>3 DEF Fill, Send, SetBitLoad, SetBitStore, Receive, ReceiveNumber, ReceiveData
  <2>3. CASE raced' = FALSE
    BY <1>3, <2>1, <2>2, <2>3, ClientStep DEF IInv
  <2>4. CASE raced' = TRUE
    BY <2>1, <2>4 DEF IInv
  <2> QED BY <2>1, <2>3, <2>4 DEF TypeOK
<1> QED BY <1>1, <1>2, <1>3 DEF Next

\* Message passing is correct up to overlapping updates of the ready bitmap:
\* unless two have overlapped, every request of msg_send is in exactly one place
\* until msg_receive returns, and msg_receive returns its answer.
THEOREM RequestsKept ==
  ASSUME ncpus <= 31
  PROVE  Spec => [](TypeOK /\ InOnePlace /\ AnswersLatest)
<1>1. Init => IInv
  BY InitIInv
<1>2. IInv /\ [Next]_vars => IInv'
  BY NextIInv
<1>3. IInv => TypeOK /\ InOnePlace /\ AnswersLatest
  BY DEF IInv, Travels, InOnePlace, AnswersLatest, DataInv, DataOf
<1> QED BY <1>1, <1>2, <1>3, PTL DEF Spec

\* Unless two updates of the bitmap have overlapped, msg_receive returns the answer
\* to the latest request, and not one that an earlier call left behind.
THEOREM LatestAnswered ==
  ASSUME ncpus <= 31
  PROVE  Spec => []AnswersLatest
<1>1. [](TypeOK /\ InOnePlace /\ AnswersLatest) => []AnswersLatest
  BY PTL
<1> QED BY <1>1, RequestsKept

\* Unless two updates of the bitmap have overlapped, the loop of msg_check finds
\* the bit of a CPU that waits for the server.
THEOREM SenderFound ==
  ASSUME ncpus <= 31
  PROVE  Spec => []FindsSenderUnlessRaced
<1>1. Init => IInv
  BY InitIInv
<1>2. IInv /\ [Next]_vars => IInv'
  BY NextIInv
<1>3. IInv => FindsSenderUnlessRaced
  <2> SUFFICES ASSUME IInv, ~raced PROVE FindsSender
    BY DEF FindsSenderUnlessRaced
  <2>1. srv.from # -1 => srv.from \in Clients
    BY DEF IInv, Travels, ServerInv
  <2>2. ASSUME srv.at = "scan" PROVE srv.i < ncpus
    <3>1. PICK b \in bitmap : srv.i <= b
      BY <2>2 DEF IInv, Travels, ServerInv
    <3>2. b \in 0 .. ncpus - 1
      BY IpcAssumption DEF IInv, Travels, ServerInv
    <3>3. srv.i \in 0 .. ncpus
      BY DEF IInv, TypeOK
    <3> QED BY <3>1, <3>2, <3>3, IpcAssumption
  <2> QED BY <2>1, <2>2 DEF FindsSender
<1> QED BY <1>1, <1>2, <1>3, PTL DEF Spec
=============================================================================
