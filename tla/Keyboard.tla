------------------------------ MODULE Keyboard ------------------------------
(***************************************************************************)
(* The keyboard driver: main (drivers/keyboard/main.c), the wait for keys  *)
(* and the interrupt handler (drivers/keyboard/keyboard.c).                *)
(*                                                                         *)
(* Interrupts are off but for the wait.  There `sti;hlt' turns them on,    *)
(* and they stay on through the test of bufpos, its reset and the return,  *)
(* up to the cli in main; the handler may run between any two of these.    *)
(*                                                                         *)
(* A key is its number in the order of typing, together with the modifiers *)
(* that select the column of keymap.  The controller keeps the scan codes  *)
(* that have not been read.                                                *)
(***************************************************************************)
EXTENDS Naturals, Sequences

CONSTANTS
  Programs,    \* programs with a channel to the driver
  Counts,      \* sizes of the requests
  MaxEvents,   \* bound: scan codes in all
  MaxReads     \* bound: requests in all

VARIABLES
  request,    \* request[c]: req.count in the channel of c if ready_send, else 0
  data,       \* data[c]: the bytes of the channel of c
  drv,        \* the driver: [at, from, count]
  bufpos,     \* next byte of the buffer
  intr,       \* are interrupts enabled?
  shift,      \* shift_pressed
  codes,      \* scan codes in the controller
  typed,      \* ghost: the keys typed so far
  given,      \* ghost: the keys given to programs so far
  late,       \* ghost: a key came when the request was already complete
  missed,     \* ghost: an interrupt came between the test and hlt
  reads       \* requests left

kbdVars == <<request, data, drv, bufpos, intr, shift, codes, typed, given, late, missed, reads>>
ghosts == <<typed, given, late, missed>>

\* The bytes of a channel before any key is written; 0 is what the request left there.
Request == [i \in 0 .. MaxEvents |-> 0]

\* The first count bytes, which the program copies.
Answer == [i \in 1 .. drv.count |-> data[drv.from][i - 1]]

Scanning == [at |-> "scan", from |-> CHOOSE c \in Programs : TRUE, count |-> 0]

\* read_char of a program: the count overwrites the beginning of the data.
read_char(c, n) ==
  /\ reads > 0 /\ request[c] = 0 /\ (drv.at # "scan" => drv.from # c)
  /\ reads' = reads - 1
  /\ request' = [request EXCEPT ![c] = n]
  /\ data' = [data EXCEPT ![c] = Request]
  /\ UNCHANGED <<drv, bufpos, intr, shift, codes, ghosts>>

Codes == {"key", "shift", "unshift", "release"}

\* The controller gets a scan code: a key, or shift pressed or released.  Releases
\* and prefixes only cause an interrupt.
Type(code) ==
  /\ Len(typed) + Len(codes) < MaxEvents
  /\ codes' = Append(codes, code)
  /\ UNCHANGED <<request, data, drv, bufpos, intr, shift, ghosts, reads>>
-----------------------------------------------------------------------------
\* cnl_receive_any returns a channel; the wait for its keys begins.
receive(c) ==
  /\ drv.at = "scan" /\ request[c] # 0
  /\ drv' = [at |-> "hlt", from |-> c, count |-> request[c]]
  /\ request' = [request EXCEPT ![c] = 0]
  /\ UNCHANGED <<data, bufpos, intr, shift, codes, ghosts, reads>>

\* sti;hlt
Halt ==
  /\ drv.at = "hlt"
  /\ drv' = [drv EXCEPT !.at = "asleep"]
  /\ intr' = TRUE
  /\ UNCHANGED <<request, data, bufpos, shift, codes, ghosts, reads>>

\* if (bufpos >= count)
Test ==
  /\ drv.at = "test"
  /\ drv' = [drv EXCEPT !.at = IF bufpos >= drv.count THEN "reset" ELSE "hlt"]
  /\ UNCHANGED <<request, data, bufpos, intr, shift, codes, ghosts, reads>>

\* Mutant: bufpos is not set back to 0.
ResetNot ==
  /\ drv.at = "reset"
  /\ drv' = [drv EXCEPT !.at = "cli"]
  /\ UNCHANGED <<request, data, bufpos, intr, shift, codes, ghosts, reads>>

\* bufpos = 0; break
Reset ==
  /\ drv.at = "reset"
  /\ bufpos' = 0
  /\ drv' = [drv EXCEPT !.at = "cli"]
  /\ UNCHANGED <<request, data, intr, shift, codes, ghosts, reads>>

\* Mutant: the driver answers without cli.
ReplyUnmasked ==
  /\ drv.at = "cli"
  /\ given' = given \o Answer
  /\ drv' = Scanning
  /\ UNCHANGED <<request, data, bufpos, intr, shift, codes, typed, late, missed, reads>>

\* cli, cnl_reply: the program copies the first count bytes.
cnl_reply ==
  /\ drv.at = "cli"
  /\ intr' = FALSE
  /\ given' = given \o Answer
  /\ drv' = Scanning
  /\ UNCHANGED <<request, data, bufpos, shift, codes, typed, late, missed, reads>>

\* kbd_add_buf: buffer[bufpos++] = data
kbd_add_buf(key) ==
  /\ data' = [data EXCEPT ![drv.from][bufpos] = key]
  /\ bufpos' = bufpos + 1

Awake == IF drv.at = "asleep" THEN [drv EXCEPT !.at = "test"] ELSE drv

\* An interrupt can be taken.
Interrupt == intr /\ codes # <<>>

\* kbd_proc_data
kbd_proc_data ==
  /\ Interrupt
  /\ LET code == Head(codes)
         key == (2 * (Len(typed) + 1)) + (IF shift THEN 1 ELSE 0)
     IN \/ /\ code = "shift"
           /\ shift' = TRUE
           /\ UNCHANGED <<data, bufpos, typed, late>>
        \/ /\ code = "unshift"
           /\ shift' = FALSE
           /\ UNCHANGED <<data, bufpos, typed, late>>
        \/ /\ code = "release"
           /\ UNCHANGED <<shift, data, bufpos, typed, late>>
        \/ /\ code = "key"
           /\ kbd_add_buf(key)
           /\ typed' = Append(typed, key)
           /\ late' = (late \/ drv.at = "cli" \/ bufpos >= drv.count)
           /\ UNCHANGED shift
  /\ codes' = Tail(codes)
  /\ missed' = (missed \/ drv.at = "hlt")
  /\ drv' = Awake
  /\ UNCHANGED <<request, intr, given, reads>>

KbdDriver == (\E c \in Programs : receive(c)) \/ Halt \/ Test \/ Reset \/ cnl_reply

KbdInit ==
  /\ request = [c \in Programs |-> 0]
  /\ data = [c \in Programs |-> Request]
  /\ drv = Scanning
  /\ bufpos = 0 /\ intr = FALSE /\ shift = FALSE
  /\ codes = <<>> /\ typed = <<>> /\ given = <<>>
  /\ late = FALSE /\ missed = FALSE
  /\ reads = MaxReads

KbdNext ==
  \/ \E c \in Programs, n \in Counts : read_char(c, n)
  \/ \E code \in Codes : Type(code)
  \/ KbdDriver \/ kbd_proc_data

\* The CPU executes its instructions and takes enabled interrupts.
KbdFairness == WF_kbdVars(KbdDriver) /\ WF_kbdVars(kbd_proc_data)

KbdSpec == KbdInit /\ [][KbdNext]_kbdVars /\ KbdFairness
-----------------------------------------------------------------------------
Keys == 2 .. 2 * MaxEvents + 1

Drivers == [at : {"scan", "hlt", "asleep", "test", "reset", "cli"},
            from : Programs, count : Counts \union {0}]

KbdTypeOK ==
  /\ request \in [Programs -> Counts \union {0}]
  /\ data \in [Programs -> [0 .. MaxEvents -> Keys \union {0}]]
  /\ drv \in Drivers
  /\ bufpos \in 0 .. MaxEvents
  /\ intr \in BOOLEAN /\ shift \in BOOLEAN
  /\ codes \in Seq(Codes) /\ late \in BOOLEAN
  /\ typed \in Seq(Keys) /\ given \in Seq(Keys \union {0})

\* The programs get the keys in the order of typing, each key once and none left
\* out, with the modifiers that were down, unless a key comes in the few
\* instructions in which a complete request is being finished.
KeysInOrderUnlessLate ==
  ~late => /\ Len(given) <= Len(typed)
           /\ given = SubSeq(typed, 1, Len(given))

\* The handler writes only into the channel whose request is being served: never
\* into a page that has been answered, and that its program may have closed.
WritesOnlyServedStep ==
  \A c \in Programs :
    data'[c] # data[c] /\ request'[c] = request[c] => drv.at # "scan" /\ drv.from = c
HandlerWritesOK == [][WritesOnlyServedStep]_kbdVars

\* A request whose keys have all come is answered without another one, unless the
\* last came between the test of bufpos and hlt or a late key was left over.
KeysComplete == drv.at # "scan" /\ bufpos >= drv.count
AnsweredUnless == drv.at = "scan" \/ missed \/ late
-----------------------------------------------------------------------------
(***************************************************************************)
(* The proof that no key is lost, for any programs and requests: the bytes *)
(* written for the request that is being served are exactly the keys typed *)
(* since the last answer (Pending), and the handler runs only while a      *)
(* request is being served (Masked).                                       *)
(***************************************************************************)
Served == {"hlt", "asleep", "test", "reset"}

Masked == intr => drv.at # "scan"

\* What the bounds of the model imply: no byte behind the buffer is written or read.
Bounded ==
  /\ Len(typed) + Len(codes) <= MaxEvents /\ bufpos <= Len(typed)
  /\ drv.at \in {"reset", "cli"} => drv.count <= MaxEvents

\* The first n bytes for the request are the keys that have not been given away.
Holds(n) ==
  /\ Len(typed) = Len(given) + n
  /\ \A i \in 0 .. n - 1 : data[drv.from][i] = typed[Len(given) + 1 + i]

Pending ==
  ~late =>
    /\ \A i \in 1 .. Len(given) : given[i] = typed[i]
    /\ drv.at = "scan" => bufpos = 0 /\ Len(typed) = Len(given)
    /\ drv.at \in Served => bufpos <= drv.count /\ Holds(bufpos)
    /\ drv.at = "reset" => bufpos = drv.count
    /\ drv.at = "cli" => bufpos = 0 /\ Holds(drv.count)

KbdInv == KbdTypeOK /\ Masked /\ Bounded /\ Pending

\* Requests ask for something, and somebody may ask.
KbdConstants == Counts \subseteq Nat \ {0} /\ MaxEvents \in Nat /\ Programs # {}
=============================================================================
