-------------------------------- MODULE Ipc --------------------------------
(***************************************************************************)
(* Message passing between programs and one server, lib/ipc.c, at the      *)
(* grain of memory accesses.  A program fills its outbox, sets its bit in  *)
(* the server's ready bitmap and polls its inbox; the server polls the     *)
(* bitmap, looks for a bit, clears it, reads the outbox and fills the      *)
(* inbox.                                                                  *)
(*                                                                         *)
(* The updates of the bitmap (lib/bitmap.c) are plain |= and &= on memory  *)
(* shared by all CPUs: a load and a store, with steps of other CPUs in     *)
(* between.  A 64-bit word is the set of its one bits.                     *)
(***************************************************************************)
EXTENDS Integers

CONSTANTS
  Clients,   \* CPUs that send to this server
  ncpus,     \* number of CPUs; the server scans bits 0 .. ncpus-1
  MaxSends   \* bound: requests sent by one program

ASSUME IpcAssumption ==
  /\ ncpus \in Nat /\ ncpus <= 255
  /\ Clients \subseteq 0 .. ncpus - 1
  /\ MaxSends \in Nat

VARIABLES
  bitmap,      \* msg_ready_bitmap[server]
  msg_output,  \* outbox of a program: the request, a number
  msg_input,   \* its inbox for the server: [number, data]
  pc, reg,     \* program: where it is, and the word that set_bit has loaded
  sent, got,   \* last request sent and last answer read
  srv,         \* server: [at, i, from, m]
  word,        \* the word that clear_bit has loaded
  raced        \* ghost: some store to the bitmap came from an outdated load

client == <<msg_output, pc, reg, sent, got>>
server == <<srv, word>>
vars == <<bitmap, msg_input, client, server, raced>>
-----------------------------------------------------------------------------
(* lib/bitmap.c.  1 << bit is an int: on this processor the count is taken  *)
(* modulo 32, and 1 << 31 is negative and sign-extends to 64 bits.          *)

OneShifted(bit) == IF bit % 32 = 31 THEN 31 .. 63 ELSE {bit % 32}

set_bit(w, bit) == w \union OneShifted(bit)
clear_bit(w, bit) == w \ OneShifted(bit)

\* The value returned is an int: bits 0 .. 31 of the shifted word.
check_bit(w, bit) ==
  {k \in 0 .. 31 : k + (bit % 64) \in w \intersect OneShifted(bit)}
-----------------------------------------------------------------------------
(* msg_send and msg_receive *)

Fill(c) ==
  /\ pc[c] = "run" /\ sent[c] < MaxSends
  /\ sent' = [sent EXCEPT ![c] = @ + 1]
  /\ msg_output' = [msg_output EXCEPT ![c] = sent[c] + 1]
  /\ pc' = [pc EXCEPT ![c] = "load"]
  /\ UNCHANGED <<bitmap, msg_input, reg, got, server, raced>>

SetBitLoad(c) ==
  /\ pc[c] = "load"
  /\ reg' = [reg EXCEPT ![c] = bitmap]
  /\ pc' = [pc EXCEPT ![c] = "store"]
  /\ UNCHANGED <<bitmap, msg_input, msg_output, sent, got, server, raced>>

SetBitStore(c) ==
  /\ pc[c] = "store"
  /\ bitmap' = set_bit(reg[c], c)
  /\ raced' = (raced \/ reg[c] # bitmap)
  /\ reg' = [reg EXCEPT ![c] = {}]
  /\ pc' = [pc EXCEPT ![c] = "wait"]
  /\ UNCHANGED <<msg_input, msg_output, sent, got, server>>

\* Mutant: the box is not emptied.
ReceiveNumberKeeps(c) ==
  /\ pc[c] = "wait" /\ msg_input[c].number
  /\ pc' = [pc EXCEPT ![c] = "read"]
  /\ UNCHANGED <<bitmap, msg_input, msg_output, reg, sent, got, server, raced>>

\* The box is emptied first and its data read afterwards.
ReceiveNumber(c) ==
  /\ pc[c] = "wait" /\ msg_input[c].number
  /\ msg_input' = [msg_input EXCEPT ![c].number = FALSE]
  /\ pc' = [pc EXCEPT ![c] = "read"]
  /\ UNCHANGED <<bitmap, msg_output, reg, sent, got, server, raced>>

ReceiveData(c) ==
  /\ pc[c] = "read"
  /\ got' = [got EXCEPT ![c] = msg_input[c].data]
  /\ pc' = [pc EXCEPT ![c] = "run"]
  /\ UNCHANGED <<bitmap, msg_input, msg_output, reg, sent, server, raced>>

Send(c) == SetBitLoad(c) \/ SetBitStore(c)
Receive(c) == ReceiveNumber(c) \/ ReceiveData(c)
-----------------------------------------------------------------------------
(* msg_check and msg_reply *)

others == <<msg_output, pc, reg, sent, got>>

Poll ==
  /\ srv.at = "poll" /\ bitmap # {}
  /\ srv' = [srv EXCEPT !.at = "scan", !.i = 0]
  /\ UNCHANGED <<bitmap, msg_input, word, others, raced>>

\* Mutant: the bit of the next CPU is looked at.
ScanShifted ==
  /\ srv.at = "scan" /\ srv.i < ncpus
  /\ srv' = IF check_bit(bitmap, srv.i + 1) = {0}
            THEN [srv EXCEPT !.at = "load", !.i = 0, !.from = srv.i]
            ELSE [srv EXCEPT !.i = @ + 1]
  /\ UNCHANGED <<bitmap, msg_input, word, others, raced>>

\* One turn of the for loop; `from' stays -1 when the loop runs out.
Scan ==
  /\ srv.at = "scan" /\ srv.i < ncpus
  /\ srv' = IF check_bit(bitmap, srv.i) = {0}
            THEN [srv EXCEPT !.at = "load", !.i = 0, !.from = srv.i]
            ELSE [srv EXCEPT !.i = @ + 1]
  /\ UNCHANGED <<bitmap, msg_input, word, others, raced>>

ClearBitLoad ==
  /\ srv.at = "load"
  /\ word' = bitmap
  /\ srv' = [srv EXCEPT !.at = "store"]
  /\ UNCHANGED <<bitmap, msg_input, others, raced>>

\* Mutant: the bit stays set.
ClearBitKeeps ==
  /\ srv.at = "store"
  /\ word' = {}
  /\ srv' = [srv EXCEPT !.at = "serve"]
  /\ UNCHANGED <<bitmap, msg_input, others, raced>>

ClearBitStore ==
  /\ srv.at = "store"
  /\ bitmap' = clear_bit(word, srv.from)
  /\ raced' = (raced \/ word # bitmap)
  /\ word' = {}
  /\ srv' = [srv EXCEPT !.at = "serve"]
  /\ UNCHANGED <<msg_input, others>>

\* The request is executed: its answer is its number.
Serve ==
  /\ srv.at = "serve"
  /\ srv' = [srv EXCEPT !.at = "data", !.m = msg_output[srv.from]]
  /\ UNCHANGED <<bitmap, msg_input, word, others, raced>>

ReplyData ==
  /\ srv.at = "data"
  /\ msg_input' = [msg_input EXCEPT ![srv.from].data = srv.m]
  /\ srv' = [srv EXCEPT !.at = "number"]
  /\ UNCHANGED <<bitmap, word, others, raced>>

\* Mutant: the reply is never made visible.
ReplyNumberNever ==
  /\ srv.at = "number"
  /\ srv' = [srv EXCEPT !.at = "poll", !.from = -1, !.m = 0]
  /\ UNCHANGED <<bitmap, msg_input, word, others, raced>>

ReplyNumber ==
  /\ srv.at = "number"
  /\ msg_input' = [msg_input EXCEPT ![srv.from].number = TRUE]
  /\ srv' = [srv EXCEPT !.at = "poll", !.from = -1, !.m = 0]
  /\ UNCHANGED <<bitmap, word, others, raced>>

Server == Poll \/ Scan \/ ClearBitLoad \/ ClearBitStore \/ Serve \/ ReplyData \/ ReplyNumber
-----------------------------------------------------------------------------
CPUs == 0 .. ncpus - 1

Init ==
  /\ bitmap = {}
  /\ msg_output = [c \in CPUs |-> 0]
  /\ msg_input = [c \in CPUs |-> [number |-> FALSE, data |-> 0]]
  /\ pc = [c \in Clients |-> "run"]
  /\ reg = [c \in Clients |-> {}]
  /\ sent = [c \in Clients |-> 0]
  /\ got = [c \in Clients |-> 0]
  /\ srv = [at |-> "poll", i |-> 0, from |-> -1, m |-> 0]
  /\ word = {}
  /\ raced = FALSE

Next == Server \/ \E c \in Clients : Fill(c) \/ Send(c) \/ Receive(c)

\* Every CPU keeps executing; only whether to send at all is a program's choice.
Fairness ==
  /\ WF_vars(Server)
  /\ \A c \in Clients : WF_vars(Send(c)) /\ WF_vars(Receive(c))

Spec == Init /\ [][Next]_vars /\ Fairness
-----------------------------------------------------------------------------
TypeOK ==
  /\ bitmap \in SUBSET (0 .. 63) /\ word \in SUBSET (0 .. 63)
  /\ msg_output \in [CPUs -> Nat]
  /\ msg_input \in [CPUs -> [number : BOOLEAN, data : Nat]]
  /\ pc \in [Clients -> {"run", "load", "store", "wait", "read"}]
  /\ reg \in [Clients -> SUBSET (0 .. 63)]
  /\ sent \in [Clients -> Nat] /\ got \in [Clients -> Nat]
  /\ srv \in [at : {"poll", "scan", "load", "store", "serve", "data", "number"},
              i : 0 .. ncpus, from : CPUs \union {-1}, m : Nat]
  /\ raced \in BOOLEAN

\* The server is working on the request of c.
Serving(c) == srv.from = c /\ srv.at # "poll" /\ srv.at # "scan"

\* Unless two updates of the bitmap have overlapped, a request is in exactly one
\* place from msg_send to msg_receive: its bit is set, the server has it, or the
\* answer is in the box.  None is lost and none is served twice.
InOnePlace ==
  ~raced => \A c \in Clients :
    LET bit == c \in bitmap /\ ~Serving(c)
        box == msg_input[c].number
    IN IF pc[c] = "wait"
       THEN /\ bit \/ Serving(c) \/ box
            /\ ~(bit /\ box) /\ ~(Serving(c) /\ box)
       ELSE ~bit /\ ~Serving(c) /\ ~box

\* Unless two updates of the bitmap have overlapped, msg_receive returns the
\* answer to the request just sent, complete.
AnswersLatest ==
  ~raced => \A c \in Clients : pc[c] = "run" => got[c] = sent[c]

\* msg_check returns the message of a CPU that has one: a bit is found before
\* the loop runs out ("If it is set the 'from' variable and exit the loop",
\* lib/ipc.c:110), and it is the bit of a CPU that waits for this server.
FindsSender ==
  /\ srv.at = "scan" => srv.i < ncpus
  /\ srv.from # -1 => srv.from \in Clients

\* Unless two updates of the bitmap have overlapped, msg_check finds a sender.
FindsSenderUnlessRaced == raced \/ FindsSender

\* The server answers every request: "After receiving the message (using
\* msg_check()) and executing the request, it replies to the message"
\* (lib/ipc.c:160).
EveryRequestAnswered ==
  \A c \in Clients : pc[c] = "wait" ~> pc[c] = "run"

\* Unless two updates of the bitmap overlap, every request is answered.
AnsweredUnlessRaced == <>raced \/ EveryRequestAnswered
=============================================================================
