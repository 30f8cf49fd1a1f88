------------------------------- MODULE Thread -------------------------------
(***************************************************************************)
(* User-level threads (lib/thread/thread.c) of one virtual machine against *)
(* the interrupt of its local APIC timer (lib/timer.c).                    *)
(*                                                                         *)
(* The calls of the library run between cli and sti and are atomic.  The   *)
(* handler is not: popfq gives the next thread its RFLAGS, with interrupts *)
(* enabled, before the other registers are restored.  The APIC holds the   *)
(* next interrupt back until the EOI, so the handler is cut there: from    *)
(* the EOI to retq the CPU is in "restore", on the stack of the next       *)
(* thread, and a new frame is pushed over the one it restores from.        *)
(*                                                                         *)
(* The registers of a thread are abstracted to the name of their owner.    *)
(***************************************************************************)
EXTENDS Naturals

CONSTANTS
  Threads,       \* every thread_t of the program
  main_thread,   \* the one that thread_init makes of the caller
  NULL

VARIABLES
  head, last, current,   \* pointers to thread_t
  nxt,                   \* field of thread_t
  regs,                  \* the frame that field regs points to: [resume, rax]
  cpu,                   \* [at, rax]: where the CPU is and what is in rax
  timer,                 \* does the timer count?
  irr,                   \* is a timer interrupt pending in the APIC?
  nested                 \* ghost: threads interrupted between EOI and retq

list == <<head, last, current, nxt>>
threadVars == <<list, regs, cpu, timer, irr, nested>>

EOI == "0xFEE000B0"   \* rax while the handler sends the EOI

\* init_timer and the other registers are set up before any thread exists.
ThreadInit ==
  /\ head = NULL /\ last = NULL /\ current = NULL
  /\ nxt = [t \in Threads |-> NULL]
  /\ regs = [t \in Threads |-> [resume |-> "user", rax |-> t]]
  /\ cpu = [at |-> "user", rax |-> main_thread]
  /\ timer = FALSE /\ irr = FALSE
  /\ nested = {}

thread_init ==
  /\ cpu.at = "user" /\ head = NULL
  /\ nxt' = [nxt EXCEPT ![main_thread] = NULL]
  /\ current' = main_thread /\ head' = main_thread /\ last' = main_thread
  /\ timer' = TRUE
  /\ UNCHANGED <<regs, cpu, irr, nested>>

\* thread_create, thread_set_scheduler and thread_set_timer_freq panic if the
\* library is not initialised.
Uninitialized ==
  /\ cpu.at = "user" /\ head = NULL
  /\ cpu' = [cpu EXCEPT !.at = "panic"]
  /\ UNCHANGED <<list, regs, timer, irr, nested>>

\* A thread_t is handed to thread_create once.
Linked(t) == t = head \/ \E p \in Threads : nxt[p] = t

thread_create(t) ==
  /\ cpu.at = "user" /\ head # NULL /\ ~Linked(t)
  /\ regs' = [regs EXCEPT ![t] = [resume |-> "user", rax |-> t]]
  /\ nxt' = [nxt EXCEPT ![t] = NULL, ![last] = t]
  /\ last' = t
  /\ UNCHANGED <<head, current, cpu, timer, irr, nested>>

\* timer_off, init_timer, timer_on: between cli and sti the timer is off; an
\* interrupt that is already pending stays so.  thread_set_scheduler changes
\* the scheduler only, and both schedulers of the sources choose alike.
thread_set_timer_freq ==
  /\ cpu.at = "user" /\ head # NULL
  /\ timer' = TRUE
  /\ UNCHANGED <<list, regs, cpu, irr, nested>>

\* The counter of the timer reaches zero; it is in periodic mode.
Tick ==
  /\ timer
  /\ irr' = TRUE
  /\ UNCHANGED <<list, regs, cpu, timer, nested>>

\* Mutant: the search does not start over at the end of the list.
scheduler_stays == IF nxt[current] # NULL THEN nxt[current] ELSE current

\* default_scheduler, and my_scheduler of bin/login.c.
scheduler == IF nxt[current] # NULL THEN nxt[current] ELSE head

\* With one thread the handler only sends the EOI.
HandlerReturns ==
  /\ irr /\ cpu.at \in {"user", "restore"}
  /\ head = last
  /\ irr' = FALSE
  /\ UNCHANGED <<list, regs, cpu, timer, nested>>

\* Mutant: the scheduler, which moves current, is called before the registers
\* are saved.
thread_switch_late ==
  /\ irr /\ cpu.at \in {"user", "restore"}
  /\ head # last
  /\ irr' = FALSE
  /\ regs' = [regs EXCEPT ![scheduler] = [resume |-> cpu.at, rax |-> cpu.rax]]
  /\ nested' = IF cpu.at = "restore" THEN nested \union {current} ELSE nested
  /\ current' = scheduler
  /\ cpu' = [at |-> "restore", rax |-> EOI]
  /\ UNCHANGED <<head, last, nxt, timer>>

\* thread_switch_handler up to the EOI: the frame on the stack of the current
\* thread is what it will be restored from.
thread_switch_handler ==
  /\ irr /\ cpu.at \in {"user", "restore"}
  /\ head # last
  /\ irr' = FALSE
  /\ regs' = [regs EXCEPT ![current] = [resume |-> cpu.at, rax |-> cpu.rax]]
  /\ nested' = IF cpu.at = "restore" THEN nested \union {current} ELSE nested
  /\ current' = scheduler
  /\ cpu' = [at |-> "restore", rax |-> EOI]
  /\ UNCHANGED <<head, last, nxt, timer>>

\* After the EOI: the last registers, and retq.  A thread that was interrupted
\* here goes through its restore again, now from the frame pushed meanwhile.
Restore ==
  /\ cpu.at = "restore"
  /\ cpu' = [at |-> regs[current].resume, rax |-> regs[current].rax]
  /\ regs' = [regs EXCEPT ![current].resume = "user"]
  /\ UNCHANGED <<list, timer, irr, nested>>

Handler == HandlerReturns \/ thread_switch_handler \/ Restore

ThreadNext ==
  \/ thread_init \/ Uninitialized \/ thread_set_timer_freq
  \/ \E t \in Threads : thread_create(t)
  \/ Tick \/ Handler

\* The timer is periodic, and interrupts are enabled outside the library.
ThreadFairness == WF_threadVars(Tick) /\ WF_threadVars(thread_switch_handler) /\ WF_threadVars(Restore)

ThreadSpec == ThreadInit /\ [][ThreadNext]_threadVars /\ ThreadFairness
-----------------------------------------------------------------------------
Places == {"user", "restore", "panic"}
ThreadTypeOK ==
  /\ head \in {NULL, main_thread}
  /\ last \in Threads \union {NULL} /\ current \in Threads \union {NULL}
  /\ NULL \in {last, current} => head = NULL
  /\ nxt \in [Threads -> Threads \union {NULL}]
  /\ regs \in [Threads -> [resume : {"user", "restore"}, rax : Threads \union {EOI}]]
  /\ cpu \in [at : Places, rax : Threads \union {EOI}]
  /\ timer \in BOOLEAN /\ irr \in BOOLEAN
  /\ nested \subseteq Threads

\* The thread list, which the handler walks at every tick, is a single chain from
\* head to last: every thread on it is reached from head and only once, only the
\* last one has no successor, and the current thread is on it.
ReachedFrom(h) ==
  {t \in Threads :
     \A S \in SUBSET Threads :
       h \in S /\ (\A s \in S : nxt[s] # NULL => nxt[s] \in S) => t \in S}
ListOK ==
  head # NULL =>
    /\ Linked(last) /\ Linked(current)
    /\ \A t \in Threads : Linked(t) => (nxt[t] = NULL <=> t = last) /\ t \in ReachedFrom(head)
    /\ \A t \in Threads : nxt[t] # head
    /\ \A s, t \in Threads : nxt[s] = nxt[t] /\ nxt[s] # NULL => s = t
    /\ \A t \in Threads : ~Linked(t) => nxt[t] = NULL

\* A thread goes on with the registers it was interrupted with, unless a tick came
\* while the handler was restoring them with interrupts already enabled.
RegistersKeptUnlessNested ==
  /\ cpu.at = "user" /\ current # NULL /\ current \notin nested => cpu.rax = current
  /\ \A t \in Threads :
       t \notin nested /\ t # current => regs[t] = [resume |-> "user", rax |-> t]

\* The list is whole, and so is every thread on it.
ThreadsOK == ListOK /\ RegistersKeptUnlessNested

\* Round robin: every thread that has been created is given the CPU again and
\* again, whenever the others are created.
Created(t) == head # NULL /\ Linked(t)
-----------------------------------------------------------------------------
(***************************************************************************)
(* The inductive invariant adds to these two properties that nothing has   *)
(* happened before thread_init (Fresh), and that the frame from which the  *)
(* CPU restores the current thread is the one it was interrupted with, as  *)
(* long as no tick came between the EOI and retq (Restoring).              *)
(***************************************************************************)
Frames == [resume : {"user", "restore"}, rax : Threads \union {EOI}]
Own(t) == [resume |-> "user", rax |-> t]

\* Before thread_init there is no list, and the timer does not count.
Fresh ==
  head = NULL => /\ last = NULL /\ current = NULL /\ cpu.at # "restore"
                 /\ \A t \in Threads : nxt[t] = NULL

\* The frame of the thread that is being restored.
Restoring == cpu.at = "restore" /\ current \notin nested => regs[current] = Own(current)

\* Before thread_init the CPU has the registers of the main thread.
Main == head = NULL => cpu.rax = main_thread /\ \A t \in Threads : regs[t] = Own(t)

ThreadInv == ThreadTypeOK /\ Fresh /\ Main /\ Restoring /\ ListOK /\ RegistersKeptUnlessNested

\* What the proofs need of the constants.
ThreadNames == main_thread \in Threads /\ NULL \notin Threads
=============================================================================
