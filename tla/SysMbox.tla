------------------------------ MODULE SysMbox ------------------------------
(***************************************************************************)
(* The mailboxes, semaphores and the critical region of lwIP's port,       *)
(* sys_arch.c.  The port keeps this code for a system with threads and     *)
(* disables it (#if 0): with NO_SYS it is not part of this build.          *)
(*                                                                         *)
(* A semaphore is binary: its count is raised to at most 1, and a signal   *)
(* wakes everybody who waits.  A mailbox is a ring of SYS_MBOX_SIZE        *)
(* places, one of which stays empty, with one semaphore for "not empty",   *)
(* one for "not full" and one that is its lock.  What is done between      *)
(* taking and signalling the lock is one step: only the holder touches the *)
(* mailbox, and the semaphores signalled meanwhile are of use only to a    *)
(* thread that takes the lock next.                                        *)
(***************************************************************************)
EXTENDS Integers, Sequences, FiniteSets

CONSTANTS Senders, Readers, \* the threads that post and those that fetch
          SYS_MBOX_SIZE,
          NoThread,         \* 0xDEAD
          Timed,            \* a fetch may have a timeout
          MaxMsgs,          \* messages posted in all
          MaxNest           \* nested critical regions of a thread

Threads == Senders \union Readers

VARIABLES msgs,       \* the messages from first to last
          wait_send,
          not_empty, not_full,   \* the counts of the two semaphores
          at,         \* where a thread stands in its call
          msg,        \* the message a thread posts
          posted,     \* the messages in the order of their posting
          fetched,    \* the messages in the order of their fetching
          lwprot_thread, lwprot_count,
          depth       \* how many critical regions a thread is in

vars == <<msgs, wait_send, not_empty, not_full, at, msg, posted, fetched,
          lwprot_thread, lwprot_count, depth>>
mbox == <<msgs, wait_send, not_empty, not_full, at, msg, posted, fetched>>
region == <<lwprot_thread, lwprot_count, depth>>

Places == {"idle", "post", "woken_post", "fetch", "timed_fetch", "woken_fetch", "woken_timed"}

Init ==
  /\ msgs = <<>> /\ wait_send = 0 /\ not_empty = 0 /\ not_full = 0
  /\ at = [t \in Threads |-> "idle"]
  /\ msg = [t \in Threads |-> 0]
  /\ posted = <<>> /\ fetched = <<>>
  /\ lwprot_thread = NoThread /\ lwprot_count = 0
  /\ depth = [t \in Threads |-> 0]

----------------------------------------------------------------------------
(* Posting *)

Full == Len(msgs) + 1 >= SYS_MBOX_SIZE
NextMsg == Len(posted) + Cardinality({t \in Senders : at[t] \in {"post", "woken_post"}}) + 1

Put(m) ==
  /\ msgs' = Append(msgs, m)
  /\ posted' = Append(posted, m)
  /\ not_empty' = IF msgs = <<>> THEN 1 ELSE not_empty

sys_mbox_trypost(t) ==
  /\ at[t] = "idle"
  /\ NextMsg <= MaxMsgs
  /\ IF Full THEN UNCHANGED <<msgs, posted, not_empty>> ELSE Put(NextMsg)
  /\ UNCHANGED <<wait_send, not_full, at, msg, fetched, region>>

sys_mbox_post(t) ==
  /\ at[t] = "idle"
  /\ NextMsg <= MaxMsgs
  /\ \/ /\ Full
        /\ wait_send' = wait_send + 1
        /\ at' = [at EXCEPT ![t] = "post"]
        /\ msg' = [msg EXCEPT ![t] = NextMsg]
        /\ UNCHANGED <<msgs, posted, not_empty>>
     \/ /\ ~Full
        /\ Put(NextMsg)
        /\ UNCHANGED <<wait_send, at, msg>>
  /\ UNCHANGED <<not_full, fetched, region>>

NotFull(t) ==
  /\ at[t] = "post" /\ not_full = 1
  /\ not_full' = 0
  /\ at' = [at EXCEPT ![t] = "woken_post"]
  /\ UNCHANGED <<msgs, wait_send, not_empty, msg, posted, fetched, region>>

RetryPost(t) ==
  /\ at[t] = "woken_post"
  /\ \/ /\ Full
        /\ at' = [at EXCEPT ![t] = "post"]
        /\ UNCHANGED <<msgs, posted, not_empty, wait_send, msg>>
     \/ /\ ~Full
        /\ Put(msg[t])
        /\ wait_send' = wait_send - 1
        /\ at' = [at EXCEPT ![t] = "idle"]
        /\ msg' = [msg EXCEPT ![t] = 0]
  /\ UNCHANGED <<not_full, fetched, region>>

----------------------------------------------------------------------------
(* Fetching *)

Take ==
  /\ msgs' = Tail(msgs)
  /\ fetched' = Append(fetched, Head(msgs))
  /\ not_full' = IF wait_send > 0 THEN 1 ELSE not_full

sys_arch_mbox_tryfetch(t) ==
  /\ at[t] = "idle"
  /\ msgs # <<>>
  /\ Take
  /\ UNCHANGED <<wait_send, not_empty, at, msg, posted, region>>

sys_arch_mbox_fetch(t, timeout) ==
  /\ at[t] = "idle"
  /\ \/ /\ msgs = <<>>
        /\ at' = [at EXCEPT ![t] = IF timeout THEN "timed_fetch" ELSE "fetch"]
        /\ UNCHANGED <<msgs, fetched, not_full>>
     \/ /\ msgs # <<>>
        /\ Take
        /\ UNCHANGED at
  /\ UNCHANGED <<wait_send, not_empty, msg, posted, region>>

\* sys_arch_sem_wait on not_empty
NotEmpty(t) ==
  /\ at[t] \in {"fetch", "timed_fetch"} /\ not_empty = 1
  /\ not_empty' = 0
  /\ at' = [at EXCEPT ![t] = IF @ = "fetch" THEN "woken_fetch" ELSE "woken_timed"]
  /\ UNCHANGED <<msgs, wait_send, not_full, msg, posted, fetched, region>>

\* SYS_ARCH_TIMEOUT: returned without another look at the count
TimedOut(t) ==
  /\ at[t] = "timed_fetch"
  /\ at' = [at EXCEPT ![t] = "idle"]
  /\ UNCHANGED <<msgs, wait_send, not_empty, not_full, msg, posted, fetched, region>>

RetryFetch(t) ==
  /\ at[t] \in {"woken_fetch", "woken_timed"}
  /\ \/ /\ msgs = <<>>
        /\ at' = [at EXCEPT ![t] = IF @ = "woken_fetch" THEN "fetch" ELSE "timed_fetch"]
        /\ UNCHANGED <<msgs, fetched, not_full>>
     \/ /\ msgs # <<>>
        /\ Take
        /\ at' = [at EXCEPT ![t] = "idle"]
  /\ UNCHANGED <<wait_send, not_empty, msg, posted, region>>

----------------------------------------------------------------------------
(* The critical region, which a thread may enter again.  lwprot_thread is   *)
(* read without the lock: it equals the caller only if the caller has it.   *)

sys_arch_protect(t) ==
  /\ depth[t] < MaxNest
  /\ \/ /\ lwprot_thread # t
        /\ lwprot_thread = NoThread    \* pthread_mutex_lock
        /\ lwprot_thread' = t /\ lwprot_count' = 1
     \/ /\ lwprot_thread = t
        /\ lwprot_count' = lwprot_count + 1
        /\ UNCHANGED lwprot_thread
  /\ depth' = [depth EXCEPT ![t] = @ + 1]
  /\ UNCHANGED mbox

sys_arch_unprotect(t) ==
  /\ depth[t] > 0
  /\ lwprot_thread = t
  /\ lwprot_count' = lwprot_count - 1
  /\ lwprot_thread' = IF lwprot_count = 1 THEN NoThread ELSE t
  /\ depth' = [depth EXCEPT ![t] = @ - 1]
  /\ UNCHANGED mbox

----------------------------------------------------------------------------

\* what a thread does once it is in a call
Goes(t) == NotFull(t) \/ RetryPost(t) \/ NotEmpty(t) \/ TimedOut(t) \/ RetryFetch(t)

\* no thread calls the mailbox from inside the critical region
Calls(t) ==
  /\ depth[t] = 0
  /\ \/ t \in Senders /\ (sys_mbox_trypost(t) \/ sys_mbox_post(t))
     \/ /\ t \in Readers
        /\ \/ sys_arch_mbox_tryfetch(t) \/ sys_arch_mbox_fetch(t, FALSE)
           \/ Timed /\ sys_arch_mbox_fetch(t, TRUE)

Region(t) == at[t] = "idle" /\ (sys_arch_protect(t) \/ sys_arch_unprotect(t))

Next == \E t \in Threads : Goes(t) \/ Calls(t) \/ Region(t)

\* every thread runs, and the readers come back to fetching again and again (the
\* loop of tcpip_thread)
Fairness ==
  /\ WF_vars(\E t \in Threads : sys_arch_unprotect(t))
  /\ \A t \in Threads :
       /\ WF_vars(NotFull(t) \/ RetryPost(t))
       /\ WF_vars(NotEmpty(t) \/ RetryFetch(t))
       /\ (t \in Readers) => SF_vars(depth[t] = 0 /\ sys_arch_mbox_fetch(t, FALSE))

Spec == Init /\ [][Next]_vars /\ Fairness

----------------------------------------------------------------------------

TypeOK ==
  /\ msgs \in Seq(1..MaxMsgs)
  /\ wait_send \in 0..Cardinality(Senders)
  /\ not_empty \in 0..1 /\ not_full \in 0..1
  /\ at \in [Threads -> Places]
  /\ lwprot_thread \in Threads \union {NoThread}
  /\ depth \in [Threads -> 0..MaxNest]

\* What was posted is fetched in the order of posting, nothing is lost or
\* fetched twice, whatever the threads do (sys_mbox_post, sys_arch_mbox_fetch).
InOrder == posted = fetched \o msgs

\* A reader that sleeps beside a message has its wake-up on the way: the
\* semaphore is signalled, or another reader is about to look.  With one reader
\* this is so always; with two, the semaphore is signalled only for the first of
\* two messages, and the second reader sleeps on (sys_arch.c:227, 258-268).
WakesUp(t) == not_empty = 1 \/ \E u \in Readers \ {t} : at[u] \in {"woken_fetch", "woken_timed"}
NoSleepBesideMessage ==
  Cardinality(Readers) = 1 =>
    \A t \in Readers : (at[t] \in {"fetch", "timed_fetch"} /\ msgs # <<>>) => WakesUp(t)

\* wait_send counts exactly the senders inside the loop of sys_mbox_post, so a
\* fetch signals "not full" whenever somebody waits for it.
WaitersCounted ==
  wait_send = Cardinality({t \in Senders : at[t] \in {"post", "woken_post"}})

\* Only one thread is in the critical region, however deep it has nested it, and
\* leaving an inner region does not end the outer one (sys_arch_unprotect).
OneInRegion ==
  \A t \in Threads : depth[t] > 0 => (lwprot_thread = t /\ lwprot_count = depth[t])

\* A post that found the mailbox full returns, as long as somebody fetches.
PostWaits == \E t \in Senders : at[t] = "post"
NoPostWaits == ~PostWaits
=============================================================================
