----------------------------- MODULE Semaphore -----------------------------
(***************************************************************************)
(* The counting semaphore of kern/thread/synch.c: P and V over a spinlock  *)
(* (sem_lock) and a wait channel (sem_wchan).                              *)
(*                                                                         *)
(* One step is what a CPU does between two points where another CPU can    *)
(* interfere: spinning for sem_lock, and one critical section under it.    *)
(* wchan_sleep puts the caller on the channel and gives the spinlock up    *)
(* in one critical section; a woken thread takes the spinlock again        *)
(* before it looks at the count.  Interrupt handlers (lhd_irq, con_start,  *)
(* timerclock...) are actors that only ever call V.                        *)
(***************************************************************************)
EXTENDS Naturals, Sequences, FiniteSets, Functions

CONSTANTS Threads,       \* threads, which may call P and V
          Handlers,      \* interrupt handlers, which may call V only
          InitialCount,  \* the argument of sem_create
          UintMax,       \* largest value of "unsigned sem_count"
          NoOne          \* the holder of a free spinlock

ASSUME SemAssumption ==
  /\ UintMax \in Nat \ {0}
  /\ InitialCount \in 0 .. UintMax
  /\ IsFiniteSet(Threads)
  /\ Threads \cap Handlers = {}
  /\ NoOne \notin Threads \cup Handlers

Actors == Threads \cup Handlers

VARIABLES sem_count,     \* the counter
          sem_wchan,     \* the threads sleeping, in arrival order
          sem_lock,      \* the actor holding the spinlock, or NoOne
          pc,            \* where each actor is in P or V
          panicked       \* a KASSERT failed: the machine has stopped

vars == <<sem_count, sem_wchan, sem_lock, pc, panicked>>

(***************************************************************************)
(* "P_spin" and "V_spin": in spinlock_acquire.  "P_test" and "V_post":     *)
(* holding sem_lock.  "asleep": on sem_wchan.  "woken": made runnable      *)
(* again, on the way to retaking sem_lock inside wchan_sleep.              *)
(***************************************************************************)
Labels == {"out", "P_spin", "P_test", "asleep", "woken", "V_spin", "V_post"}

At(a, l) == pc[a] = l
Goto(a, l) == pc' = [pc EXCEPT ![a] = l]

Init ==
  /\ sem_count = InitialCount
  /\ sem_wchan = << >>
  /\ sem_lock = NoOne
  /\ pc = [a \in Actors |-> "out"]
  /\ panicked = FALSE

\* A call of P; the assertion on t_in_interrupt keeps handlers out.
P_call(t) ==
  /\ ~panicked
  /\ t \in Threads
  /\ At(t, "out")
  /\ Goto(t, "P_spin")
  /\ UNCHANGED <<sem_count, sem_wchan, sem_lock, panicked>>

\* spinlock_acquire, at the head of P or at the end of wchan_sleep.
P_lock(t) ==
  /\ ~panicked
  /\ pc[t] \in {"P_spin", "woken"}
  /\ sem_lock = NoOne
  /\ sem_lock' = t
  /\ Goto(t, "P_test")
  /\ UNCHANGED <<sem_count, sem_wchan, panicked>>

\* The count is 0: wchan_sleep queues the thread and releases the spinlock.
P_sleep(t) ==
  /\ ~panicked
  /\ At(t, "P_test")
  /\ sem_count = 0
  /\ sem_wchan' = Append(sem_wchan, t)
  /\ sem_lock' = NoOne
  /\ Goto(t, "asleep")
  /\ UNCHANGED <<sem_count, panicked>>

\* Mutant: a woken thread takes its unit without testing the count again.
P_take_untested(t) ==
  /\ ~panicked
  /\ At(t, "P_test")
  /\ sem_count' = IF sem_count = 0 THEN UintMax ELSE sem_count - 1
  /\ sem_lock' = NoOne
  /\ Goto(t, "out")
  /\ UNCHANGED <<sem_wchan, panicked>>

\* The count is positive: take one, unlock, return.
P_take(t) ==
  /\ ~panicked
  /\ At(t, "P_test")
  /\ sem_count # 0
  /\ sem_count' = sem_count - 1
  /\ sem_lock' = NoOne
  /\ Goto(t, "out")
  /\ UNCHANGED <<sem_wchan, panicked>>

V_call(a) ==
  /\ ~panicked
  /\ At(a, "out")
  /\ Goto(a, "V_spin")
  /\ UNCHANGED <<sem_count, sem_wchan, sem_lock, panicked>>

V_lock(a) ==
  /\ ~panicked
  /\ At(a, "V_spin")
  /\ sem_lock = NoOne
  /\ sem_lock' = a
  /\ Goto(a, "V_post")
  /\ UNCHANGED <<sem_count, sem_wchan, panicked>>

\* The new count, in unsigned arithmetic.
Incremented == (sem_count + 1) % (UintMax + 1)

\* Mutant: V looks for a sleeper only when the count was 0.
WakeOne_fromZero(a) ==
  IF sem_wchan = << >> \/ sem_count > 0
  THEN /\ Goto(a, "out")
       /\ UNCHANGED sem_wchan
  ELSE /\ pc' = [pc EXCEPT ![a] = "out", ![Head(sem_wchan)] = "woken"]
       /\ sem_wchan' = Tail(sem_wchan)

\* wchan_wakeone on behalf of a, which returns from V: the first sleeper, if
\* there is one, leaves the channel and becomes runnable.
WakeOne(a) ==
  IF sem_wchan = << >>
  THEN /\ Goto(a, "out")
       /\ UNCHANGED sem_wchan
  ELSE /\ pc' = [pc EXCEPT ![a] = "out", ![Head(sem_wchan)] = "woken"]
       /\ sem_wchan' = Tail(sem_wchan)

\* Mutant: the count is kept in a wider integer, past UINT_MAX.
V_post_widened(a) ==
  /\ ~panicked
  /\ At(a, "V_post")
  /\ sem_count' = sem_count + 1
  /\ WakeOne(a)
  /\ sem_lock' = NoOne
  /\ UNCHANGED panicked

\* Count up, wake one sleeper, unlock, return.
V_post(a) ==
  /\ ~panicked
  /\ At(a, "V_post")
  /\ Incremented > 0
  /\ sem_count' = Incremented
  /\ WakeOne(a)
  /\ sem_lock' = NoOne
  /\ UNCHANGED panicked

\* The count wrapped to 0: the KASSERT stops the machine, spinlock held.
V_overflow(a) ==
  /\ ~panicked
  /\ At(a, "V_post")
  /\ Incremented = 0
  /\ sem_count' = Incremented
  /\ panicked' = TRUE
  /\ UNCHANGED <<sem_wchan, sem_lock, pc>>

P(t) == P_call(t) \/ P_lock(t) \/ P_sleep(t) \/ P_take(t)
V(a) == V_call(a) \/ V_lock(a) \/ V_post(a) \/ V_overflow(a)

Next == \E a \in Actors : P(a) \/ V(a)

(***************************************************************************)
(* Fairness: a CPU in a critical section goes on, a thread on a run queue  *)
(* is scheduled, and a free spinlock is taken by a CPU that keeps asking.  *)
(* Nobody is obliged to call P or V.                                       *)
(***************************************************************************)
Fairness ==
  \A a \in Actors :
    WF_vars(P_lock(a) \/ P_sleep(a) \/ P_take(a) \/ V_lock(a) \/ V_post(a) \/ V_overflow(a))

Safe == Init /\ [][Next]_vars
Spec == Safe /\ Fairness

----------------------------------------------------------------------------

\* The values the semaphore's state ranges over.
TypeOK ==
  /\ sem_count \in 0 .. UintMax
  /\ sem_wchan \in Seq(Threads)
  /\ sem_lock \in Actors \cup {NoOne}
  /\ pc \in [Actors -> Labels]
  /\ panicked \in BOOLEAN

\* The threads that V made runnable, or that hold sem_lock, and are about to
\* look at the count.
Looking == {t \in Threads : pc[t] \in {"woken", "P_test"}}

\* sem_wchan holds each sleeping thread exactly once and nobody else, so that
\* V wakes a thread that is really asleep and wakes no thread twice.
SleepersQueued ==
  /\ Range(sem_wchan) = {t \in Threads : At(t, "asleep")}
  /\ IsInjective(sem_wchan)

\* No wakeup is lost, although P lets a newcomer barge past the sleepers and V
\* wakes only one thread: while anyone still sleeps, every unit of the count
\* is matched by a thread on its way to look at it.
NoLostWakeup ==
  sem_wchan # << >> /\ ~panicked => sem_count <= Cardinality(Looking)

\* What each actor is doing, as its caller sees it.
Phase(a) ==
  CASE pc[a] \in {"P_spin", "P_test", "asleep", "woken"} -> "wanting"
    [] pc[a] \in {"V_spin", "V_post"} -> "posting"
    [] OTHER -> "out"

\* P and V over spinlock and wait channel behave as the indivisible operations
\* of SemaphoreSpec, and keep its promise that somebody gets in while the
\* count is positive.  A count that wraps is never seen by a caller.
Abs == INSTANCE SemaphoreSpec WITH
         Limit <- UintMax,
         First <- InitialCount,
         value <- IF panicked THEN UintMax ELSE sem_count,
         phase <- [a \in Actors |-> Phase(a)],
         stopped <- panicked

ImplementsSemaphore == Abs!SSpec
=============================================================================
