-------------------------------- MODULE Lock --------------------------------
(***************************************************************************)
(* The sleep lock of kern/thread/synch.c: lock_acquire, lock_release and   *)
(* lock_do_i_hold over a spinlock (lk_spinlock) and a wait channel         *)
(* (lk_wchan).  Steps are split where another CPU can interfere, and also  *)
(* between lock_release's assertion, which reads lk_thread before the      *)
(* spinlock is taken, and the critical section that clears it.             *)
(*                                                                         *)
(* Callers are arbitrary: a thread may release a lock it does not hold     *)
(* (the assertion stops the machine), and the threads of Reentrant may     *)
(* ask for a lock they already hold (nothing in lock_acquire objects).     *)
(***************************************************************************)
EXTENDS Naturals, Sequences, Functions

CONSTANTS LockThreads,
          Reentrant,   \* the threads that may ask for a lock they hold
          Null         \* no thread; also the holder of a free spinlock

ASSUME LockAssumption == Null \notin LockThreads /\ Reentrant \subseteq LockThreads

VARIABLES lk_thread,   \* the thread holding the lock, or Null
          lk_wchan,    \* the threads sleeping, in arrival order
          lk_spinlock, \* the thread holding the spinlock, or Null
          lk_pc,          \* where each thread is
          lk_panicked     \* a KASSERT failed: the machine has stopped

lk_vars == <<lk_thread, lk_wchan, lk_spinlock, lk_pc, lk_panicked>>

(***************************************************************************)
(* "spin": in lock_acquire, asking for the spinlock.  "test": holding it.  *)
(* "asleep": on lk_wchan.  "woken": runnable again, about to retake the    *)
(* spinlock.  "rel_spin": past lock_release's assertion.  "rel": holding   *)
(* the spinlock to release.                                                *)
(***************************************************************************)
LockLabels == {"out", "spin", "test", "asleep", "woken", "rel_spin", "rel"}

LAt(t, l) == lk_pc[t] = l
LGoto(t, l) == lk_pc' = [lk_pc EXCEPT ![t] = l]

LockInit ==
  /\ lk_thread = Null
  /\ lk_wchan = << >>
  /\ lk_spinlock = Null
  /\ lk_pc = [t \in LockThreads |-> "out"]
  /\ lk_panicked = FALSE

lock_acquire_call(t) ==
  /\ ~lk_panicked
  /\ LAt(t, "out")
  /\ lk_thread = t => t \in Reentrant
  /\ LGoto(t, "spin")
  /\ UNCHANGED <<lk_thread, lk_wchan, lk_spinlock, lk_panicked>>

\* spinlock_acquire, at the head of lock_acquire or at the end of wchan_sleep.
lock_acquire_spin(t) ==
  /\ ~lk_panicked
  /\ lk_pc[t] \in {"spin", "woken"}
  /\ lk_spinlock = Null
  /\ lk_spinlock' = t
  /\ LGoto(t, "test")
  /\ UNCHANGED <<lk_thread, lk_wchan, lk_panicked>>

lock_acquire_sleep(t) ==
  /\ ~lk_panicked
  /\ LAt(t, "test")
  /\ lk_thread # Null
  /\ lk_wchan' = Append(lk_wchan, t)
  /\ lk_spinlock' = Null
  /\ LGoto(t, "asleep")
  /\ UNCHANGED <<lk_thread, lk_panicked>>

\* Mutant: "if" for "while" around wchan_sleep.
lock_acquire_take_if(t) ==
  /\ ~lk_panicked
  /\ LAt(t, "test")
  /\ lk_thread' = t
  /\ lk_spinlock' = Null
  /\ LGoto(t, "out")
  /\ UNCHANGED <<lk_wchan, lk_panicked>>

lock_acquire_take(t) ==
  /\ ~lk_panicked
  /\ LAt(t, "test")
  /\ lk_thread = Null
  /\ lk_thread' = t
  /\ lk_spinlock' = Null
  /\ LGoto(t, "out")
  /\ UNCHANGED <<lk_wchan, lk_panicked>>

\* Mutant: lock_release without its assertion.
lock_release_check_none(t) ==
  /\ ~lk_panicked
  /\ LAt(t, "out")
  /\ LGoto(t, "rel_spin")
  /\ UNCHANGED <<lk_thread, lk_wchan, lk_spinlock, lk_panicked>>

\* KASSERT(lock->lk_thread == curthread), read without the spinlock.
lock_release_check(t) ==
  /\ ~lk_panicked
  /\ LAt(t, "out")
  /\ IF lk_thread = t
     THEN LGoto(t, "rel_spin") /\ UNCHANGED lk_panicked
     ELSE lk_panicked' = TRUE /\ UNCHANGED lk_pc
  /\ UNCHANGED <<lk_thread, lk_wchan, lk_spinlock>>

lock_release_spin(t) ==
  /\ ~lk_panicked
  /\ LAt(t, "rel_spin")
  /\ lk_spinlock = Null
  /\ lk_spinlock' = t
  /\ LGoto(t, "rel")
  /\ UNCHANGED <<lk_thread, lk_wchan, lk_panicked>>

\* Mutant: release forgets to wake a sleeper.
wchan_wakeone_none(t) == LGoto(t, "out") /\ UNCHANGED lk_wchan

\* wchan_wakeone on behalf of t, which then returns from lock_release.
wchan_wakeone(t) ==
  IF lk_wchan = << >>
  THEN /\ LGoto(t, "out")
       /\ UNCHANGED lk_wchan
  ELSE /\ lk_pc' = [lk_pc EXCEPT ![t] = "out", ![Head(lk_wchan)] = "woken"]
       /\ lk_wchan' = Tail(lk_wchan)

lock_release_wake(t) ==
  /\ ~lk_panicked
  /\ LAt(t, "rel")
  /\ lk_thread' = Null
  /\ wchan_wakeone(t)
  /\ lk_spinlock' = Null
  /\ UNCHANGED lk_panicked

lock_acquire(t) == lock_acquire_call(t) \/ lock_acquire_spin(t)
                   \/ lock_acquire_sleep(t) \/ lock_acquire_take(t)
lock_release(t) == lock_release_check(t) \/ lock_release_spin(t) \/ lock_release_wake(t)

\* lock_do_i_hold reads lk_thread without the spinlock.
lock_do_i_hold(t) == lk_thread = t

LockNext == \E t \in LockThreads : lock_acquire(t) \/ lock_release(t)

\* A CPU in a critical section goes on, a runnable thread is scheduled, a free
\* spinlock is taken by a CPU that keeps asking.  Nobody is obliged to call
\* lock_acquire, nor a holder to call lock_release.
LockFairness ==
  \A t \in LockThreads :
    WF_lk_vars(\/ lock_acquire_spin(t) \/ lock_acquire_sleep(t) \/ lock_acquire_take(t)
            \/ lock_release_spin(t) \/ lock_release_wake(t))

LockSafe == LockInit /\ [][LockNext]_lk_vars
LockSpec == LockSafe /\ LockFairness

----------------------------------------------------------------------------

\* The values the lock's state ranges over.
LockTypeOK ==
  /\ lk_thread \in LockThreads \cup {Null}
  /\ lk_wchan \in Seq(LockThreads)
  /\ lk_spinlock \in LockThreads \cup {Null}
  /\ lk_pc \in [LockThreads -> LockLabels]
  /\ lk_panicked \in BOOLEAN

\* lk_wchan holds each sleeping thread exactly once and nobody else.
LockSleepersQueued ==
  /\ Range(lk_wchan) = {t \in LockThreads : LAt(t, "asleep")}
  /\ IsInjective(lk_wchan)

\* A free lock never has only sleepers: whenever lk_thread is NULL and the
\* channel is not empty, some thread is awake on its way to test lk_thread,
\* although release wakes only one thread and a newcomer may overtake it.
NoStrandedSleeper ==
  lk_thread = Null /\ lk_wchan # << >> =>
    \E t \in LockThreads : lk_pc[t] \in {"woken", "test"}

\* lock_release asserts that the caller holds the lock before it takes the
\* spinlock; the assertion is still true in the critical section that clears
\* lk_thread, so no thread ever gives away a lock that another one holds.
ReleaseCheckStillValid ==
  \A t \in LockThreads : lk_pc[t] \in {"rel_spin", "rel"} => lk_thread = t

\* Whether a thread holds the lock changes only by that thread's own critical
\* sections, whatever the others do; this is what makes the unlocked read in
\* lock_do_i_hold (and in vfs_biglock_acquire, emu_close...) sound.
HoldingChangesOnlyByHolder ==
  [][\A t \in LockThreads :
       lock_do_i_hold(t)' # lock_do_i_hold(t) =>
         \/ LAt(t, "test") /\ lock_do_i_hold(t)'
         \/ LAt(t, "rel") /\ lock_do_i_hold(t)]_lk_vars

\* lock_acquire and lock_release behave as the indivisible operations of
\* MutexSpec: one owner at a time, and a free lock that is wanted is taken.
LAbs == INSTANCE MutexSpec WITH
         Threads <- LockThreads,
         Nobody <- Null,
         owner <- lk_thread,
         wanting <- {t \in LockThreads : lk_pc[t] \in {"spin", "test", "asleep", "woken"}},
         stopped <- lk_panicked

ImplementsMutex == LAbs!MSpec
=============================================================================
