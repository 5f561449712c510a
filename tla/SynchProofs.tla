---------------------------- MODULE SynchProofs -----------------------------
(***************************************************************************)
(* The lock, for any set of threads, finite or not, and whichever of them  *)
(* ask for a lock they hold: it keeps its wait channel consistent, never   *)
(* strands a sleeper on a free lock, gives no lock away that another       *)
(* thread holds, and every step is a step of the abstract mutex.           *)
(*                                                                         *)
(* The semaphore, for any finite set of threads, any set of interrupt      *)
(* handlers, any initial count and any width of the counter: its state     *)
(* keeps its type, the wait channel holds exactly the sleepers, no wakeup  *)
(* is lost, and every step is a step of the abstract semaphore.            *)
(*                                                                         *)
(* Spinlocks, for any number of CPUs and spinlocks: the deadlock detector  *)
(* misses no deadlock and reports none that is not there.                  *)
(***************************************************************************)
EXTENDS Semaphore, Lock, Hangman, FiniteSetTheorems, TLAPS

-----------------------------------------------------------------------------
(* threadlist.c: what the queue operations do to the set of the threads on *)
(* a list that holds no thread twice                                       *)

\* threadlist_addtail of a thread that is not on the list.
LEMMA AddTail ==
  ASSUME NEW S, NEW q \in Seq(S), NEW x \in S, IsInjective(q), x \notin Range(q)
  PROVE  /\ Append(q, x) \in Seq(S)
         /\ IsInjective(Append(q, x))
         /\ Range(Append(q, x)) = Range(q) \cup {x}
<1> DEFINE r == Append(q, x)
<1>1. /\ r \in Seq(S)
      /\ Len(q) \in Nat
      /\ DOMAIN q = 1 .. Len(q)
      /\ DOMAIN r = 1 .. Len(q) + 1
      /\ r[Len(q) + 1] = x
      /\ \A i \in 1 .. Len(q) : r[i] = q[i]
  OBVIOUS
<1> HIDE DEF r
<1>2. IsInjective(r)
  BY <1>1 DEF IsInjective, Range
<1>3. Range(r) = Range(q) \cup {x}
  BY <1>1 DEF Range
<1> QED BY <1>1, <1>2, <1>3 DEF r

\* threadlist_remhead of a list that is not empty.
LEMMA RemHead ==
  ASSUME NEW S, NEW q \in Seq(S), IsInjective(q), q # << >>
  PROVE  /\ Head(q) \in S
         /\ Head(q) \in Range(q)
         /\ Tail(q) \in Seq(S)
         /\ IsInjective(Tail(q))
         /\ Range(Tail(q)) = Range(q) \ {Head(q)}
<1> DEFINE r == Tail(q)
           h == Head(q)
<1>1. /\ r \in Seq(S)
      /\ Len(q) \in Nat \ {0}
      /\ DOMAIN q = 1 .. Len(q)
      /\ DOMAIN r = 1 .. Len(q) - 1
      /\ h = q[1]
      /\ h \in S
      /\ \A i \in 1 .. Len(q) - 1 : r[i] = q[i + 1]
  OBVIOUS
<1> HIDE DEF r, h
<1>2. IsInjective(r)
  <2>1. ASSUME NEW i \in 1 .. Len(q) - 1, NEW j \in 1 .. Len(q) - 1, r[i] = r[j] PROVE i = j
    <3>1. i + 1 \in DOMAIN q /\ j + 1 \in DOMAIN q /\ q[i + 1] = q[j + 1]
      BY <2>1, <1>1
    <3> QED BY <3>1 DEF IsInjective
  <2> QED BY <2>1, <1>1 DEF IsInjective
<1>3. h \in Range(q)
  BY <1>1 DEF Range
<1>4. ASSUME NEW y \in Range(r) PROVE y \in Range(q) /\ y # h
  <2>1. PICK i \in 1 .. Len(q) - 1 : y = r[i]
    BY <1>1 DEF Range
  <2>2. i + 1 \in DOMAIN q /\ y = q[i + 1] /\ i + 1 # 1
    BY <2>1, <1>1
  <2> QED BY <2>2, <1>1 DEF Range, IsInjective
<1>5. ASSUME NEW y \in Range(q), y # h PROVE y \in Range(r)
  <2>1. PICK i \in 1 .. Len(q) : y = q[i]
    BY <1>1 DEF Range
  <2>2. i - 1 \in DOMAIN r /\ y = r[i - 1]
    BY <2>1, <1>1, <1>5
  <2> QED BY <2>2 DEF Range
<1>6. Range(r) = Range(q) \ {h}
  BY <1>4, <1>5
<1> QED BY <1>1, <1>2, <1>3, <1>6 DEF r, h

-----------------------------------------------------------------------------
(* The lock                                                                *)

\* The spinlock admits one thread to a critical section.
SpinInv == \A t \in LockThreads : lk_pc[t] \in {"test", "rel"} <=> lk_spinlock = t

LockIInv == LockTypeOK /\ SpinInv /\ LockSleepersQueued /\ ReleaseCheckStillValid /\ NoStrandedSleeper

\* The initial state satisfies the inductive invariant.
LEMMA LockInitIInv == LockInit => LockIInv
<1> SUFFICES ASSUME LockInit PROVE LockIInv
  OBVIOUS
<1> USE DEF LockInit
<1>1. LockTypeOK
  <2>1. lk_wchan \in Seq(LockThreads)
    OBVIOUS
  <2>2. lk_pc \in [LockThreads -> LockLabels]
    BY DEF LockLabels
  <2> QED BY <2>1, <2>2, Zenon DEF LockTypeOK
<1>2. SpinInv /\ ReleaseCheckStillValid /\ NoStrandedSleeper
  BY LockAssumption DEF SpinInv, ReleaseCheckStillValid, NoStrandedSleeper
<1>3. LockSleepersQueued
  BY DEF LockSleepersQueued, LAt, Range, IsInjective
<1> QED BY <1>1, <1>2, <1>3 DEF LockIInv

\* Steps that leave the wait channel alone.
LEMMA LockPlainIInv ==
  ASSUME LockIInv, NEW t \in LockThreads,
         \/ lock_acquire_call(t) \/ lock_acquire_spin(t) \/ lock_acquire_take(t)
         \/ lock_release_check(t) \/ lock_release_spin(t)
  PROVE  LockIInv'
<1> USE LockAssumption
    DEF LockIInv, LockTypeOK, SpinInv, LockSleepersQueued, ReleaseCheckStillValid, NoStrandedSleeper,
        LockLabels, LAt, LGoto
<1>1. CASE lock_acquire_call(t)
  BY <1>1 DEF lock_acquire_call
<1>2. CASE lock_acquire_spin(t)
  BY <1>2 DEF lock_acquire_spin
<1>3. CASE lock_acquire_take(t)
  BY <1>3 DEF lock_acquire_take
<1>4. CASE lock_release_check(t)
  BY <1>4, Zenon DEF lock_release_check
<1>5. CASE lock_release_spin(t)
  BY <1>5 DEF lock_release_spin
<1> QED BY <1>1, <1>2, <1>3, <1>4, <1>5

\* A thread that goes to sleep is appended to the channel once, and only while
\* the lock is held.
LEMMA LockSleepIInv ==
  ASSUME LockIInv, NEW t \in LockThreads, lock_acquire_sleep(t)
  PROVE  LockIInv'
<1> USE DEF LockIInv, lock_acquire_sleep, LAt, LGoto
<1>1. t \notin Range(lk_wchan)
  BY DEF LockSleepersQueued
<1>2. LockTypeOK'
  BY DEF LockTypeOK, LockLabels
<1>3. SpinInv' /\ ReleaseCheckStillValid' /\ NoStrandedSleeper'
  BY LockAssumption DEF SpinInv, ReleaseCheckStillValid, NoStrandedSleeper, LockTypeOK
<1>4. IsInjective(lk_wchan') /\ Range(lk_wchan') = Range(lk_wchan) \cup {t}
  BY <1>1, AddTail DEF LockSleepersQueued, LockTypeOK
<1>5. LockSleepersQueued'
  BY <1>4 DEF LockSleepersQueued, LockTypeOK
<1> QED BY <1>2, <1>3, <1>5

\* Releasing clears lk_thread and wakes the first sleeper, if there is one.
LEMMA LockWakeIInv ==
  ASSUME LockIInv, NEW t \in LockThreads, lock_release_wake(t)
  PROVE  LockIInv'
<1>1. CASE lk_wchan = << >>
  BY <1>1, LockAssumption
  DEF LockIInv, LockTypeOK, SpinInv, LockSleepersQueued, ReleaseCheckStillValid, NoStrandedSleeper,
      LockLabels, LAt, LGoto, lock_release_wake, wchan_wakeone
<1>2. CASE lk_wchan # << >>
  <2> DEFINE h == Head(lk_wchan)
  <2>1. /\ h \in LockThreads
        /\ lk_pc[h] = "asleep"
        /\ t # h
        /\ Tail(lk_wchan) \in Seq(LockThreads)
        /\ IsInjective(Tail(lk_wchan))
        /\ Range(Tail(lk_wchan)) = Range(lk_wchan) \ {h}
    BY <1>2, RemHead DEF LockIInv, LockTypeOK, LockSleepersQueued, LAt, lock_release_wake
  <2>2. /\ lk_pc' = [lk_pc EXCEPT ![t] = "out", ![h] = "woken"]
        /\ lk_wchan' = Tail(lk_wchan)
        /\ lk_thread' = Null
        /\ lk_spinlock' = Null
        /\ lk_panicked' = lk_panicked
        /\ lk_pc[t] = "rel"
    BY <1>2 DEF lock_release_wake, wchan_wakeone, LAt
  <2> HIDE DEF h
  <2>3. LockTypeOK'
    BY <2>1, <2>2 DEF LockIInv, LockTypeOK, LockLabels
  <2>4. SpinInv'
    BY <2>1, <2>2, LockAssumption DEF LockIInv, LockTypeOK, SpinInv
  <2>5. LockSleepersQueued'
    BY <2>1, <2>2 DEF LockIInv, LockTypeOK, LockSleepersQueued, LAt
  <2>6. ReleaseCheckStillValid'
    BY <2>1, <2>2 DEF LockIInv, LockTypeOK, SpinInv, ReleaseCheckStillValid
  <2>7. NoStrandedSleeper'
    BY <2>1, <2>2 DEF LockIInv, LockTypeOK, NoStrandedSleeper
  <2> QED BY <2>3, <2>4, <2>5, <2>6, <2>7 DEF LockIInv
<1> QED BY <1>1, <1>2

\* Every step preserves the inductive invariant.
LEMMA LockNextIInv == LockIInv /\ [LockNext]_lk_vars => LockIInv'
<1> SUFFICES ASSUME LockIInv, [LockNext]_lk_vars PROVE LockIInv'
  OBVIOUS
<1>1. CASE UNCHANGED lk_vars
  BY <1>1
  DEF lk_vars, LockIInv, LockTypeOK, SpinInv, LockSleepersQueued, ReleaseCheckStillValid,
      NoStrandedSleeper, LAt
<1>2. ASSUME NEW t \in LockThreads, lock_acquire(t) \/ lock_release(t) PROVE LockIInv'
  BY <1>2, LockPlainIInv, LockSleepIInv, LockWakeIInv DEF lock_acquire, lock_release
<1> QED BY <1>1, <1>2 DEF LockNext

\* TypeOK: lk_thread is a thread or none, and lk_wchan a list of threads.
THEOREM LockTypeCorrect == LockSafe => []LockTypeOK
<1>1. LockIInv => LockTypeOK
  BY DEF LockIInv
<1> QED BY LockInitIInv, LockNextIInv, <1>1, PTL DEF LockSafe

\* NoStrandedSleeper: a free lock never has only sleepers.
THEOREM NobodyStranded == LockSafe => []NoStrandedSleeper
<1>1. LockIInv => NoStrandedSleeper
  BY DEF LockIInv
<1> QED BY LockInitIInv, LockNextIInv, <1>1, PTL DEF LockSafe

\* ReleaseCheckStillValid: the assertion lock_release reads without the
\* spinlock still holds when lk_thread is cleared.
THEOREM ReleaseCheckSound == LockSafe => []ReleaseCheckStillValid
<1>1. LockIInv => ReleaseCheckStillValid
  BY DEF LockIInv
<1> QED BY LockInitIInv, LockNextIInv, <1>1, PTL DEF LockSafe

\* HoldingChangesOnlyByHolder: the unlocked read of lock_do_i_hold is sound.
THEOREM HoldingIsPrivate == LockSafe => HoldingChangesOnlyByHolder
<1>1. LockIInv /\ [LockNext]_lk_vars =>
        [\A t \in LockThreads :
           lock_do_i_hold(t)' # lock_do_i_hold(t) =>
             \/ LAt(t, "test") /\ lock_do_i_hold(t)'
             \/ LAt(t, "rel") /\ lock_do_i_hold(t)]_lk_vars
  BY LockAssumption
  DEF LockIInv, ReleaseCheckStillValid, LockNext, lock_acquire, lock_acquire_call, lock_acquire_spin,
      lock_acquire_sleep, lock_acquire_take, lock_release, lock_release_check,
      lock_release_spin, lock_release_wake, lock_do_i_hold, LAt
<1> QED BY LockInitIInv, LockNextIInv, <1>1, PTL DEF LockSafe, HoldingChangesOnlyByHolder

\* lock_acquire and lock_release are atomic: every step of the code is a step
\* of the abstract mutex, or one its callers cannot see.
THEOREM LockRefines == LockSafe => LAbs!MSafe
<1> USE DEF LAbs!mvars
<1>1. LockInit => LAbs!MInit
  BY DEF LockInit, LAbs!MInit
<1>2. LockIInv /\ [LockNext]_lk_vars => [LAbs!MNext]_(LAbs!mvars)
  <2> SUFFICES ASSUME LockIInv, [LockNext]_lk_vars PROVE [LAbs!MNext]_(LAbs!mvars)
    OBVIOUS
  <2>1. CASE UNCHANGED lk_vars
    BY <2>1 DEF lk_vars
  <2>2. ASSUME NEW t \in LockThreads, lock_acquire(t) \/ lock_release(t)
        PROVE  [LAbs!MNext]_(LAbs!mvars)
    <3> USE DEF LockIInv, LockTypeOK, LAt, LGoto
    <3>1. CASE lock_acquire_call(t)
      <4>1. LAbs!Ask(t)
        BY <3>1 DEF lock_acquire_call, LAbs!Ask
      <4> QED BY <4>1 DEF LAbs!MNext
    <3>2. CASE lock_acquire_spin(t) \/ lock_acquire_sleep(t) \/ lock_release_spin(t)
      BY <3>2 DEF lock_acquire_spin, lock_acquire_sleep, lock_release_spin
    <3>3. CASE lock_acquire_take(t)
      <4>1. LAbs!Obtain(t)
        BY <3>3 DEF lock_acquire_take, LAbs!Obtain
      <4> QED BY <4>1 DEF LAbs!MNext
    <3>4. CASE lock_release_check(t)
      <4>1. CASE lk_thread = t
        BY <3>4, <4>1 DEF lock_release_check
      <4>2. CASE lk_thread # t
        <5>1. LAbs!Misuse(t)
          BY <3>4, <4>2 DEF lock_release_check, LAbs!Misuse
        <5> QED BY <5>1 DEF LAbs!MNext
      <4> QED BY <4>1, <4>2
    <3>5. CASE lock_release_wake(t)
      <4>1. CASE lk_wchan = << >>
        <5>1. LAbs!Yield(t)
          BY <3>5, <4>1 DEF lock_release_wake, wchan_wakeone, LAbs!Yield, ReleaseCheckStillValid
        <5> QED BY <5>1 DEF LAbs!MNext
      <4>2. CASE lk_wchan # << >>
        <5>1. Head(lk_wchan) \in LockThreads /\ lk_pc[Head(lk_wchan)] = "asleep"
          BY <4>2, RemHead DEF LockSleepersQueued
        <5>2. LAbs!Yield(t)
          BY <3>5, <4>2, <5>1, Zenon
          DEF lock_release_wake, wchan_wakeone, LAbs!Yield, ReleaseCheckStillValid
        <5> QED BY <5>2 DEF LAbs!MNext
      <4> QED BY <4>1, <4>2
    <3> QED BY <2>2, <3>1, <3>2, <3>3, <3>4, <3>5 DEF lock_acquire, lock_release
  <2> QED BY <2>1, <2>2 DEF LockNext
<1> QED BY LockInitIInv, LockNextIInv, <1>1, <1>2, PTL DEF LockSafe, LAbs!MSafe

-----------------------------------------------------------------------------
(* The semaphore                                                           *)

\* The spinlock admits one actor to a critical section, and handlers never
\* reach the labels of P.
LockInv ==
  /\ \A a \in Actors : pc[a] \in {"P_test", "V_post"} <=> sem_lock = a
  /\ \A h \in Handlers : pc[h] \in {"out", "V_spin", "V_post"}

IInv == TypeOK /\ LockInv /\ SleepersQueued

\* Unsigned increment: one more, or 0 past the largest value.
LEMMA Wraps ==
  ASSUME NEW n \in 0 .. UintMax
  PROVE  (n + 1) % (UintMax + 1) = IF n = UintMax THEN 0 ELSE n + 1
<1>1. CASE n = UintMax
  BY <1>1, SemAssumption
<1>2. CASE n < UintMax
  BY <1>2, SemAssumption
<1> QED BY <1>1, <1>2, SemAssumption

\* The initial state satisfies the inductive invariant.
LEMMA InitIInv == Init => IInv
<1> SUFFICES ASSUME Init PROVE IInv
  OBVIOUS
<1> USE DEF Init
<1>1. TypeOK
  <2>1. sem_wchan \in Seq(Threads)
    OBVIOUS
  <2>2. pc \in [Actors -> Labels]
    BY DEF Labels
  <2> QED BY <2>1, <2>2, SemAssumption, Zenon DEF TypeOK
<1>2. LockInv
  BY SemAssumption DEF LockInv, Actors
<1>3. SleepersQueued
  BY DEF SleepersQueued, At, Actors, Range, IsInjective
<1> QED BY <1>1, <1>2, <1>3 DEF IInv

\* Calling P or V, and taking the spinlock, leaves the count and the channel alone.
LEMMA EnterIInv ==
  ASSUME IInv, NEW a \in Actors, P_call(a) \/ P_lock(a) \/ V_call(a) \/ V_lock(a)
  PROVE  IInv'
<1> USE DEF IInv, TypeOK, LockInv, SleepersQueued, Labels, Actors, At, Goto
<1>1. CASE P_call(a)
  BY <1>1, SemAssumption DEF P_call
<1>2. CASE P_lock(a)
  BY <1>2, SemAssumption DEF P_lock
<1>3. CASE V_call(a)
  BY <1>3, SemAssumption DEF V_call
<1>4. CASE V_lock(a)
  BY <1>4, SemAssumption DEF V_lock
<1> QED BY <1>1, <1>2, <1>3, <1>4

\* A thread that goes to sleep is appended to the channel once.
LEMMA SleepIInv ==
  ASSUME IInv, NEW a \in Actors, P_sleep(a)
  PROVE  IInv'
<1> USE DEF IInv, P_sleep, At, Goto
<1>1. a \in Threads /\ a \notin Range(sem_wchan)
  BY DEF LockInv, Actors, SleepersQueued
<1>2. TypeOK'
  BY <1>1 DEF TypeOK, Labels
<1>3. LockInv'
  BY SemAssumption DEF LockInv, TypeOK, Actors
<1>4. IsInjective(sem_wchan') /\ Range(sem_wchan') = Range(sem_wchan) \cup {a}
  BY <1>1, AddTail DEF SleepersQueued, TypeOK
<1>5. SleepersQueued'
  BY <1>1, <1>4 DEF SleepersQueued, TypeOK, Actors
<1> QED BY <1>2, <1>3, <1>5

\* Taking a unit of the count returns to the caller.
LEMMA TakeIInv ==
  ASSUME IInv, NEW a \in Actors, P_take(a)
  PROVE  IInv'
  BY SemAssumption
  DEF IInv, TypeOK, LockInv, SleepersQueued, Labels, Actors, At, Goto, P_take

\* V with nobody asleep only counts.
LEMMA PostEmptyIInv ==
  ASSUME IInv, NEW a \in Actors, V_post(a), sem_wchan = << >>
  PROVE  IInv'
  BY SemAssumption
  DEF IInv, TypeOK, LockInv, SleepersQueued, Labels, Actors, At, Goto, V_post, WakeOne,
      Incremented

\* The thread V wakes is the one asleep at the head of the channel.
LEMMA HeadAsleep ==
  ASSUME IInv, sem_wchan # << >>
  PROVE  /\ Head(sem_wchan) \in Threads
         /\ pc[Head(sem_wchan)] = "asleep"
         /\ Tail(sem_wchan) \in Seq(Threads)
         /\ IsInjective(Tail(sem_wchan))
         /\ Range(Tail(sem_wchan)) = Range(sem_wchan) \ {Head(sem_wchan)}
  BY RemHead DEF IInv, TypeOK, SleepersQueued, At

\* V with sleepers moves the first of them off the channel.
LEMMA PostWakeIInv ==
  ASSUME IInv, NEW a \in Actors, V_post(a), sem_wchan # << >>
  PROVE  IInv'
<1> DEFINE h == Head(sem_wchan)
<1>0. /\ h \in Threads
      /\ pc[h] = "asleep"
      /\ a # h
      /\ h \in Actors
      /\ pc' = [pc EXCEPT ![a] = "out", ![h] = "woken"]
      /\ sem_wchan' = Tail(sem_wchan)
  BY HeadAsleep DEF V_post, WakeOne, At, Actors
<1>1. TypeOK'
  BY <1>0, HeadAsleep, SemAssumption DEF IInv, TypeOK, Labels, V_post, Incremented
<1>2. LockInv'
  BY <1>0, SemAssumption DEF IInv, TypeOK, LockInv, V_post, Actors, At
<1>3. SleepersQueued'
  BY <1>0, HeadAsleep DEF IInv, TypeOK, SleepersQueued, V_post, At, Actors
<1> QED BY <1>1, <1>2, <1>3 DEF IInv

\* The counter wrapping stops the machine and moves nobody.
LEMMA OverflowIInv ==
  ASSUME IInv, NEW a \in Actors, V_overflow(a)
  PROVE  IInv'
  BY SemAssumption
  DEF IInv, TypeOK, LockInv, SleepersQueued, Labels, At, V_overflow, Incremented

\* Every step preserves the inductive invariant.
LEMMA NextIInv == IInv /\ [Next]_vars => IInv'
<1> SUFFICES ASSUME IInv, [Next]_vars PROVE IInv'
  OBVIOUS
<1>1. CASE UNCHANGED vars
  BY <1>1 DEF vars, IInv, TypeOK, LockInv, SleepersQueued, At
<1>2. ASSUME NEW a \in Actors, P(a) \/ V(a) PROVE IInv'
  BY <1>2, EnterIInv, SleepIInv, TakeIInv, PostEmptyIInv, PostWakeIInv, OverflowIInv DEF P, V
<1> QED BY <1>1, <1>2 DEF Next

\* The unit of count a step adds or removes is matched by a looking thread.
LEMMA LookingFinite ==
  ASSUME IInv
  PROVE  IsFiniteSet(Looking) /\ Cardinality(Looking) \in Nat
  BY SemAssumption, FS_Subset, FS_CardinalityType DEF Looking

\* NoLostWakeup is preserved, given the inductive invariant.
LEMMA NextNoLostWakeup == IInv /\ NoLostWakeup /\ [Next]_vars => NoLostWakeup'
<1> SUFFICES ASSUME IInv, NoLostWakeup, [Next]_vars, IInv',
                    sem_wchan' # << >>, ~panicked'
             PROVE  sem_count' <= Cardinality(Looking')
  BY NextIInv DEF NoLostWakeup
<1>0. /\ IsFiniteSet(Looking) /\ Cardinality(Looking) \in Nat
      /\ IsFiniteSet(Looking') /\ Cardinality(Looking') \in Nat
      /\ sem_count \in Nat /\ sem_count' \in Nat
  <2>1. IsFiniteSet(Looking') /\ Cardinality(Looking') \in Nat
    BY SemAssumption, FS_Subset, FS_CardinalityType DEF Looking
  <2> QED BY <2>1, LookingFinite DEF IInv, TypeOK
<1>1. CASE UNCHANGED vars
  BY <1>1 DEF vars, NoLostWakeup, Looking
<1>2. ASSUME NEW a \in Actors, P(a) \/ V(a)
      PROVE  sem_count' <= Cardinality(Looking')
  <2> USE DEF At, Goto
  <2>1. CASE P_call(a) \/ V_call(a) \/ V_lock(a)
    <3>1. Looking' = Looking
      BY <2>1 DEF P_call, V_call, V_lock, Looking, IInv, TypeOK, Actors
    <3> QED BY <3>1, <2>1 DEF P_call, V_call, V_lock, NoLostWakeup
  <2>2. CASE P_lock(a)
    <3>1. Looking \subseteq Looking'
      BY <2>2 DEF P_lock, Looking, IInv, TypeOK, Actors
    <3>2. Cardinality(Looking) <= Cardinality(Looking')
      BY <3>1, <1>0, FS_Subset
    <3> QED BY <3>2, <1>0, <2>2 DEF P_lock, NoLostWakeup
  <2>3. CASE P_sleep(a)
    BY <2>3, <1>0 DEF P_sleep
  <2>4. CASE P_take(a)
    <3>1. a \in Threads /\ a \in Looking
      BY <2>4 DEF P_take, Looking, IInv, LockInv, Actors
    <3>2. Looking' = Looking \ {a}
      BY <2>4, <3>1 DEF P_take, Looking, IInv, TypeOK, Actors
    <3>3. Cardinality(Looking') = Cardinality(Looking) - 1
      BY <3>1, <3>2, <1>0, FS_RemoveElement
    <3> QED BY <3>3, <1>0, <2>4 DEF P_take, NoLostWakeup
  <2>5. CASE V_post(a)
    <3>1. sem_wchan # << >> /\ ~panicked
      BY <2>5 DEF V_post, WakeOne
    <3> DEFINE h == Head(sem_wchan)
    <3>2. /\ h \in Threads
          /\ h \notin Looking
          /\ a # h
      BY <3>1, <2>5, HeadAsleep DEF V_post, Looking
    <3>3. Looking' = Looking \cup {h}
      BY <3>1, <3>2, <2>5 DEF V_post, WakeOne, Looking, IInv, TypeOK, Actors
    <3>4. Cardinality(Looking') = Cardinality(Looking) + 1
      BY <3>2, <3>3, <1>0, FS_AddElement
    <3>5. sem_count' <= sem_count + 1
      BY <2>5, Wraps, SemAssumption DEF V_post, Incremented, IInv, TypeOK
    <3> QED BY <3>1, <3>4, <3>5, <1>0 DEF NoLostWakeup
  <2>6. CASE V_overflow(a)
    BY <2>6 DEF V_overflow
  <2> QED BY <1>2, <2>1, <2>2, <2>3, <2>4, <2>5, <2>6 DEF P, V
<1> QED BY <1>1, <1>2 DEF Next

\* NoLostWakeup: P's barging and V's single wakeup never strand a sleeper
\* while the count is positive.
THEOREM NoWakeupLost == Safe => []NoLostWakeup
<1>1. Init => NoLostWakeup
  BY DEF Init, NoLostWakeup
<1> QED BY InitIInv, NextIInv, NextNoLostWakeup, <1>1, PTL DEF Safe

\* TypeOK: sem_count stays an unsigned value and sem_wchan a list of threads.
THEOREM TypeCorrect == Safe => []TypeOK
<1>1. IInv => TypeOK
  BY DEF IInv
<1> QED BY InitIInv, NextIInv, <1>1, PTL DEF Safe

\* SleepersQueued: the wait channel holds exactly the sleeping threads.
THEOREM ChannelCorrect == Safe => []SleepersQueued
<1>1. IInv => SleepersQueued
  BY DEF IInv
<1> QED BY InitIInv, NextIInv, <1>1, PTL DEF Safe

\* P and V are atomic: every step of the code is a step of the abstract
\* semaphore, or one its callers cannot see.
THEOREM SemaphoreRefines == Safe => Abs!SSafe
<1> USE DEF Abs!svars, Phase
<1>1. Init => Abs!SInit
  BY DEF Init, Abs!SInit
<1>2. IInv /\ [Next]_vars => [Abs!SNext]_(Abs!svars)
  <2> SUFFICES ASSUME IInv, [Next]_vars PROVE [Abs!SNext]_(Abs!svars)
    OBVIOUS
  <2>1. CASE UNCHANGED vars
    BY <2>1 DEF vars
  <2>2. ASSUME NEW a \in Actors, P(a) \/ V(a) PROVE [Abs!SNext]_(Abs!svars)
    <3> USE DEF IInv, TypeOK, At, Goto
    <3>1. CASE P_call(a)
      <4>1. Abs!Ask(a)
        BY <3>1, Zenon DEF P_call, Abs!Ask
      <4> QED BY <4>1 DEF Abs!SNext
    <3>2. CASE P_lock(a) \/ P_sleep(a) \/ V_lock(a)
      BY <3>2 DEF P_lock, P_sleep, V_lock
    <3>3. CASE P_take(a)
      <4>1. sem_count > 0
        BY <3>3, SemAssumption DEF P_take
      <4>2. [b \in Actors |-> Phase(b)]' = [[b \in Actors |-> Phase(b)] EXCEPT ![a] = "out"]
        BY <3>3, Zenon DEF P_take
      <4>3. Abs!Pass(a)
        BY <3>3, <4>1, <4>2 DEF P_take, Abs!Pass
      <4> QED BY <4>3 DEF Abs!SNext
    <3>4. CASE V_call(a)
      <4>1. Abs!Offer(a)
        BY <3>4, Zenon DEF V_call, Abs!Offer
      <4> QED BY <4>1 DEF Abs!SNext
    <3>5. CASE V_post(a)
      <4>1. sem_count < UintMax /\ sem_count' = sem_count + 1
        BY <3>5, Wraps, SemAssumption DEF V_post, Incremented
      <4>2. [b \in Actors |-> Phase(b)]' = [[b \in Actors |-> Phase(b)] EXCEPT ![a] = "out"]
        <5>1. CASE sem_wchan = << >>
          BY <3>5, <5>1, Zenon DEF V_post, WakeOne
        <5>2. CASE sem_wchan # << >>
          BY <3>5, <5>2, HeadAsleep, Zenon DEF V_post, WakeOne, Actors
        <5> QED BY <5>1, <5>2
      <4>3. Abs!Post(a)
        BY <3>5, <4>1, <4>2 DEF V_post, Abs!Post
      <4> QED BY <4>3 DEF Abs!SNext
    <3>6. CASE V_overflow(a)
      <4>1. Abs!Overflow(a)
        BY <3>6, Wraps, SemAssumption DEF V_overflow, Incremented, Abs!Overflow
      <4> QED BY <4>1 DEF Abs!SNext
    <3> QED BY <2>2, <3>1, <3>2, <3>3, <3>4, <3>5, <3>6 DEF P, V
  <2> QED BY <2>1, <2>2 DEF Next
<1> QED BY InitIInv, NextIInv, <1>1, <1>2, PTL DEF Safe, Abs!SSafe

-----------------------------------------------------------------------------
(* Hangman: the deadlock detector                                          *)

HangTypeOK ==
  /\ splk_holder \in [Lockables -> HangActors \cup {Nobody}]
  /\ l_holding \in [Lockables -> HangActors \cup {Nobody}]
  /\ a_waiting \in [HangActors -> Lockables \cup {Nobody}]
  /\ want \in [HangActors -> Lockables \cup {Nobody}]
  /\ apc \in [HangActors -> {"run", "spin", "got", "release", "found"}]

\* Between its calls of the detector a CPU waits for the lock it says it waits
\* for; a call of spinlock_acquire or spinlock_release has a lock.
WaitsRecorded ==
  \A a \in HangActors :
    /\ apc[a] \in {"spin", "got"} => a_waiting[a] = want[a]
    /\ apc[a] \notin {"spin", "got"} => a_waiting[a] = Nobody
    /\ apc[a] # "run" => want[a] \in Lockables

\* A lock is recorded as held by the CPU that has it, but for the time between
\* the test-and-set and hangman_acquire, and between hangman_release and the
\* clearing of the lock.
HoldsRecorded ==
  /\ \A l \in Lockables : l_holding[l] \in {Nobody, splk_holder[l]}
  /\ \A l \in Lockables, a \in HangActors :
       splk_holder[l] = a /\ ~(apc[a] \in {"got", "release"} /\ want[a] = l) => l_holding[l] = a
  /\ \A a \in HangActors :
       apc[a] \in {"got", "release"} => splk_holder[want[a]] = a /\ l_holding[want[a]] = Nobody

\* No set of CPUs spins for locks of the set.
NobodyStuck == \A S \in SUBSET HangActors : S # {} => ~Stuck(S)

RInv == HangTypeOK /\ WaitsRecorded /\ HoldsRecorded
HangIInv == RInv /\ NobodyStuck /\ AlarmIsReal

----------------------------------------------------------------------------
(* The records, and what they say of the locks                             *)

\* The initial state satisfies the inductive invariant.
LEMMA HangInitIInv == HangInit => HangIInv
BY NobodyIsNone, Zenon
DEF HangInit, HangIInv, RInv, HangTypeOK, WaitsRecorded, HoldsRecorded, NobodyStuck, Stuck, AlarmIsReal

\* What changes in the test-and-set.
LEMMA GotStep ==
  ASSUME RInv, NEW a \in HangActors, spinlock_got(a)
  PROVE  /\ apc[a] = "spin" /\ want[a] \in Lockables /\ splk_holder[want[a]] = Nobody
         /\ splk_holder' = [splk_holder EXCEPT ![want[a]] = a]
         /\ apc' = [apc EXCEPT ![a] = "got"]
         /\ UNCHANGED <<a_waiting, l_holding, want>>
BY NobodyIsNone, Zenon DEF RInv, spinlock_got, WaitsRecorded

\* What changes in hangman_acquire, whose two panics the records rule out.
LEMMA AcquireStep ==
  ASSUME RInv, NEW a \in HangActors, hangman_acquire(a)
  PROVE  /\ apc[a] = "got" /\ want[a] \in Lockables
         /\ l_holding' = [l_holding EXCEPT ![want[a]] = a]
         /\ a_waiting' = [a_waiting EXCEPT ![a] = Nobody]
         /\ apc' = [apc EXCEPT ![a] = "run"]
         /\ UNCHANGED <<hung, splk_holder, want>>
BY NobodyIsNone, Zenon DEF RInv, hangman_acquire, WaitsRecorded, HoldsRecorded

\* What changes in the clearing of a lock.
LEMMA ClearedStep ==
  ASSUME RInv, NEW a \in HangActors, spinlock_cleared(a)
  PROVE  /\ apc[a] = "release" /\ want[a] \in Lockables
         /\ splk_holder' = [splk_holder EXCEPT ![want[a]] = Nobody]
         /\ apc' = [apc EXCEPT ![a] = "run"]
         /\ UNCHANGED <<a_waiting, l_holding, want>>
BY NobodyIsNone, Zenon DEF RInv, spinlock_cleared, WaitsRecorded

\* What changes in hangman_wait.
LEMMA WaitStep ==
  ASSUME RInv, NEW a \in HangActors, NEW l \in Lockables, hangman_wait(a, l)
  PROVE  /\ apc[a] = "run" /\ want' = [want EXCEPT ![a] = l]
         /\ \/ UNCHANGED <<a_waiting, apc>>
            \/ apc' = [apc EXCEPT ![a] = "found"] /\ UNCHANGED a_waiting
            \/ apc' = [apc EXCEPT ![a] = "spin"] /\ a_waiting' = [a_waiting EXCEPT ![a] = l]
         /\ UNCHANGED <<splk_holder, l_holding>>
BY NobodyIsNone, Zenon DEF RInv, hangman_wait

\* What changes in hangman_release, whose two panics the records rule out.
LEMMA ReleaseStep ==
  ASSUME RInv, NEW a \in HangActors, NEW l \in Lockables, hangman_release(a, l)
  PROVE  /\ apc[a] = "run" /\ splk_holder[l] = a
         /\ l_holding' = [l_holding EXCEPT ![l] = Nobody]
         /\ apc' = [apc EXCEPT ![a] = "release"] /\ want' = [want EXCEPT ![a] = l]
         /\ UNCHANGED <<hung, splk_holder, a_waiting>>
BY NobodyIsNone, Zenon DEF RInv, hangman_release, WaitsRecorded, HoldsRecorded

\* The records stay as they should be, whatever the CPU does.
LEMMA NextRInv ==
  ASSUME RInv, HangNext
  PROVE  RInv'
<1> USE NobodyIsNone DEF RInv
<1>1. ASSUME NEW a \in HangActors, Report(a) PROVE RInv'
  BY <1>1, Zenon DEF Report, HangTypeOK, WaitsRecorded, HoldsRecorded
<1>2. ASSUME NEW a \in HangActors, spinlock_got(a) PROVE RInv'
  <2>1. HangTypeOK'
    BY <1>2, GotStep DEF HangTypeOK
  <2>2. WaitsRecorded'
    BY <1>2, GotStep DEF HangTypeOK, WaitsRecorded
  <2>3. HoldsRecorded'
    BY <1>2, GotStep DEF HangTypeOK, WaitsRecorded, HoldsRecorded
  <2> QED BY <2>1, <2>2, <2>3
<1>3. ASSUME NEW a \in HangActors, hangman_acquire(a) PROVE RInv'
  <2>1. HangTypeOK'
    BY <1>3, AcquireStep DEF HangTypeOK
  <2>2. WaitsRecorded'
    BY <1>3, AcquireStep DEF HangTypeOK, WaitsRecorded
  <2>3. HoldsRecorded'
    BY <1>3, AcquireStep DEF HangTypeOK, WaitsRecorded, HoldsRecorded
  <2> QED BY <2>1, <2>2, <2>3
<1>4. ASSUME NEW a \in HangActors, spinlock_cleared(a) PROVE RInv'
  <2>1. HangTypeOK'
    BY <1>4, ClearedStep DEF HangTypeOK
  <2>2. WaitsRecorded'
    BY <1>4, ClearedStep DEF HangTypeOK, WaitsRecorded
  <2>3. HoldsRecorded'
    BY <1>4, ClearedStep DEF HangTypeOK, WaitsRecorded, HoldsRecorded
  <2> QED BY <2>1, <2>2, <2>3
<1>5. ASSUME NEW a \in HangActors, NEW l \in Lockables, hangman_wait(a, l) PROVE RInv'
  <2>1. HangTypeOK'
    BY <1>5, WaitStep DEF HangTypeOK
  <2>2. WaitsRecorded'
    BY <1>5, WaitStep DEF HangTypeOK, WaitsRecorded
  <2>3. HoldsRecorded'
    BY <1>5, WaitStep DEF HangTypeOK, WaitsRecorded, HoldsRecorded
  <2> QED BY <2>1, <2>2, <2>3
<1>6. ASSUME NEW a \in HangActors, NEW l \in Lockables, hangman_release(a, l) PROVE RInv'
  <2>1. HangTypeOK'
    BY <1>6, ReleaseStep DEF HangTypeOK
  <2>2. WaitsRecorded'
    BY <1>6, ReleaseStep DEF HangTypeOK, WaitsRecorded
  <2>3. HoldsRecorded'
    BY <1>6, ReleaseStep DEF HangTypeOK, WaitsRecorded, HoldsRecorded
  <2> QED BY <2>1, <2>2, <2>3
<1> QED BY <1>1, <1>2, <1>3, <1>4, <1>5, <1>6 DEF HangNext

\* A CPU that the loop goes on from spins, and the next one has its lock.
LEMMA FollowsHolder ==
  ASSUME RInv, NEW a \in HangActors, Follows(a) # Nobody
  PROVE  apc[a] = "spin" /\ Follows(a) = splk_holder[want[a]] /\ Follows(a) \in HangActors
BY NobodyIsNone DEF RInv, HangTypeOK, WaitsRecorded, HoldsRecorded, Follows

\* If a CPU spins and so does the one that has its lock, the loop goes from the
\* one to the other.
LEMMA HolderFollows ==
  ASSUME RInv, NEW a \in HangActors, NEW b \in HangActors,
         apc[a] = "spin", apc[b] = "spin", splk_holder[want[a]] = b
  PROVE  Follows(a) = b
BY NobodyIsNone DEF RInv, HangTypeOK, WaitsRecorded, HoldsRecorded, Follows

----------------------------------------------------------------------------
(* No deadlock is missed                                                   *)

\* The last CPU of a deadlock does not get past hangman_check: otherwise a set
\* that the loop stays in without meeting it would have been a deadlock before.
LEMMA WaitKeepsNobodyStuck ==
  ASSUME RInv, NobodyStuck, NEW a \in HangActors, NEW l \in Lockables, hangman_wait(a, l)
  PROVE  NobodyStuck'
<1> SUFFICES ASSUME NEW S \in SUBSET HangActors, S # {}, Stuck(S)' PROVE FALSE
  BY DEF NobodyStuck
<1>1. \A b \in S : b # a => apc[b] = "spin" /\ want'[b] = want[b]
  BY Zenon DEF Stuck, hangman_wait, RInv, HangTypeOK
<1>2. splk_holder' = splk_holder
  BY Zenon DEF hangman_wait
<1>3. CASE a \notin S
  <2>1. Stuck(S)
    BY <1>1, <1>2, <1>3 DEF Stuck
  <2> QED BY <2>1 DEF NobodyStuck
<1>4. CASE a \in S
  <2>1. /\ ~hangman_check(l, a) /\ want'[a] = l /\ splk_holder[l] # a /\ apc[a] = "run"
    BY <1>4, Zenon DEF Stuck, hangman_wait, RInv, HangTypeOK
  <2>2. splk_holder[l] \in S
    BY <1>2, <1>4, <2>1 DEF Stuck
  <2>3. l_holding[l] = splk_holder[l]
    BY <1>1, <2>1, <2>2 DEF RInv, HangTypeOK, HoldsRecorded
  <2>4. PICK C \in SUBSET HangActors : l_holding[l] \in C /\ Closed(C) /\ a \notin C
    BY <2>1, <2>2, <2>3, NobodyIsNone DEF hangman_check
  <2> DEFINE W == C \cap S
  <2>5. ASSUME NEW b \in W PROVE apc[b] = "spin" /\ splk_holder[want[b]] \in W
    <3>1. b # a /\ apc[b] = "spin"
      BY <1>1, <2>4
    <3>2. splk_holder[want[b]] \in S
      BY <1>1, <1>2, <3>1 DEF Stuck
    <3>3. CASE splk_holder[want[b]] = a
      \* a was running: its locks are recorded, so the loop would meet it.
      <4>1. l_holding[want[b]] = a /\ a_waiting[b] = want[b]
        BY <2>1, <3>1, <3>3 DEF RInv, HangTypeOK, WaitsRecorded, HoldsRecorded
      <4>2. Follows(b) = a
        BY <3>1, <4>1, NobodyIsNone DEF Follows, RInv, HangTypeOK, WaitsRecorded
      <4> QED BY <2>4, <4>2, NobodyIsNone DEF Closed
    <3>4. CASE splk_holder[want[b]] # a
      <4>1. Follows(b) = splk_holder[want[b]]
        BY <1>1, <3>1, <3>2, <3>4, HolderFollows
      <4> QED BY <2>4, <3>1, <3>2, <4>1, NobodyIsNone DEF Closed
    <3> QED BY <3>3, <3>4
  <2>6. Stuck(W) /\ W # {} /\ W \in SUBSET HangActors
    BY <2>2, <2>3, <2>4, <2>5 DEF Stuck
  <2> QED BY <2>6 DEF NobodyStuck
<1> QED BY <1>3, <1>4

\* Taking or clearing a lock, and the other steps, complete no deadlock.
LEMMA NextNobodyStuck ==
  ASSUME RInv, NobodyStuck, HangNext
  PROVE  NobodyStuck'
<1>1. ASSUME NEW a \in HangActors,
             Report(a) \/ spinlock_got(a) \/ hangman_acquire(a) \/ spinlock_cleared(a)
             \/ \E l \in Lockables : hangman_release(a, l)
      PROVE  NobodyStuck'
  <2> SUFFICES ASSUME NEW S \in SUBSET HangActors, S # {}, Stuck(S)' PROVE Stuck(S)
    BY DEF NobodyStuck
  <2> USE NobodyIsNone DEF Stuck, RInv, HangTypeOK
  <2>1. CASE Report(a)
    BY <2>1, Zenon DEF Report
  <2>2. CASE spinlock_got(a)
    <3>1. \A b \in S : b # a /\ apc[b] = "spin" /\ splk_holder'[want[b]] \in S
      BY <2>2, GotStep
    <3>2. \A b \in S : want[b] \in Lockables
      BY <3>1 DEF WaitsRecorded
    <3> QED BY <2>2, <3>1, <3>2, GotStep
  <2>3. CASE hangman_acquire(a)
    BY <2>3, AcquireStep
  <2>4. CASE spinlock_cleared(a)
    BY <2>4, Zenon DEF spinlock_cleared, WaitsRecorded
  <2>5. ASSUME NEW l \in Lockables, hangman_release(a, l) PROVE Stuck(S)
    BY <2>5, Zenon DEF hangman_release
  <2> QED BY <1>1, <2>1, <2>2, <2>3, <2>4, <2>5
<1> QED BY <1>1, WaitKeepsNobodyStuck DEF HangNext

----------------------------------------------------------------------------
(* No deadlock is reported that is not there                               *)

\* What AlarmIsReal says of a CPU that found a cycle.
Cycle(a, S) ==
  /\ splk_holder[want[a]] \in S
  /\ \A b \in S : apc[b] = "spin" /\ splk_holder[want[b]] \in S \cup {a}

\* The CPUs from which the loop meets a given one.
Meets(a) == {b \in HangActors : \A S \in SUBSET HangActors : b \in S /\ Closed(S) => a \in S}

\* From such a CPU the loop goes on to another.
LEMMA MeetsFollows ==
  ASSUME RInv, NEW a \in HangActors, NEW b \in Meets(a), b # a
  PROVE  Follows(b) \in Meets(a)
<1>1. Follows(b) # Nobody
  <2> SUFFICES ASSUME Follows(b) = Nobody PROVE FALSE
    OBVIOUS
  <2>1. Closed({b})
    BY DEF Closed
  <2> QED BY <2>1 DEF Meets
<1>2. Follows(b) \in HangActors
  BY <1>1, FollowsHolder DEF Meets
<1>3. ASSUME NEW S \in SUBSET HangActors, Follows(b) \in S, Closed(S) PROVE a \in S
  <2>1. Closed(S \cup {b})
    BY <1>3 DEF Closed
  <2> QED BY <2>1 DEF Meets
<1> QED BY <1>2, <1>3 DEF Meets

\* When hangman_check finds the CPU a, the CPUs from which it is met are the
\* cycle.
LEMMA CheckFindsCycle ==
  ASSUME RInv, NEW a \in HangActors, NEW l \in Lockables, hangman_wait(a, l), apc'[a] = "found"
  PROVE  Cycle(a, Meets(a) \ {a})'
<1> DEFINE S == Meets(a) \ {a}
<1>1. /\ hangman_check(l, a) /\ splk_holder[l] # a /\ apc[a] = "run"
      /\ want' = [want EXCEPT ![a] = l] /\ apc' = [apc EXCEPT ![a] = "found"]
      /\ UNCHANGED <<splk_holder, a_waiting, l_holding>>
  BY Zenon DEF hangman_wait, RInv, HangTypeOK
<1>2. S' = S
  BY <1>1 DEF Meets, Closed, Follows
<1>3. splk_holder[l] \in S
  <2>1. l_holding[l] = splk_holder[l] /\ l_holding[l] \in HangActors
    BY <1>1 DEF hangman_check, RInv, HangTypeOK, HoldsRecorded
  <2> QED BY <1>1, <2>1 DEF hangman_check, Meets
<1>4. ASSUME NEW b \in S PROVE apc[b] = "spin" /\ splk_holder[want[b]] \in S \cup {a}
  <2>1. b \in HangActors /\ Follows(b) \in Meets(a)
    BY MeetsFollows DEF Meets
  <2>2. Follows(b) # Nobody
    BY <2>1, NobodyIsNone DEF Meets
  <2> QED BY <2>1, <2>2, FollowsHolder
<1>5. \A b \in S : b \in HangActors /\ b # a
  BY DEF Meets
<1> QED BY <1>1, <1>2, <1>3, <1>4, <1>5 DEF Cycle, RInv, HangTypeOK

\* The cycle stays while it is printed.
LEMMA CycleStays ==
  ASSUME RInv, HangNext, NEW a \in HangActors, apc[a] = "found",
         NEW S \in SUBSET (HangActors \ {a}), Cycle(a, S)
  PROVE  Cycle(a, S)'
<1>1. splk_holder[want[a]] \in S /\ a \notin S
  BY DEF Cycle
<1>2. \A b \in S : b \in HangActors /\ apc[b] = "spin" /\ splk_holder[want[b]] \in S \cup {a}
  BY DEF Cycle
<1>3. \A b \in S \cup {a} : want[b] \in Lockables
  BY <1>2 DEF RInv, WaitsRecorded
\* A step of a CPU outside the cycle takes no lock of it.
<1>4. SUFFICES ASSUME NEW c \in HangActors,
                      Report(c) \/ spinlock_got(c) \/ hangman_acquire(c) \/ spinlock_cleared(c)
                      \/ \E l \in Lockables : hangman_wait(c, l) \/ hangman_release(c, l)
               PROVE  \A b \in S \cup {a} : /\ b \in S => apc'[b] = "spin"
                                            /\ want'[b] = want[b]
                                            /\ splk_holder'[want[b]] = splk_holder[want[b]]
  <2>1. PICK c \in HangActors :
          \/ Report(c) \/ spinlock_got(c) \/ hangman_acquire(c) \/ spinlock_cleared(c)
          \/ \E l \in Lockables : hangman_wait(c, l) \/ hangman_release(c, l)
    BY Zenon DEF HangNext
  <2>2. \A b \in S \cup {a} : /\ b \in S => apc'[b] = "spin"
                             /\ want'[b] = want[b]
                             /\ splk_holder'[want[b]] = splk_holder[want[b]]
    BY <1>4, <2>1, Zenon
  <2>3. splk_holder'[want'[a]] \in S
    BY <1>1, <2>2, Zenon
  <2>4. \A b \in S : apc'[b] = "spin" /\ splk_holder'[want'[b]] \in S \cup {a}
    BY <1>2, <2>2, Zenon
  <2> QED BY <2>3, <2>4, Zenon DEF Cycle
<1> USE DEF RInv, HangTypeOK
<1>5. CASE Report(c)
  BY <1>2, <1>5, Zenon DEF Report
<1>6. CASE spinlock_got(c)
  BY <1>1, <1>2, <1>3, <1>6, GotStep, NobodyIsNone
<1>7. CASE hangman_acquire(c)
  BY <1>2, <1>7, AcquireStep
<1>8. CASE spinlock_cleared(c)
  <2>1. splk_holder[want[c]] = c /\ c \notin S \cup {a}
    BY <1>2, <1>8, ClearedStep DEF HoldsRecorded
  <2> QED BY <1>1, <1>2, <1>3, <1>8, <2>1, ClearedStep
<1>9. ASSUME NEW l \in Lockables, hangman_wait(c, l) \/ hangman_release(c, l)
      PROVE  \A b \in S \cup {a} : /\ b \in S => apc'[b] = "spin"
                                   /\ want'[b] = want[b]
                                   /\ splk_holder'[want[b]] = splk_holder[want[b]]
  BY <1>2, <1>9, WaitStep, ReleaseStep
<1> QED BY <1>4, <1>5, <1>6, <1>7, <1>8, <1>9

\* A cycle is found when it is there, and stays; the other panics do not occur.
LEMMA NextAlarmIsReal ==
  ASSUME RInv, AlarmIsReal, HangNext
  PROVE  AlarmIsReal'
<1>1. ASSUME NEW a \in HangActors, apc'[a] = "found"
      PROVE  \E S \in SUBSET (HangActors \ {a}) : Cycle(a, S)'
  <2>1. CASE apc[a] = "found"
    <3>1. PICK S \in SUBSET (HangActors \ {a}) : Cycle(a, S)
      BY <2>1, Zenon DEF AlarmIsReal, Cycle
    <3> QED BY <2>1, <3>1, CycleStays
  <2>2. CASE apc[a] # "found"
    <3>1. PICK l \in Lockables : hangman_wait(a, l)
      <4>1. ASSUME NEW c \in HangActors,
                   Report(c) \/ spinlock_got(c) \/ hangman_acquire(c) \/ spinlock_cleared(c)
            PROVE  FALSE
        <5> USE DEF RInv, HangTypeOK
        <5>1. CASE Report(c)
          BY <1>1, <2>2, <5>1, Zenon DEF Report
        <5>2. CASE spinlock_got(c)
          BY <1>1, <2>2, <5>2, GotStep, Zenon
        <5>3. CASE hangman_acquire(c)
          BY <1>1, <2>2, <5>3, AcquireStep, Zenon
        <5>4. CASE spinlock_cleared(c)
          BY <1>1, <2>2, <5>4, ClearedStep, Zenon
        <5> QED BY <4>1, <5>1, <5>2, <5>3, <5>4, Zenon
      <4>2. ASSUME NEW c \in HangActors, NEW l \in Lockables, hangman_release(c, l) PROVE FALSE
        BY <1>1, <2>2, <4>2, ReleaseStep DEF RInv, HangTypeOK
      <4>3. ASSUME NEW c \in HangActors, NEW l \in Lockables, hangman_wait(c, l) PROVE c = a
        BY <1>1, <2>2, <4>3, WaitStep DEF RInv, HangTypeOK
      <4> QED BY <4>1, <4>2, <4>3 DEF HangNext
    <3>2. Cycle(a, Meets(a) \ {a})'
      BY <1>1, <3>1, CheckFindsCycle
    <3>3. (Meets(a) \ {a})' \in SUBSET (HangActors \ {a})
      BY DEF Meets
    <3> QED BY <3>2, <3>3, Zenon DEF Cycle
  <2> QED BY <2>1, <2>2
<1>2. hung' \in {"", "Deadlock", "Deadlock on spinlock"}
  <2> USE DEF AlarmIsReal
  <2> DEFINE Right == hung' \in {"", "Deadlock", "Deadlock on spinlock"}
  <2>1. ASSUME NEW a \in HangActors, Report(a) \/ spinlock_got(a) \/ spinlock_cleared(a) PROVE Right
    BY <2>1, Zenon DEF Report, spinlock_got, spinlock_cleared
  <2>2. ASSUME NEW a \in HangActors, hangman_acquire(a) PROVE Right
    BY <2>2, AcquireStep, Zenon
  <2>3. ASSUME NEW a \in HangActors, NEW l \in Lockables, hangman_wait(a, l) PROVE Right
    BY <2>3, Zenon DEF hangman_wait, RInv, WaitsRecorded
  <2>4. ASSUME NEW a \in HangActors, NEW l \in Lockables, hangman_release(a, l) PROVE Right
    BY <2>4, ReleaseStep, Zenon
  <2> QED BY <2>1, <2>2, <2>3, <2>4, Zenon DEF HangNext
<1> QED BY <1>1, <1>2, Zenon DEF AlarmIsReal, Cycle

----------------------------------------------------------------------------

\* Every step preserves the inductive invariant.
LEMMA HangNextIInv == HangIInv /\ [HangNext]_hangvars => HangIInv'
<1> SUFFICES ASSUME HangIInv, [HangNext]_hangvars PROVE HangIInv'
  OBVIOUS
<1>1. CASE HangNext
  BY <1>1, NextRInv, NextNobodyStuck, NextAlarmIsReal DEF HangIInv
<1>2. CASE UNCHANGED hangvars
  <2>1. RInv'
    BY <1>2 DEF hangvars, HangIInv, RInv, HangTypeOK, WaitsRecorded, HoldsRecorded
  <2>2. NobodyStuck' /\ AlarmIsReal'
    BY <1>2, Zenon DEF hangvars, HangIInv, NobodyStuck, Stuck, AlarmIsReal
  <2> QED BY <2>1, <2>2 DEF HangIInv
<1> QED BY <1>1, <1>2

\* A set the loop of hangman_check could stay in would be a deadlock.
LEMMA LoopEnds ==
  ASSUME HangIInv, NEW S \in SUBSET HangActors, S # {}
  PROVE  \E a \in S : Follows(a) \notin S
<1> SUFFICES ASSUME \A a \in S : Follows(a) \in S PROVE FALSE
  OBVIOUS
<1>1. Stuck(S)
  BY FollowsHolder, NobodyIsNone, Zenon DEF Stuck, HangIInv
<1> QED BY <1>1 DEF HangIInv, NobodyStuck

\* DetectorIsRight: hangman misses no deadlock of spinlocks, its loop ends, and
\* what it reports is a deadlock until the report is printed.
THEOREM DetectorRight == HangSpec => []DetectorIsRight
<1>1. HangIInv => DetectorIsRight
  BY LoopEnds DEF DetectorIsRight, NoSilentDeadlock, NobodyStuck, HangIInv
<1> QED BY HangInitIInv, HangNextIInv, <1>1, PTL DEF HangSpec
=============================================================================
