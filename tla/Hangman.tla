------------------------------ MODULE Hangman ------------------------------
(***************************************************************************)
(* The deadlock detector of kernels built with "options hangman"           *)
(* (thread/hangman.c), called by spinlock_acquire and spinlock_release.    *)
(* What the detector records lags behind what the locks are: a CPU has a   *)
(* lock before it says so and says that it lets it go before it does.      *)
(***************************************************************************)

CONSTANTS HangActors, \* CPUs
          Lockables,  \* spinlocks
          Nobody

ASSUME NobodyIsNone == Nobody \notin HangActors \cup Lockables

VARIABLES splk_holder,  \* who really has each lock
          a_waiting, l_holding,
          apc, want,    \* where a CPU is in a spinlock call, and with which lock
          hung          \* a panic

hangvars == <<splk_holder, a_waiting, l_holding, apc, want, hung>>

\* The turn of hangman_check's loop that leaves the CPU cur.
Follows(cur) == IF a_waiting[cur] = Nobody THEN Nobody ELSE l_holding[a_waiting[cur]]
Closed(S) == \A cur \in S : Follows(cur) \in S \cup {Nobody}

\* The loop meets what every set that holds its first CPU, and with a CPU the
\* one that follows, has to hold.
\* Mutant: only the lock's holder itself is looked at.
hangman_check_holder(start, target) == l_holding[start] = target
hangman_check(start, target) ==
  /\ l_holding[start] # Nobody
  /\ \A S \in SUBSET HangActors : l_holding[start] \in S /\ Closed(S) => target \in S

\* spinlock_acquire, up to its wait; a caller that has the lock is told so.
\* The lock of the detector itself is not tracked: hangman_wait is one step.
hangman_wait(a, l) ==
  /\ hung = "" /\ apc[a] = "run"
  /\ want' = [want EXCEPT ![a] = l]
  /\ \/ splk_holder[l] = a /\ hung' = "Deadlock on spinlock" /\ UNCHANGED <<a_waiting, apc>>
     \/ /\ splk_holder[l] # a /\ a_waiting[a] # Nobody
        /\ hung' = "already waiting" /\ UNCHANGED <<a_waiting, apc>>
     \/ /\ splk_holder[l] # a /\ a_waiting[a] = Nobody /\ hangman_check(l, a)
        /\ apc' = [apc EXCEPT ![a] = "found"] /\ UNCHANGED <<a_waiting, hung>>
     \/ /\ splk_holder[l] # a /\ a_waiting[a] = Nobody /\ ~hangman_check(l, a)
        /\ a_waiting' = [a_waiting EXCEPT ![a] = l]
        /\ apc' = [apc EXCEPT ![a] = "spin"] /\ UNCHANGED hung
  /\ UNCHANGED <<splk_holder, l_holding>>

\* The cycle is printed, without the detector's lock.
Report(a) ==
  /\ hung = "" /\ apc[a] = "found"
  /\ hung' = "Deadlock"
  /\ UNCHANGED <<splk_holder, a_waiting, l_holding, apc, want>>

\* The test-and-set succeeds.
spinlock_got(a) ==
  /\ hung = "" /\ apc[a] = "spin" /\ splk_holder[want[a]] = Nobody
  /\ splk_holder' = [splk_holder EXCEPT ![want[a]] = a]
  /\ apc' = [apc EXCEPT ![a] = "got"]
  /\ UNCHANGED <<a_waiting, l_holding, want, hung>>

hangman_acquire(a) ==
  /\ hung = "" /\ apc[a] = "got"
  /\ \/ a_waiting[a] # want[a] /\ hung' = "not waiting" /\ UNCHANGED <<a_waiting, l_holding, apc>>
     \/ /\ a_waiting[a] = want[a] /\ l_holding[want[a]] # Nobody
        /\ hung' = "still held" /\ UNCHANGED <<a_waiting, l_holding, apc>>
     \/ /\ a_waiting[a] = want[a] /\ l_holding[want[a]] = Nobody
        /\ l_holding' = [l_holding EXCEPT ![want[a]] = a]
        /\ a_waiting' = [a_waiting EXCEPT ![a] = Nobody]
        /\ apc' = [apc EXCEPT ![a] = "run"] /\ UNCHANGED hung
  /\ UNCHANGED <<splk_holder, want>>

\* spinlock_release, up to the clearing of the lock.
\* Mutant: the lock is still recorded as held.
hangman_release_keeps(a, l) ==
  /\ hung = "" /\ apc[a] = "run" /\ splk_holder[l] = a
  /\ apc' = [apc EXCEPT ![a] = "release"] /\ want' = [want EXCEPT ![a] = l]
  /\ UNCHANGED <<l_holding, splk_holder, a_waiting, hung>>
hangman_release(a, l) ==
  /\ hung = "" /\ apc[a] = "run" /\ splk_holder[l] = a
  /\ \/ a_waiting[a] # Nobody /\ hung' = "waiting" /\ UNCHANGED <<l_holding, apc, want>>
     \/ a_waiting[a] = Nobody /\ l_holding[l] # a /\ hung' = "not the holder" /\ UNCHANGED <<l_holding, apc, want>>
     \/ /\ a_waiting[a] = Nobody /\ l_holding[l] = a
        /\ l_holding' = [l_holding EXCEPT ![l] = Nobody]
        /\ apc' = [apc EXCEPT ![a] = "release"] /\ want' = [want EXCEPT ![a] = l] /\ UNCHANGED hung
  /\ UNCHANGED <<splk_holder, a_waiting>>

spinlock_cleared(a) ==
  /\ hung = "" /\ apc[a] = "release"
  /\ splk_holder' = [splk_holder EXCEPT ![want[a]] = Nobody]
  /\ apc' = [apc EXCEPT ![a] = "run"]
  /\ UNCHANGED <<a_waiting, l_holding, want, hung>>

HangInit ==
  /\ splk_holder = [l \in Lockables |-> Nobody] /\ l_holding = [l \in Lockables |-> Nobody]
  /\ a_waiting = [a \in HangActors |-> Nobody]
  /\ apc = [a \in HangActors |-> "run"] /\ want = [a \in HangActors |-> Nobody]
  /\ hung = ""

HangNext ==
  \E a \in HangActors :
    \/ Report(a) \/ spinlock_got(a) \/ hangman_acquire(a) \/ spinlock_cleared(a)
    \/ \E l \in Lockables : hangman_wait(a, l) \/ hangman_release(a, l)

HangSpec == HangInit /\ [][HangNext]_hangvars

----------------------------------------------------------------------------

\* CPUs that will spin for ever: each spins for a lock that one of them has.
Stuck(S) == \A a \in S : apc[a] = "spin" /\ splk_holder[want[a]] \in S

\* No set of CPUs is ever left spinning for each other's locks: the last of
\* them to call hangman_wait finds the cycle, although locks are taken before
\* and let go after they are recorded; and hangman_check's loop always ends,
\* since it has no set of CPUs to go round in.
NoSilentDeadlock ==
  /\ \A S \in SUBSET HangActors : S # {} => ~Stuck(S)
  /\ \A S \in SUBSET HangActors : S # {} => \E a \in S : Follows(a) \notin S

\* A CPU that reports a cycle would complete a real one, and the cycle is still
\* there while it is printed without hangman_lock ("None of this can change
\* while we print it"); none of the detector's other panics happens.
AlarmIsReal ==
  /\ \A a \in HangActors : apc[a] = "found" =>
       \E S \in SUBSET (HangActors \ {a}) :
         /\ splk_holder[want[a]] \in S
         /\ \A b \in S : apc[b] = "spin" /\ splk_holder[want[b]] \in S \cup {a}
  /\ hung \in {"", "Deadlock", "Deadlock on spinlock"}

\* The deadlock detector: no CPUs are left spinning for each other's
\* spinlocks unreported, though hangman's records lag behind the locks; and a
\* cycle that it reports is real, and still there while it is printed without
\* hangman_lock.
DetectorIsRight == NoSilentDeadlock /\ AlarmIsReal

============================================================================
