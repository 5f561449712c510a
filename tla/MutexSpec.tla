----------------------------- MODULE MutexSpec -----------------------------
(***************************************************************************)
(* What a lock promises (kern/include/synch.h:66-71 and 88-97): one owner  *)
(* at a time, taken and given up in indivisible steps, and only by the     *)
(* thread itself; releasing a lock one does not hold is a fatal error.     *)
(* While the lock is free and somebody wants it, somebody gets it; which   *)
(* of the waiters does is left open.                                       *)
(***************************************************************************)
CONSTANTS Threads, Nobody

VARIABLES owner,     \* the thread that holds the lock, or Nobody
          wanting,   \* the threads inside lock_acquire
          stopped    \* the system has panicked

mvars == <<owner, wanting, stopped>>

MInit ==
  /\ owner = Nobody
  /\ wanting = {}
  /\ stopped = FALSE

Ask(t) ==
  /\ ~stopped
  /\ t \notin wanting
  /\ wanting' = wanting \cup {t}
  /\ UNCHANGED <<owner, stopped>>

Obtain(t) ==
  /\ ~stopped
  /\ t \in wanting
  /\ owner = Nobody
  /\ owner' = t
  /\ wanting' = wanting \ {t}
  /\ UNCHANGED stopped

Yield(t) ==
  /\ ~stopped
  /\ owner = t
  /\ t \notin wanting
  /\ owner' = Nobody
  /\ UNCHANGED <<wanting, stopped>>

Misuse(t) ==
  /\ ~stopped
  /\ owner # t
  /\ t \notin wanting
  /\ stopped' = TRUE
  /\ UNCHANGED <<owner, wanting>>

MNext == \E t \in Threads : Ask(t) \/ Obtain(t) \/ Yield(t) \/ Misuse(t)

MSafe == MInit /\ [][MNext]_mvars
MSpec == MSafe /\ WF_mvars(\E t \in Threads : Obtain(t))
=============================================================================
