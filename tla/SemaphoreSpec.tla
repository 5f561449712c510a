--------------------------- MODULE SemaphoreSpec ---------------------------
(***************************************************************************)
(* What a counting semaphore promises its callers, with no spinlock, no    *)
(* wait channel and no wakeups: an actor that asked to decrement passes    *)
(* in one indivisible step when the value is positive, and posting adds    *)
(* one to the value.  kern/include/synch.h:57-60 states the contract:     *)
(* P decrements the count, and if it is 0 blocks until it is 1 again; V    *)
(* increments it; both are atomic.                                         *)
(*                                                                         *)
(* The value is a bounded machine integer; posting past Limit stops the    *)
(* system instead of wrapping.  No order among the waiters is promised.    *)
(***************************************************************************)
EXTENDS Naturals

CONSTANTS Actors,    \* whoever may call the semaphore
          Limit,     \* the largest value the counter can hold
          First      \* the value the semaphore is created with

VARIABLES value,     \* the count
          phase,     \* what each actor is doing
          stopped    \* the system has panicked

svars == <<value, phase, stopped>>

SInit ==
  /\ value = First
  /\ phase = [a \in Actors |-> "out"]
  /\ stopped = FALSE

Ask(a) ==
  /\ ~stopped
  /\ phase[a] = "out"
  /\ phase' = [phase EXCEPT ![a] = "wanting"]
  /\ UNCHANGED <<value, stopped>>

Pass(a) ==
  /\ ~stopped
  /\ phase[a] = "wanting"
  /\ value > 0
  /\ value' = value - 1
  /\ phase' = [phase EXCEPT ![a] = "out"]
  /\ UNCHANGED stopped

Offer(a) ==
  /\ ~stopped
  /\ phase[a] = "out"
  /\ phase' = [phase EXCEPT ![a] = "posting"]
  /\ UNCHANGED <<value, stopped>>

Post(a) ==
  /\ ~stopped
  /\ phase[a] = "posting"
  /\ value < Limit
  /\ value' = value + 1
  /\ phase' = [phase EXCEPT ![a] = "out"]
  /\ UNCHANGED stopped

Overflow(a) ==
  /\ ~stopped
  /\ phase[a] = "posting"
  /\ value = Limit
  /\ stopped' = TRUE
  /\ UNCHANGED <<value, phase>>

SNext == \E a \in Actors : Ask(a) \/ Pass(a) \/ Offer(a) \/ Post(a) \/ Overflow(a)

SSafe == SInit /\ [][SNext]_svars

\* While somebody wants in and the value stays positive, somebody gets in.
SLive == WF_svars(\E a \in Actors : Pass(a))

SSpec == SSafe /\ SLive
=============================================================================
