------------------------------ MODULE MC_Synch ------------------------------
(***************************************************************************)
(* The parts the kernel's synchronization is made of, one at a time: part  *)
(* says which.                                                             *)
(*                                                                         *)
(* Three threads and one interrupt handler on one semaphore whose counter  *)
(* wraps after 3, so that barging, several sleepers, several units in      *)
(* flight and the overflow all occur.                                      *)
(*                                                                         *)
(* Four threads on one lock; one of them may ask for it while holding it.  *)
(* Two threads are enough for a newcomer to overtake, three for a woken    *)
(* thread to be overtaken while another sleeps, four to have two sleepers  *)
(* at that moment.                                                         *)
(*                                                                         *)
(* Three CPUs and three spinlocks for the deadlock detector, so that       *)
(* cycles of two and of three occur.  Two thread lists and four threads.   *)
(***************************************************************************)
EXTENDS Semaphore, Lock, Hangman, Threadlist

VARIABLE part

sy_vars == <<vars, lk_vars, hangvars, tlvars, part>>

SyInit ==
  /\ part \in {"semaphore", "lock", "hangman", "threadlist"}
  /\ Init /\ LockInit /\ HangInit /\ TlInit

SyNext ==
  /\ UNCHANGED part
  /\ \/ part = "semaphore" /\ Next /\ UNCHANGED <<lk_vars, hangvars, tlvars>>
     \/ part = "lock" /\ LockNext /\ UNCHANGED <<vars, hangvars, tlvars>>
     \/ part = "hangman" /\ HangNext /\ UNCHANGED <<vars, lk_vars, tlvars>>
     \/ part = "threadlist" /\ TlNext /\ UNCHANGED <<vars, lk_vars, hangvars>>

SySpec == SyInit /\ [][SyNext]_sy_vars /\ Fairness /\ LockFairness

MCNull == <<"null", 0>>

=============================================================================
