------------------------------ MODULE MC_Sched ------------------------------
(***************************************************************************)
(* The scheduler (module Sched), and what it rests on: interrupt masking   *)
(* and spinlocks (module Spl).  Module Sched takes its spinlocks as atomic *)
(* and module Spl has the switch as one of the places that masks           *)
(* interrupts; they have no state in common, and a behaviour takes one.    *)
(*                                                                         *)
(* Scheduler: two CPUs, three thread structures: two boot threads and one  *)
(* for fork.  A queue reaches two threads when its CPU idles on the stack  *)
(* of one that has been woken, and at two migration acts; structures are   *)
(* reused after exorcise.  In the run with fairness no thread exits, which *)
(* leaves the more of them to wait for a CPU.  Masking: two CPUs, three    *)
(* threads of which one is forked, a spinlock, and up to two nested spl,   *)
(* exception and interrupt frames of a thread, four of all together; the   *)
(* CPUs are symmetric.                                                     *)
(***************************************************************************)
EXTENDS Sched, Spl, TLC

CONSTANTS t1, t2, t3,       \* the scheduler's threads
          p1, p2, s1, s2, s3   \* the CPUs and threads of masking

VARIABLE layer

mc_vars == <<vars, spl_vars, layer>>

MCNext ==
  /\ UNCHANGED layer
  /\ \/ layer = "scheduler" /\ Next /\ UNCHANGED spl_vars
     \/ layer = "masking" /\ SplNext /\ UNCHANGED vars

MCInit == layer \in {"scheduler", "masking"} /\ Init /\ SplInit
MCSafe == MCInit /\ [][MCNext]_mc_vars

\* With fairness: the scheduler alone, with the exits of threads left out.
MCLiveInit == layer = "scheduler" /\ Init /\ SplInit
MCLiveNext == MCNext /\ \A c \in Cpus : newstate'[c] # "S_ZOMBIE"
MCLive == MCLiveInit /\ [][MCLiveNext]_mc_vars /\ Fairness

MCThreads == {t1, t2, t3}
MCBoot == 1 :> t1 @@ 2 :> t2
MCSplBoot == p1 :> s1 @@ p2 :> s2

\* The two CPUs of masking change places together with their first threads.
Symmetry ==
  {f \in Permutations({p1, p2, s1, s2}) :
     \A p \in {p1, p2} : f[p] \in {p1, p2} /\ f[MCSplBoot[p]] = MCSplBoot[f[p]]}
=============================================================================
