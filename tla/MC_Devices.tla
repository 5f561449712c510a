---------------------------- MODULE MC_Devices ----------------------------
(***************************************************************************)
(* The drivers: the disk (module Lhd) and the console (module Console).    *)
(* They have no state in common; a behaviour takes one of them.            *)
(*                                                                         *)
(* Disk: two threads and two sectors with one of two values each; requests *)
(* of one sector, tried at most twice (in the run that looks for a lost    *)
(* write: as often as the code tries).  Console: two writers, each by      *)
(* interrupt or by polling, two readers through con_io and one through     *)
(* kgets, and an input buffer that is full with two characters.  What      *)
(* happens once two readers have had the tail together is not followed.    *)
(***************************************************************************)
EXTENDS Lhd, Console

VARIABLE device

mc_vars == <<vars, con_vars, device>>

MCInit ==
  /\ Init /\ ConInit
  /\ \/ device = "disk"
     \/ device = "console" /\ disk = [s \in Sectors |-> CHOOSE d \in Data : TRUE]

MCNext ==
  /\ UNCHANGED device
  /\ \/ device = "disk" /\ Next /\ UNCHANGED con_vars
     \/ device = "console" /\ ~together /\ ConNext /\ UNCHANGED vars
     \/ device = "console" /\ together /\ UNCHANGED <<vars, con_vars>>

\* The fairness of the disk asks for nothing while there is no request.
MCSpec == MCInit /\ [][MCNext]_mc_vars /\ Fairness
=============================================================================
