----------------------------- MODULE MC_Volumes -----------------------------
(***************************************************************************)
(* What works on volumes without being SFS: the crash tester frack         *)
(* (modules FrackWorkloads and Frack), the tools mksfs, sfsck and dumpsfs  *)
(* (module Sfsck), and the emulator's pass-through file system (module     *)
(* Emu).  They have no state in common: a behaviour takes one of them.     *)
(*                                                                         *)
(* frack: every workload, scaled to files of a few blocks.  sfsck: three   *)
(* volumes, one damaged field of any kind, three runs, each of which the   *)
(* machine can stop in.  emufs: two threads, the root and one file, two    *)
(* vnodes, one media error and one failed allocation; transfers of two     *)
(* units in requests of one.                                               *)
(*                                                                         *)
(* frack and the tools are programs that end; emufs has no end, and a      *)
(* deadlock of this model is one of emufs.                                 *)
(***************************************************************************)
EXTENDS Frack, Sfsck, Emu, TLC

VARIABLE subject

mc_vars == <<fvars, kvars, evars, subject>>

MCInit ==
  /\ subject \in {"frack", "tools", "emufs"}
  /\ IF subject = "frack" THEN FrackInit ELSE FrackStart(<<>>)
  /\ SfsckInit /\ EmuInit
  /\ subject # "tools" => disk = Empty
  /\ subject # "emufs" => \A f \in EmuFiles : fsize[f] = EmuNone

MCNext ==
  /\ UNCHANGED subject
  /\ \/ subject = "frack" /\ FrackNext /\ UNCHANGED <<kvars, evars>>
     \/ subject = "tools" /\ SfsckNext /\ UNCHANGED <<fvars, evars>>
     \/ subject = "emufs" /\ EmuNext /\ UNCHANGED <<fvars, kvars>>
     \/ subject # "emufs" /\ UNCHANGED <<fvars, kvars, evars>>

MCSpec == MCInit /\ [][MCNext]_mc_vars

MCBadNames == {<<>>, <<".">>, <<"..">>, <<"a">>, <<"a", "~">>, <<"d", ":">>}
MCTransfers == {[off |-> 0, len |-> 2]}
Symmetry == Permutations(EmuThreads) \cup Permutations(EmuVnodes)

----------------------------------------------------------------------------

(***************************************************************************)
(* frack: every workload can be replayed with the operations recorded; the *)
(* state it rebuilds is a tree in which each object is where its names say *)
(* it is; a volume left by a crash between any two operations, in an order *)
(* the file system may have written it, is recognized and its files are    *)
(* not reported, but for an assertion of the checker's own (check.c:2462)  *)
(* and where an earlier point of the workload with the same tree explains  *)
(* the files and the checker takes a later one.                            *)
(***************************************************************************)
FrackIsFair == subject = "frack" => WorkloadsReplay /\ ReplayedStateIsTree /\ NoFalseAlarm

(***************************************************************************)
(* sfsck repairs without losing: what the damage did not touch is still    *)
(* there, no block in use is free in the map, dumpsfs reads blocks in use  *)
(* only (whether or not it ends, which with -r it does not), and no        *)
(* assertion of sfsck fails on a volume it has not given up.               *)
(***************************************************************************)
RepairKeeps == FilesKept /\ NoUsedBlockFree /\ DumpReadsInUse /\ NeverAsserts

(***************************************************************************)
(* emufs: a handle of the host is open for each vnode and for no other     *)
(* use, also when loading a vnode runs out of memory; the registers a      *)
(* thread reads answer its own request; a thread between operations has    *)
(* neither e_lock nor vfs_biglock, except where kmalloc failed in          *)
(* emufs_loadvnode, which then keeps the latter.                           *)
(***************************************************************************)
EmuExact == subject = "emufs" => EmuHandlesExact /\ EmuReplyIsMine /\ EmuLocksReturned
=============================================================================
