------------------------------ MODULE MC_Files ------------------------------
(***************************************************************************)
(* The VFS layer (module Vfs), the semaphore file system (module Semfs,    *)
(* which has two parts), SFS (module Sfs: names, and blocks) and the       *)
(* kernel heap (module Kmalloc).  They have no state in common but         *)
(* sems_lock, which module Semfs has for all the semaphores and their      *)
(* uses, and each step of one is a critical section that the others do not *)
(* touch; a behaviour takes one of the parts, and the invariants, each     *)
(* about one part, miss nothing.                                           *)
(*                                                                         *)
(* Volumes: two threads of one process, another process, and two devices.  *)
(* Semaphores: three threads, two names and a table of two semaphores: one *)
(* can be open in two threads and removed by the third, its number can be  *)
(* used again for another name, and the table can be full.  Counting:      *)
(* three threads read, write and truncate by 0 to 2 units; the count wraps *)
(* after 3, so that a write can overflow and a read can take part of what  *)
(* it wants.                                                               *)
(*                                                                         *)
(* Names: three threads, two names and two inodes, so that a file can have *)
(* both names, be removed while others have it open, and its inode be used *)
(* again.  Blocks: two files on a disk with four blocks to give; a file    *)
(* has one direct block and an indirect block with two entries, so that    *)
(* two full files do not fit.                                              *)
(*                                                                         *)
(* Heap: two threads, two block types of two blocks to the page (as 2048   *)
(* has), four pages, and two roots of two pagerefs each, so that both      *)
(* threads race for the first page of pagerefs and a pageref is used again *)
(* for a page of another size; or of one each (tight heap), so that        *)
(* pagerefs run out and a root can be full without having a page.          *)
(*                                                                         *)
(* The sets of different parts share their elements, which keeps the group *)
(* of permutations small: x1 to x3 stand for threads, a1 and a2 for names, *)
(* files and threads.                                                      *)
(***************************************************************************)
EXTENDS Vfs, Semfs, Sfs, Kmalloc, TLC

VARIABLE part

Tight == INSTANCE Kmalloc WITH RefsPerPage <- 1

mc_vars == <<vfs_vars, vars, io_vars, sfs_vars, bmap_vars, km_vars, part>>

MCInit ==
  /\ part \in {"volumes", "semaphores", "counting", "names", "blocks", "heap", "tight heap"}
  /\ VfsInit /\ Init /\ IoInit /\ SfsInit /\ BmapInit
  /\ IF part = "tight heap" THEN Tight!KmInit ELSE KmInit

MCNext ==
  /\ UNCHANGED part
  /\ \/ part = "volumes" /\ VfsNext /\ UNCHANGED <<vars, io_vars, sfs_vars, bmap_vars, km_vars>>
     \/ part = "semaphores" /\ Next /\ UNCHANGED <<vfs_vars, io_vars, sfs_vars, bmap_vars, km_vars>>
     \/ part = "counting" /\ IoNext /\ UNCHANGED <<vfs_vars, vars, sfs_vars, bmap_vars, km_vars>>
     \/ part = "names" /\ SfsNext /\ UNCHANGED <<vfs_vars, vars, io_vars, bmap_vars, km_vars>>
     \/ part = "blocks" /\ BmapNext /\ UNCHANGED <<vfs_vars, vars, io_vars, sfs_vars, km_vars>>
     \/ part = "heap" /\ KmNext /\ UNCHANGED <<vfs_vars, vars, io_vars, sfs_vars, bmap_vars>>
     \/ part = "tight heap" /\ Tight!KmNext /\ UNCHANGED <<vfs_vars, vars, io_vars, sfs_vars, bmap_vars>>

MCSpec == MCInit /\ [][MCNext]_mc_vars

MCBlocksPerPage == (0 :> 2) @@ (1 :> 2)

Symmetry == Permutations(Threads) \cup Permutations(Names)

----------------------------------------------------------------------------

(***************************************************************************)
(* semfs: the counts of vnodes are exact and whoever has one open finds    *)
(* its semaphore; names and linked semaphores correspond one to one; when  *)
(* semfs_remove and semfs_reclaim race one of them destroys the semaphore; *)
(* reads, writes and truncations neither make nor lose units, also where   *)
(* the count would overflow.                                               *)
(***************************************************************************)
SemaphoresExact == RefcountExact /\ DirectoryMatchesTable /\ NoSemLeaked /\ UnitsConserved

(***************************************************************************)
(* SFS: a file's link count is the number of its names after every failed  *)
(* or undone operation; its vnode has as many references as openers; an    *)
(* inode in use has a name or a vnode, so that a file removed while it is  *)
(* open is erased when it is closed; a vnode that is not dirty is what is  *)
(* on the disk.                                                            *)
(***************************************************************************)
NamesAndInodesExact == LinkCountExact /\ SfsRefcountExact /\ InodesExact /\ CleanIsOnDisk

(***************************************************************************)
(* kmalloc: every block is free once or with one caller, every page has    *)
(* one use (being leaked by dumbvm's free_kpages, and never given again,   *)
(* is one), and every page reference one owner, whatever happens while     *)
(* subpage_kmalloc has dropped its lock to ask for a page.                 *)
(***************************************************************************)
HeapExact ==
  IF part = "tight heap"
  THEN Tight!EveryBlockOnce /\ Tight!EveryPageOnce /\ Tight!PagerefsConsistent
  ELSE EveryBlockOnce /\ EveryPageOnce /\ PagerefsConsistent
=============================================================================
