------------------------------- MODULE Semfs -------------------------------
(***************************************************************************)
(* The directory, the semaphore table and the vnodes of the semaphore file *)
(* system: semfs_creat, semfs_lookup, semfs_remove, closing (VOP_DECREF    *)
(* and semfs_reclaim), and the use of an open semaphore under sems_lock.   *)
(* The three kinds of lock are the mutex that module Lock implements.  A   *)
(* step of this module runs from one acquisition of a lock, or one access  *)
(* to sems_linked or sems_hasvnode that no lock covers, to the next.       *)
(* Allocation may fail (ENOMEM) wherever the code allocates.               *)
(***************************************************************************)
EXTENDS Integers, FiniteSets

CONSTANTS Threads, Names,
          MaxSems,      \* SEMFS_ROOTDIR: bound on semaphore numbers
          None

Nums == 0 .. MaxSems - 1

VARIABLES
  sem,         \* semfs_sems: per number None or the struct semfs_sem
  dents,       \* semfs_dents: the number each name is linked to, or None
  refcount,    \* semfs_vnodes: vn_refcount of the vnode of a number, 0 if none
  dirlock, tablelock,
  pc, name, num,   \* per thread: where it is, and its arguments
  held,        \* the semaphore number whose vnode a thread has open, or None
  panic        \* the assertion that has failed, or None

locals == <<pc, name, num>>
vars == <<sem, dents, refcount, dirlock, tablelock, locals, held, panic>>

semfs_sem_create == [linked |-> FALSE, hasvnode |-> FALSE, lock |-> None]

Init ==
  /\ sem = [n \in Nums |-> None]
  /\ dents = [x \in Names |-> None]
  /\ refcount = [n \in Nums |-> 0]
  /\ dirlock = None /\ tablelock = None
  /\ pc = [t \in Threads |-> "out"]
  /\ name = [t \in Threads |-> None]
  /\ num = [t \in Threads |-> None]
  /\ held = [t \in Threads |-> None]
  /\ panic = None

At(t, p) == panic = None /\ pc[t] = p
Goto(t, p) == pc' = [pc EXCEPT ![t] = p]
Return(t) ==
  /\ Goto(t, "out")
  /\ name' = [name EXCEPT ![t] = None]
  /\ num' = [num EXCEPT ![t] = None]

\* Another thread is not inside the table.
TableFree == tablelock = None

\* Open (creating or not) and remove take the directory lock first.
call(t) ==
  /\ At(t, "out") /\ dirlock = None
  /\ \E op \in {"creat", "creat_excl", "lookup", "remove"}, x \in Names :
       /\ op # "remove" => held[t] = None
       /\ Goto(t, op)
       /\ name' = [name EXCEPT ![t] = x]
  /\ dirlock' = t
  /\ UNCHANGED <<sem, dents, refcount, tablelock, num, held, panic>>

\* Leave with the directory lock released.
ReturnUnlock(t) == Return(t) /\ dirlock' = None

\* semfs_getvnode: the vnode in the table, or a new one for which sems_hasvnode
\* is set; all under the table lock.
semfs_getvnode(t, n) ==
  /\ TableFree
  /\ refcount' = [refcount EXCEPT ![n] = @ + 1]
  /\ sem' = IF refcount[n] > 0 THEN sem ELSE [sem EXCEPT ![n].hasvnode = TRUE]
  /\ held' = [held EXCEPT ![t] = n]

\* semfs_getvnode can fail only when it has to make the vnode.
getvnode_ENOMEM(n) == TableFree /\ refcount[n] = 0 /\ UNCHANGED <<refcount, sem, held>>

\* semfs_lookup, and semfs_creat of a name that exists.
open_found(t) ==
  /\ At(t, "creat") \/ At(t, "lookup")
  /\ dents[name[t]] # None
  /\ semfs_getvnode(t, dents[name[t]]) \/ getvnode_ENOMEM(dents[name[t]])
  /\ ReturnUnlock(t)
  /\ UNCHANGED <<dents, tablelock, panic>>

\* EEXIST of semfs_creat; ENOENT of semfs_lookup and semfs_remove.
open_refused(t) ==
  /\ \/ At(t, "creat_excl") /\ dents[name[t]] # None
     \/ At(t, "lookup") /\ dents[name[t]] = None
     \/ At(t, "remove") /\ dents[name[t]] = None
  /\ ReturnUnlock(t)
  /\ UNCHANGED <<sem, dents, refcount, tablelock, held, panic>>

EmptySlots == {n \in Nums : sem[n] = None}

\* semfs_sem_insert puts the new semaphore in the first empty slot of the table.
creat_insert(t) ==
  /\ At(t, "creat") \/ At(t, "creat_excl")
  /\ dents[name[t]] = None
  /\ TableFree
  /\ \E n \in EmptySlots : /\ \A k \in EmptySlots : n <= k
                           /\ sem' = [sem EXCEPT ![n] = semfs_sem_create]
                           /\ num' = [num EXCEPT ![t] = n]
  /\ Goto(t, "creat_dent")
  /\ UNCHANGED <<dents, refcount, dirlock, tablelock, name, held, panic>>

\* semfs_sem_create fails, or semfs_sem_insert does (ENOSPC or ENOMEM).
creat_insert_fails(t) ==
  /\ At(t, "creat") \/ At(t, "creat_excl")
  /\ dents[name[t]] = None
  /\ ReturnUnlock(t)
  /\ UNCHANGED <<sem, dents, refcount, tablelock, held, panic>>

creat_dent(t) ==
  /\ At(t, "creat_dent")
  /\ dents' = [dents EXCEPT ![name[t]] = num[t]]
  /\ Goto(t, "creat_getvnode")
  /\ UNCHANGED <<sem, refcount, dirlock, tablelock, name, num, held, panic>>

\* No memory for the directory entry (result is still 0), or for the array.
creat_dent_fails(t) ==
  /\ At(t, "creat_dent")
  /\ Goto(t, "creat_uninsert_0") \/ Goto(t, "creat_uninsert")
  /\ UNCHANGED <<sem, dents, refcount, dirlock, tablelock, name, num, held, panic>>

creat_getvnode(t) ==
  /\ At(t, "creat_getvnode")
  /\ \/ /\ semfs_getvnode(t, num[t])
        /\ Goto(t, "creat_link")
        /\ UNCHANGED dents
     \/ /\ getvnode_ENOMEM(num[t])
        /\ dents' = [dents EXCEPT ![name[t]] = None]
        /\ Goto(t, "creat_uninsert")
  /\ UNCHANGED <<dirlock, tablelock, name, num, panic>>

\* Mutant: the new semaphore is not marked as linked.
creat_link_forgotten(t) ==
  /\ At(t, "creat_link")
  /\ ReturnUnlock(t)
  /\ UNCHANGED <<sem, dents, refcount, tablelock, held, panic>>

creat_link(t) ==
  /\ At(t, "creat_link")
  /\ sem' = [sem EXCEPT ![num[t]].linked = TRUE]
  /\ ReturnUnlock(t)
  /\ UNCHANGED <<dents, refcount, tablelock, held, panic>>

\* fail_uninsert.  A result of 0 makes vfs_open go on to assert that it has a
\* vnode.
creat_uninsert(t) ==
  /\ At(t, "creat_uninsert") \/ At(t, "creat_uninsert_0")
  /\ TableFree
  /\ sem' = [sem EXCEPT ![num[t]] = None]
  /\ panic' = IF pc[t] = "creat_uninsert_0" THEN "vfs_open" ELSE None
  /\ ReturnUnlock(t)
  /\ UNCHANGED <<dents, refcount, tablelock, held>>

\* semfs_remove: find the semaphore (under the table lock) ...
remove_find(t) ==
  /\ At(t, "remove") /\ dents[name[t]] # None /\ TableFree
  /\ num' = [num EXCEPT ![t] = dents[name[t]]]
  /\ Goto(t, "remove_lock")
  /\ UNCHANGED <<sem, dents, refcount, dirlock, tablelock, name, held, panic>>

\* ... lock it and mark it unlinked ...
remove_unlink(t) ==
  /\ At(t, "remove_lock") /\ sem[num[t]].lock = None
  /\ sem' = [sem EXCEPT ![num[t]] = [@ EXCEPT !.lock = t, !.linked = FALSE]]
  /\ Goto(t, "remove_check")
  /\ UNCHANGED <<dents, refcount, dirlock, tablelock, name, num, held, panic>>

\* ... see whether it has a vnode, without the table lock ...
remove_check(t) ==
  /\ At(t, "remove_check")
  /\ Goto(t, IF sem[num[t]].hasvnode THEN "remove_keep" ELSE "remove_table")
  /\ UNCHANGED <<sem, dents, refcount, dirlock, tablelock, name, num, held, panic>>

UnlinkName(t) == dents' = [dents EXCEPT ![name[t]] = None]

\* ... and take it out of the table and destroy it if it has none ...
remove_destroy(t) ==
  /\ At(t, "remove_table") /\ TableFree
  /\ sem' = [sem EXCEPT ![num[t]] = None]
  /\ UnlinkName(t)
  /\ ReturnUnlock(t)
  /\ UNCHANGED <<refcount, tablelock, held, panic>>

\* ... or else leave it to semfs_reclaim.
remove_keep(t) ==
  /\ At(t, "remove_keep")
  /\ sem' = [sem EXCEPT ![num[t]].lock = None]
  /\ UnlinkName(t)
  /\ ReturnUnlock(t)
  /\ UNCHANGED <<refcount, tablelock, held, panic>>

\* A thread uses the semaphore it has open: semfs_getsem, then sems_lock.
use_begin(t) ==
  /\ At(t, "out") /\ held[t] # None /\ TableFree
  /\ sem[held[t]].lock = None
  /\ sem' = [sem EXCEPT ![held[t]].lock = t]
  /\ Goto(t, "use")
  /\ UNCHANGED <<dents, refcount, dirlock, tablelock, name, num, held, panic>>

use_end(t) ==
  /\ At(t, "use")
  /\ sem' = [sem EXCEPT ![held[t]].lock = None]
  /\ Goto(t, "out")
  /\ UNCHANGED <<dents, refcount, dirlock, tablelock, name, num, held, panic>>

\* VOP_DECREF, under vn_countlock: the last reference is passed to semfs_reclaim.
vnode_decref(t) ==
  /\ At(t, "out") /\ held[t] # None
  /\ IF refcount[held[t]] > 1
     THEN /\ refcount' = [refcount EXCEPT ![held[t]] = @ - 1]
          /\ held' = [held EXCEPT ![t] = None]
          /\ UNCHANGED pc
     ELSE Goto(t, "reclaim") /\ UNCHANGED <<refcount, held>>
  /\ UNCHANGED <<sem, dents, dirlock, tablelock, name, num, panic>>

\* semfs_reclaim: somebody has got hold of the vnode again.
reclaim_busy(t) ==
  /\ At(t, "reclaim") /\ TableFree /\ refcount[held[t]] > 1
  /\ refcount' = [refcount EXCEPT ![held[t]] = @ - 1]
  /\ held' = [held EXCEPT ![t] = None]
  /\ Return(t)
  /\ UNCHANGED <<sem, dents, dirlock, tablelock, panic>>

\* Mutant: the vnode is dropped whatever its count is by now.
reclaim_vnode_anyway(t) ==
  /\ At(t, "reclaim") /\ TableFree
  /\ tablelock' = t
  /\ refcount' = [refcount EXCEPT ![held[t]] = 0]
  /\ sem' = [sem EXCEPT ![held[t]].hasvnode = FALSE]
  /\ num' = [num EXCEPT ![t] = held[t]]
  /\ held' = [held EXCEPT ![t] = None]
  /\ Goto(t, "reclaim_sem")
  /\ UNCHANGED <<dents, dirlock, name, panic>>

\* The vnode leaves the table and the semaphore has none any more ...
reclaim_vnode(t) ==
  /\ At(t, "reclaim") /\ TableFree /\ refcount[held[t]] = 1
  /\ tablelock' = t
  /\ refcount' = [refcount EXCEPT ![held[t]] = 0]
  /\ sem' = [sem EXCEPT ![held[t]].hasvnode = FALSE]
  /\ num' = [num EXCEPT ![t] = held[t]]
  /\ held' = [held EXCEPT ![t] = None]
  /\ Goto(t, "reclaim_sem")
  /\ UNCHANGED <<dents, dirlock, name, panic>>

\* Mutant: an unlinked semaphore is left alone.
reclaim_sem_kept(t) ==
  /\ At(t, "reclaim_sem")
  /\ tablelock' = None
  /\ Return(t)
  /\ UNCHANGED <<sem, dents, refcount, dirlock, held, panic>>

\* ... and is destroyed if it has no name either, which sems_lock does not
\* cover; lock_destroy asserts that nobody holds the lock.
reclaim_sem(t) ==
  /\ At(t, "reclaim_sem")
  /\ IF sem[num[t]].linked
     THEN UNCHANGED <<sem, panic>>
     ELSE /\ sem' = [sem EXCEPT ![num[t]] = None]
          /\ panic' = IF sem[num[t]].lock # None THEN "lock_destroy" ELSE None
  /\ tablelock' = None
  /\ Return(t)
  /\ UNCHANGED <<dents, refcount, dirlock, held>>

\* A failed assertion stops the machine.
halted == panic # None /\ UNCHANGED vars

semfs_creat(t) ==
  \/ open_found(t) \/ open_refused(t) \/ creat_insert(t) \/ creat_insert_fails(t)
  \/ creat_dent(t) \/ creat_dent_fails(t) \/ creat_getvnode(t) \/ creat_link(t)
  \/ creat_uninsert(t)
semfs_remove(t) ==
  \/ remove_find(t) \/ remove_unlink(t) \/ remove_check(t)
  \/ remove_destroy(t) \/ remove_keep(t)
semfs_reclaim(t) == reclaim_busy(t) \/ reclaim_vnode(t) \/ reclaim_sem(t)

Next ==
  \/ \E t \in Threads : \/ call(t) \/ semfs_creat(t) \/ semfs_remove(t)
                        \/ use_begin(t) \/ use_end(t)
                        \/ vnode_decref(t) \/ semfs_reclaim(t)
  \/ halted

Spec == Init /\ [][Next]_vars

----------------------------------------------------------------------------

\* The reference count of a vnode is the number of threads that have it open,
\* with opens (semfs_getvnode), closes and reclaims of the same vnode racing,
\* and whoever has one open finds its semaphore in the table, which
\* semfs_getsem does not check, even after the semaphore has been removed.
RefcountExact ==
  /\ \A n \in Nums : refcount[n] = Cardinality({t \in Threads : held[t] = n})
  /\ \A t \in Threads : held[t] # None => sem[held[t]] # None /\ sem[held[t]].hasvnode

\* With nobody inside the directory, the names and the linked semaphores
\* correspond one to one: semfs_remove can rely on finding the semaphore of a
\* name, linked, in the table.
DirectoryMatchesTable ==
  panic = None /\ dirlock = None =>
    /\ \A x \in Names : dents[x] # None => sem[dents[x]] # None /\ sem[dents[x]].linked
    /\ \A n \in Nums : sem[n] # None /\ sem[n].linked =>
         Cardinality({x \in Names : dents[x] = n}) = 1

\* No semaphore is forgotten: when semfs_remove and semfs_reclaim of the same
\* one race, at least one of them finds that it is the one to destroy it.
NoSemLeaked ==
  panic = None /\ dirlock = None /\ tablelock = None =>
    \A n \in Nums : sem[n] # None => sem[n].linked \/ sem[n].hasvnode

----------------------------------------------------------------------------
(***************************************************************************)
(* Reading, writing and truncating one semaphore (semfs_read, semfs_write, *)
(* semfs_truncate): P and V by more than one unit at a time under          *)
(* sems_lock, with the condition variable operations as synch.c has them,  *)
(* which is to do nothing.  This part has a state of its own.              *)
(***************************************************************************)

CONSTANTS Users,        \* the threads that have the semaphore open
          UintMax,      \* largest value of "unsigned sems_count"
          MaxResid,     \* bound: units in one read or write
          MaxTotal,     \* bound: units written or truncated to in all
          NoOne

VARIABLES
  sems_count,
  sems_lock,     \* the thread that holds it
  io_pc,            \* out, or the operation a thread is in
  resid,         \* uio_resid, or the length to truncate to
  posted,        \* units that writes and truncations have put in, in all
  taken          \* units that reads and truncations have taken out, in all

io_vars == <<sems_count, sems_lock, io_pc, resid, posted, taken>>

IoInit ==
  /\ sems_count = 0 /\ sems_lock = NoOne
  /\ io_pc = [t \in Users |-> "out"]
  /\ resid = [t \in Users |-> 0]
  /\ posted = 0 /\ taken = 0

\* The condition variable operations of synch.c: what is left of the state of
\* the semaphore and its lock.
cv_wait == UNCHANGED <<sems_count, sems_lock, io_pc, resid, posted, taken>>
cv_signal == TRUE
cv_broadcast == TRUE

io_call(t) ==
  /\ io_pc[t] = "out"
  /\ \E op \in {"read", "write", "truncate"}, n \in 0 .. MaxResid :
       /\ op # "read" => posted + n <= MaxTotal
       /\ io_pc' = [io_pc EXCEPT ![t] = op]
       /\ resid' = [resid EXCEPT ![t] = n]
  /\ UNCHANGED <<sems_count, sems_lock, posted, taken>>

lock_acquire(t) ==
  /\ io_pc[t] # "out" /\ sems_lock = NoOne
  /\ sems_lock' = t
  /\ UNCHANGED <<sems_count, io_pc, resid, posted, taken>>

Inside(t, op) == io_pc[t] = op /\ sems_lock = t

IoReturn(t) ==
  /\ sems_lock' = NoOne
  /\ io_pc' = [io_pc EXCEPT ![t] = "out"]
  /\ resid' = [resid EXCEPT ![t] = 0]

Smaller(a, b) == IF a < b THEN a ELSE b

\* One round of the loop of semfs_read takes what there is ...
read_consume(t) ==
  LET consume == Smaller(resid[t], sems_count)
  IN  /\ Inside(t, "read") /\ resid[t] > 0 /\ sems_count > 0
      /\ sems_count' = sems_count - consume
      /\ resid' = [resid EXCEPT ![t] = @ - consume]
      /\ taken' = taken + consume
      /\ UNCHANGED <<sems_lock, io_pc, posted>>

\* ... waits for more ...
read_wait(t) ==
  /\ Inside(t, "read") /\ resid[t] > 0 /\ sems_count = 0
  /\ cv_wait

\* ... and returns when it has everything.
read_done(t) ==
  /\ Inside(t, "read") /\ resid[t] = 0
  /\ IoReturn(t)
  /\ UNCHANGED <<sems_count, posted, taken>>

semfs_read(t) == read_consume(t) \/ read_wait(t) \/ read_done(t)

semfs_wakeup(newcount) ==
  sems_count = 0 /\ newcount > 0 => IF newcount = 1 THEN cv_signal ELSE cv_broadcast

\* Mutant: the sum is not checked.
semfs_write_wraps(t) ==
  /\ Inside(t, "write")
  /\ sems_count' = (sems_count + resid[t]) % (UintMax + 1)
  /\ posted' = posted + resid[t]
  /\ IoReturn(t)
  /\ UNCHANGED taken

\* The sum is formed in unsigned arithmetic; EFBIG if it has wrapped.
semfs_write(t) ==
  LET newcount == (sems_count + resid[t]) % (UintMax + 1)
  IN  /\ Inside(t, "write")
      /\ IF newcount < sems_count
         THEN UNCHANGED <<sems_count, posted>>
         ELSE /\ semfs_wakeup(newcount)
              /\ sems_count' = newcount
              /\ posted' = posted + resid[t]
      /\ IoReturn(t)
      /\ UNCHANGED taken

semfs_truncate(t) ==
  /\ Inside(t, "truncate")
  /\ semfs_wakeup(resid[t])
  /\ sems_count' = resid[t]
  /\ posted' = posted + resid[t]
  /\ taken' = taken + sems_count
  /\ IoReturn(t)

Proceed(t) == semfs_read(t) \/ semfs_write(t) \/ semfs_truncate(t)
IoNext == \E t \in Users : io_call(t) \/ lock_acquire(t) \/ Proceed(t)

IoSpec == IoInit /\ [][IoNext]_io_vars

----------------------------------------------------------------------------

\* Units are neither made nor lost, whatever the sizes of the reads and writes
\* that compete and at whatever point a count would overflow, and the count
\* stays in its range.
UnitsConserved == sems_count + taken = posted /\ sems_count \in 0 .. UintMax
=============================================================================
