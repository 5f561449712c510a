-------------------------------- MODULE Vfs --------------------------------
(***************************************************************************)
(* The VFS layer: mounting and unmounting devices, swap, the boot file     *)
(* system, current directories, and opening and closing.  SFS volumes have *)
(* one directory, so a directory's vnode is the root of a mounted volume   *)
(* and is named by its device.  All threads here are of one process (the   *)
(* kernel's, whose threads share p_cwd); it makes other processes, which   *)
(* inherit the directory.                                                  *)
(*                                                                         *)
(* A step runs under vfs_biglock, under p_lock or under vn_countlock.      *)
(* vfs_biglock is recursive: inside vfs_setbootfs and vfs_clearbootfs the  *)
(* owner takes steps that need it.  vfs_setcurdir, vfs_clearcurdir and     *)
(* VOP_DECREF do not hold it.                                              *)
(***************************************************************************)
EXTENDS Integers, Sequences, FiniteSets

CONSTANTS Callers,    \* threads
          Kids,       \* processes that proc_create_runprogram makes
          Devs,       \* mountable devices
          Kproc, Nothing

ASSUME VfsAssumption == Nothing \notin Devs

Procs == Kids \cup {Kproc}

VARIABLES
  kd_fs,         \* per device: NULL, SWAP_FS, or fs
  vn_refcount,   \* of the root vnode of a device's volume; 0: not in memory
  failed,        \* volumes whose root vnode VOP_RECLAIM could not drop
  p_cwd,         \* the current directory of each process, or Nothing
  bootfs_vnode,
  biglock,       \* the thread that holds vfs_biglock
  vpc,           \* where a thread is
  newvn,         \* a vnode it has a reference to: found, or open
  drop           \* vnodes it is about to VOP_DECREF, in order

mounts == <<kd_fs>>
refs == <<vn_refcount, failed>>
vfs_vars == <<kd_fs, vn_refcount, failed, p_cwd, bootfs_vnode, biglock, vpc, newvn, drop>>

VfsInit ==
  /\ kd_fs = [d \in Devs |-> "NULL"]
  /\ vn_refcount = [d \in Devs |-> 0]
  /\ failed = {}
  /\ p_cwd = [p \in Procs |-> Nothing]
  /\ bootfs_vnode = Nothing
  /\ biglock = Nothing
  /\ vpc = [t \in Callers |-> "out"]
  /\ newvn = [t \in Callers |-> Nothing]
  /\ drop = [t \in Callers |-> << >>]

VfsAt(t, l) == vpc[t] = l
VfsGoto(t, l) == vpc' = [vpc EXCEPT ![t] = l]

\* t can enter vfs_biglock, perhaps once more; or it takes and keeps it.
vfs_biglock_ok(t) == biglock \in {Nothing, t}
vfs_biglock_acquire(t) == biglock = Nothing /\ biglock' = t

VOP_INCREF(d) == vn_refcount' = [vn_refcount EXCEPT ![d] = @ + 1]

\* What VOP_DECREF is to be called on next; nothing for a NULL vnode.
Drops(t, vns) == drop' = [drop EXCEPT ![t] = vns]
NonNull(vn) == IF vn = Nothing THEN << >> ELSE <<vn>>

----------------------------------------------------------------------------
\* Path lookup

\* The volume whose root a path without further components leads to: a device
\* (or volume) name, "/" or ":" (and a relative path).
vfs_getroot == {d \in Devs : kd_fs[d] = "fs"}
getdevice == vfs_getroot \cup ({bootfs_vnode, p_cwd[Kproc]} \ {Nothing})

\* vfs_lookup hands back the root with a reference, for vfs_open (when
\* VOP_EACHOPEN refuses, vfs_close's steps follow).  A thread has one
\* directory open at a time.
vfs_open(t) ==
  /\ VfsAt(t, "out") /\ newvn[t] = Nothing /\ vfs_biglock_ok(t)
  /\ \E d \in getdevice : VOP_INCREF(d) /\ newvn' = [newvn EXCEPT ![t] = d]
  /\ UNCHANGED <<mounts, failed, p_cwd, bootfs_vnode, biglock, vpc, drop>>

vfs_close(t) ==
  /\ VfsAt(t, "out") /\ newvn[t] # Nothing
  /\ Drops(t, <<newvn[t]>>)
  /\ newvn' = [newvn EXCEPT ![t] = Nothing]
  /\ VfsGoto(t, "decref")
  /\ UNCHANGED <<mounts, refs, p_cwd, bootfs_vnode, biglock>>

\* vfs_chdir begins with the same lookup.
vfs_chdir(t) ==
  /\ VfsAt(t, "out") /\ newvn[t] = Nothing /\ vfs_biglock_ok(t)
  /\ \E d \in getdevice : VOP_INCREF(d) /\ newvn' = [newvn EXCEPT ![t] = d]
  /\ VfsGoto(t, "setcurdir")
  /\ UNCHANGED <<mounts, failed, p_cwd, bootfs_vnode, biglock, drop>>

----------------------------------------------------------------------------
\* Current directories

\* vfs_setcurdir: VOP_GETTYPE takes vfs_biglock for a moment; then the
\* directory is replaced under p_lock.
setcurdir_gettype(t) ==
  /\ VfsAt(t, "setcurdir") /\ vfs_biglock_ok(t)
  /\ VfsGoto(t, "setcurdir_swap")
  /\ UNCHANGED <<mounts, refs, p_cwd, bootfs_vnode, biglock, newvn, drop>>

\* The old directory is released, and then vfs_chdir's own reference.
vfs_setcurdir(t) ==
  /\ VfsAt(t, "setcurdir_swap")
  /\ VOP_INCREF(newvn[t])
  /\ p_cwd' = [p_cwd EXCEPT ![Kproc] = newvn[t]]
  /\ Drops(t, NonNull(p_cwd[Kproc]) \o <<newvn[t]>>)
  /\ newvn' = [newvn EXCEPT ![t] = Nothing]
  /\ VfsGoto(t, "decref")
  /\ UNCHANGED <<mounts, failed, bootfs_vnode, biglock>>

vfs_clearcurdir(t) ==
  /\ VfsAt(t, "out") /\ p_cwd[Kproc] # Nothing
  /\ p_cwd' = [p_cwd EXCEPT ![Kproc] = Nothing]
  /\ Drops(t, <<p_cwd[Kproc]>>)
  /\ VfsGoto(t, "decref")
  /\ UNCHANGED <<mounts, refs, bootfs_vnode, biglock, newvn>>

\* vfs_getcwd takes a reference without vfs_biglock, and then needs the lock
\* to find the name of the volume.
vfs_getcwd(t) ==
  /\ VfsAt(t, "out") /\ newvn[t] = Nothing /\ p_cwd[Kproc] # Nothing
  /\ VOP_INCREF(p_cwd[Kproc])
  /\ newvn' = [newvn EXCEPT ![t] = p_cwd[Kproc]]
  /\ VfsGoto(t, "getcwd")
  /\ UNCHANGED <<mounts, failed, p_cwd, bootfs_vnode, biglock, drop>>

getcwd_name(t) ==
  /\ VfsAt(t, "getcwd") /\ vfs_biglock_ok(t)
  /\ Drops(t, <<newvn[t]>>)
  /\ newvn' = [newvn EXCEPT ![t] = Nothing]
  /\ VfsGoto(t, "decref")
  /\ UNCHANGED <<mounts, refs, p_cwd, bootfs_vnode, biglock>>

\* A new process inherits the directory ...
proc_create_runprogram(t) ==
  /\ VfsAt(t, "out") /\ p_cwd[Kproc] # Nothing
  /\ \E k \in Kids : /\ p_cwd[k] = Nothing
                     /\ p_cwd' = [p_cwd EXCEPT ![k] = p_cwd[Kproc]]
  /\ VOP_INCREF(p_cwd[Kproc])
  /\ UNCHANGED <<mounts, failed, bootfs_vnode, biglock, vpc, newvn, drop>>

\* ... which is released if thread_fork then fails and the process is destroyed.
proc_destroy(t) ==
  /\ VfsAt(t, "out")
  /\ \E k \in Kids : /\ p_cwd[k] # Nothing
                     /\ Drops(t, <<p_cwd[k]>>)
                     /\ p_cwd' = [p_cwd EXCEPT ![k] = Nothing]
  /\ VfsGoto(t, "decref")
  /\ UNCHANGED <<mounts, refs, bootfs_vnode, biglock, newvn>>

----------------------------------------------------------------------------
\* The boot file system

\* vfs_setbootfs holds vfs_biglock while it does what vfs_chdir does ...
vfs_setbootfs(t) ==
  /\ VfsAt(t, "out") /\ newvn[t] = Nothing
  /\ vfs_biglock_acquire(t)
  /\ \E d \in vfs_getroot : VOP_INCREF(d) /\ newvn' = [newvn EXCEPT ![t] = d]
  /\ VfsGoto(t, "setcurdir")
  /\ UNCHANGED <<mounts, failed, p_cwd, bootfs_vnode, drop>>

\* ... and then makes what is now the current directory the boot file system.
setbootfs_getcurdir(t) ==
  /\ VfsAt(t, "getcurdir") /\ p_cwd[Kproc] # Nothing
  /\ VOP_INCREF(p_cwd[Kproc])
  /\ Drops(t, NonNull(bootfs_vnode))
  /\ bootfs_vnode' = p_cwd[Kproc]
  /\ VfsGoto(t, "bootfs")
  /\ UNCHANGED <<mounts, failed, p_cwd, biglock, newvn>>

\* Somebody has cleared the current directory since: ENOENT.
setbootfs_fails(t) ==
  /\ VfsAt(t, "getcurdir") /\ p_cwd[Kproc] = Nothing
  /\ biglock' = Nothing
  /\ VfsGoto(t, "out")
  /\ UNCHANGED <<mounts, refs, p_cwd, bootfs_vnode, newvn, drop>>

vfs_clearbootfs(t) ==
  /\ VfsAt(t, "out") /\ bootfs_vnode # Nothing
  /\ vfs_biglock_acquire(t)
  /\ bootfs_vnode' = Nothing
  /\ Drops(t, NonNull(bootfs_vnode))
  /\ VfsGoto(t, "bootfs")
  /\ UNCHANGED <<mounts, refs, p_cwd, newvn>>

----------------------------------------------------------------------------
\* Releasing vnodes

\* The end of what t was releasing: it goes on in vfs_setbootfs, or leaves
\* vfs_biglock, or returns.
decref_done(t) ==
  /\ vpc[t] \in {"decref", "bootfs"} /\ drop[t] = << >>
  /\ VfsGoto(t, IF VfsAt(t, "decref") /\ biglock = t THEN "getcurdir" ELSE "out")
  /\ biglock' = IF VfsAt(t, "bootfs") THEN Nothing ELSE biglock
  /\ UNCHANGED <<mounts, refs, p_cwd, bootfs_vnode, newvn, drop>>

\* vnode_decref, not the last reference.
root_decref(t) ==
  /\ vpc[t] \in {"decref", "bootfs"} /\ drop[t] # << >>
  /\ vn_refcount[Head(drop[t])] > 1
  /\ vn_refcount' = [vn_refcount EXCEPT ![Head(drop[t])] = @ - 1]
  /\ drop' = [drop EXCEPT ![t] = Tail(@)]
  /\ UNCHANGED <<mounts, failed, p_cwd, bootfs_vnode, biglock, vpc, newvn>>

\* The last one: the count stays 1 and VOP_RECLAIM is called, with no lock.
root_decref_last(t) ==
  /\ vpc[t] \in {"decref", "bootfs"} /\ drop[t] # << >>
  /\ vn_refcount[Head(drop[t])] = 1
  /\ VfsGoto(t, IF VfsAt(t, "decref") THEN "reclaim" ELSE "bootfs_reclaim")
  /\ UNCHANGED <<mounts, refs, p_cwd, bootfs_vnode, biglock, newvn, drop>>

Reclaimed(t) ==
  /\ drop' = [drop EXCEPT ![t] = Tail(@)]
  /\ VfsGoto(t, IF VfsAt(t, "reclaim") THEN "decref" ELSE "bootfs")

\* Mutant: the vnode goes although it has been looked up again since.
vop_reclaim_unchecked(t) ==
  /\ vpc[t] \in {"reclaim", "bootfs_reclaim"} /\ vfs_biglock_ok(t)
  /\ vn_refcount' = [vn_refcount EXCEPT ![Head(drop[t])] = 0]
  /\ Reclaimed(t)
  /\ UNCHANGED <<mounts, failed, p_cwd, bootfs_vnode, biglock, newvn>>

\* sfs_reclaim looks at the count again, under vfs_biglock.
vop_reclaim(t) ==
  /\ vpc[t] \in {"reclaim", "bootfs_reclaim"} /\ vfs_biglock_ok(t)
  /\ vn_refcount' = [vn_refcount EXCEPT ![Head(drop[t])] = @ - 1]
  /\ Reclaimed(t)
  /\ UNCHANGED <<mounts, failed, p_cwd, bootfs_vnode, biglock, newvn>>

\* Its last write of the inode fails: the vnode stays, with its reference.
vop_reclaim_fails(t) ==
  /\ vpc[t] \in {"reclaim", "bootfs_reclaim"} /\ vfs_biglock_ok(t)
  /\ vn_refcount[Head(drop[t])] = 1
  /\ failed' = failed \cup {Head(drop[t])}
  /\ Reclaimed(t)
  /\ UNCHANGED <<mounts, vn_refcount, p_cwd, bootfs_vnode, biglock, newvn>>

----------------------------------------------------------------------------
\* Mounting

\* FSOP_UNMOUNT: no vnode of the volume is in memory.  Only roots are counted
\* here; an open file keeps a volume busy in the same way.
unmountable(d) == vn_refcount[d] = 0

SetFs(d, fs) == kd_fs' = [kd_fs EXCEPT ![d] = fs]

vfs_mount(d) ==
  /\ kd_fs[d] = "NULL"
  /\ SetFs(d, "fs")

vfs_swapon(d) ==
  /\ kd_fs[d] = "NULL"
  /\ SetFs(d, "SWAP_FS")

vfs_swapoff(d) ==
  /\ kd_fs[d] = "SWAP_FS"
  /\ SetFs(d, "NULL")

\* Mutant: the volume goes whatever is in use.
vfs_unmount_busy(d) ==
  /\ kd_fs[d] = "fs"
  /\ SetFs(d, "NULL")

vfs_unmount(d) ==
  /\ kd_fs[d] = "fs" /\ unmountable(d)
  /\ SetFs(d, "NULL")

\* Swap is detached; busy volumes, and volumes of which FSOP_SYNC fails twice
\* (S), stay mounted.
vfs_unmountall(S) ==
  kd_fs' = [d \in Devs |-> IF kd_fs[d] = "fs" /\ (d \in S \/ ~unmountable(d))
                           THEN "fs" ELSE "NULL"]

Mounting(t) ==
  /\ VfsAt(t, "out") /\ vfs_biglock_ok(t)
  /\ \/ \E d \in Devs : vfs_mount(d) \/ vfs_swapon(d) \/ vfs_swapoff(d) \/ vfs_unmount(d)
     \/ \E S \in SUBSET Devs : vfs_unmountall(S)
  /\ UNCHANGED <<refs, p_cwd, bootfs_vnode, biglock, vpc, newvn, drop>>

CurdirSteps(t) ==
  \/ vfs_chdir(t) \/ setcurdir_gettype(t) \/ vfs_setcurdir(t)
  \/ vfs_clearcurdir(t) \/ vfs_getcwd(t) \/ getcwd_name(t)
  \/ proc_create_runprogram(t) \/ proc_destroy(t)

BootfsSteps(t) ==
  \/ vfs_setbootfs(t) \/ setbootfs_getcurdir(t) \/ setbootfs_fails(t)
  \/ vfs_clearbootfs(t)

DecrefSteps(t) ==
  \/ root_decref(t) \/ root_decref_last(t) \/ decref_done(t)
  \/ vop_reclaim(t) \/ vop_reclaim_fails(t)

VfsNext ==
  \E t \in Callers : \/ vfs_open(t) \/ vfs_close(t) \/ Mounting(t)
                     \/ CurdirSteps(t) \/ BootfsSteps(t) \/ DecrefSteps(t)

VfsSpec == VfsInit /\ [][VfsNext]_vfs_vars

----------------------------------------------------------------------------

\* The releases of the root of d that are still to come.
Releases(d) == {x \in Callers \X {1, 2} : x[2] <= Len(drop[x[1]]) /\ drop[x[1]][x[2]] = d}

\* The references to the root of d: current directories, the boot file system,
\* threads that found it or have it open, threads about to release it, and the
\* one an unsuccessful VOP_RECLAIM leaves.
References(d) ==
  Cardinality({p \in Procs : p_cwd[p] = d})
    + (IF bootfs_vnode = d THEN 1 ELSE 0)
    + Cardinality({t \in Callers : newvn[t] = d})
    + Cardinality(Releases(d))
    + (IF d \in failed THEN 1 ELSE 0)

\* The count of a directory's vnode is the number of references there are to
\* it, though current directories are replaced without vfs_biglock, two
\* threads of a process may do so at once, and a vnode may be found again
\* between the decrement that sees its last reference and VOP_RECLAIM.
VnodeCountExact == \A d \in Devs : vn_refcount[d] = References(d)

\* A file system anyone has a directory of is mounted.  vfs_getcwd asserts it
\* (KASSERT(name != NULL)), because vfs_getdevname says that it has a reference
\* and "the fs cannot go away", and every VOP call of a held vnode goes to a
\* file system that exists.
ReferencedIsMounted == \A d \in Devs : References(d) # 0 => kd_fs[d] = "fs"

\* VFS: the count of a directory's vnode is the number of references there are
\* to it, though current directories are replaced without vfs_biglock and a
\* vnode may be found again between its last VOP_DECREF and VOP_RECLAIM; and a
\* file system that anyone has a directory of stays mounted, which vfs_getcwd
\* asserts.
DirectoriesStayMounted == VnodeCountExact /\ ReferencedIsMounted
=============================================================================
