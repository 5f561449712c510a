--------------------------------- MODULE Sfs --------------------------------
(***************************************************************************)
(* Names, inodes and vnodes of an SFS volume: sfs_creat, sfs_lookup,       *)
(* sfs_link, sfs_remove, sfs_rename, closing a file (VOP_DECREF and        *)
(* sfs_reclaim) and sfs_sync.  Each runs under vfs_biglock and is one      *)
(* step, except that VOP_DECREF decides to reclaim before sfs_reclaim has  *)
(* the lock.  Any access to the disk, and any allocation, may fail.  The   *)
(* directory is written through; inodes are written when they are synced.  *)
(*                                                                         *)
(* The blocks of SFS files: sfs_balloc and sfs_bfree on the free-block     *)
(* map, sfs_bmap as a write uses it (sfs_io, sfs_blockio), and sfs_itrunc. *)
(* Every operation runs under vfs_biglock and is one step; a transfer of a *)
(* block may fail wherever the code makes one.  Positions in a file, and   *)
(* its size, are in blocks; block 0 stands for no block, as in the code.   *)
(***************************************************************************)
EXTENDS Integers, FiniteSetsExt

-----------------------------------------------------------------------------
(* Inodes and names                                                        *)

CONSTANTS SfsThreads, FileNames,
          Inos,         \* the blocks that inodes can be in
          MaxLinks,     \* bound: names of one file
          NoIno

VARIABLES
  alloc,      \* the inodes whose block is marked in use
  dir,        \* the directory: the inode of each name, or None
  disk,       \* the inodes on disk: link count, and whether the type is set
  vn,         \* sfs_vnodes: per inode None or refcount, link count, dirty
  stuck,      \* vnodes that sfs_reclaim has left in the table, with their
              \* reference, because of an error
  sfs_held,       \* the file a thread has open
  reclaiming, \* threads between VOP_DECREF and sfs_reclaim
  sfs_panic       \* sfs_rename could not recover

sfs_vars == <<alloc, dir, disk, vn, stuck, sfs_held, reclaiming, sfs_panic>>

Zeroed == [links |-> 0, valid |-> FALSE]

SfsInit ==
  /\ alloc = {} /\ dir = [x \in FileNames |-> NoIno]
  /\ disk = [i \in Inos |-> Zeroed]
  /\ vn = [i \in Inos |-> NoIno]
  /\ stuck = {} /\ sfs_held = [t \in SfsThreads |-> NoIno]
  /\ reclaiming = {} /\ sfs_panic = FALSE

Idle(t) == ~sfs_panic /\ t \notin reclaiming

\* sfs_loadvnode of an inode that exists: one more reference, or a new vnode
\* with what is on disk.
Load(i) ==
  [vn EXCEPT ![i] = IF vn[i] # NoIno
                    THEN [vn[i] EXCEPT !.refcount = @ + 1]
                    ELSE [refcount |-> 1, links |-> disk[i].links, dirty |-> FALSE]]

\* Mutant: the inode is not marked dirty.
Relink_clean(v, i, n) == [v EXCEPT ![i].links = @ + n]

\* Change the link count and mark the inode dirty.
Relink(v, i, n) == [v EXCEPT ![i] = [@ EXCEPT !.links = @ + n, !.dirty = TRUE]]

\* Mutant: the block of the inode is not given back.
reclaim_done_kept(i, v) ==
  /\ v[i].refcount = 1
  /\ disk' = [disk EXCEPT ![i] = [links |-> v[i].links, valid |-> TRUE]]
  /\ alloc' = alloc \cup {i}
  /\ vn' = [v EXCEPT ![i] = NoIno]
  /\ UNCHANGED stuck

\* The end of sfs_reclaim: the inode is written if it is dirty, the block of a
\* file without names is freed (and cleared when it is allocated again), and
\* the vnode leaves the table.
reclaim_done(i, v) ==
  /\ v[i].refcount = 1
  /\ IF v[i].links = 0
     THEN /\ disk' = [disk EXCEPT ![i] = Zeroed]
          /\ alloc' = alloc \ {i}
     ELSE /\ disk' = IF v[i].dirty
                     THEN [disk EXCEPT ![i] = [links |-> v[i].links, valid |-> TRUE]]
                     ELSE disk
          /\ alloc' = alloc \cup {i}
  /\ vn' = [v EXCEPT ![i] = NoIno]
  /\ UNCHANGED stuck

\* sfs_itrunc (which may have marked the inode dirty) or sfs_sync_inode fails:
\* sfs_reclaim returns, the vnode stays in the table, and nobody has the
\* reference that sfs_reclaim was given any more.
reclaim_error(i, v) ==
  /\ v[i].refcount = 1 /\ (v[i].dirty \/ v[i].links = 0)
  /\ \E d \in {v[i].dirty, TRUE} : vn' = [v EXCEPT ![i].dirty = d]
  /\ stuck' = stuck \cup {i}
  /\ alloc' = alloc \cup {i}
  /\ UNCHANGED disk

\* VOP_DECREF by somebody who holds vfs_biglock, with the vnodes v (among them
\* one for inode i, whose block may have been allocated just now).
Release(i, v) ==
  \/ /\ v[i].refcount > 1
     /\ vn' = [v EXCEPT ![i].refcount = @ - 1]
     /\ alloc' = alloc \cup {i}
     /\ UNCHANGED <<disk, stuck>>
  \/ reclaim_done(i, v)
  \/ reclaim_error(i, v)

Open(t, i) == sfs_held' = [sfs_held EXCEPT ![t] = i]

\* The vnodes after sfs_lookonce has found the name x.
lookonce(x) == Load(dir[x])

\* sfs_dir_link fails if the name exists.
dir_link(x, i) == dir[x] = NoIno /\ dir' = [dir EXCEPT ![x] = i]

dir_unlink(x) == dir' = [dir EXCEPT ![x] = NoIno]

\* sfs_lookup, and sfs_creat of a name that exists.
sfs_lookup(t) ==
  /\ Idle(t) /\ sfs_held[t] = NoIno
  /\ \E x \in FileNames : /\ dir[x] # NoIno
                      /\ vn' = lookonce(x)
                      /\ Open(t, dir[x])
  /\ UNCHANGED <<alloc, dir, disk, stuck, reclaiming, sfs_panic>>

\* The vnodes with a new object in inode i (sfs_makeobj).
WithNew(i) == [vn EXCEPT ![i] = [refcount |-> 1, links |-> 0, dirty |-> TRUE]]

\* sfs_creat of a new name.  If the name cannot be entered the new object is
\* released again.
sfs_creat(t) ==
  /\ Idle(t) /\ sfs_held[t] = NoIno
  /\ \E x \in FileNames, i \in Inos \ alloc :
       /\ dir[x] = NoIno
       /\ \/ /\ dir_link(x, i)
             /\ vn' = Relink(WithNew(i), i, 1)
             /\ alloc' = alloc \cup {i}
             /\ Open(t, i)
             /\ UNCHANGED <<disk, stuck>>
          \/ Release(i, WithNew(i)) /\ UNCHANGED <<dir, sfs_held>>
  /\ UNCHANGED <<reclaiming, sfs_panic>>

\* sfs_link: a new name for a file that is open.
sfs_link(t) ==
  /\ Idle(t) /\ sfs_held[t] # NoIno
  /\ vn[sfs_held[t]].links < MaxLinks
  /\ \E x \in FileNames : dir_link(x, sfs_held[t])
  /\ vn' = Relink(vn, sfs_held[t], 1)
  /\ UNCHANGED <<alloc, disk, stuck, sfs_held, reclaiming, sfs_panic>>

\* sfs_remove: take the name out (or fail to), and release the vnode again.
sfs_remove(t) ==
  /\ Idle(t)
  /\ \E x \in FileNames :
       /\ dir[x] # NoIno
       /\ \/ /\ dir_unlink(x)
             /\ Release(dir[x], Relink(lookonce(x), dir[x], -1))
          \/ /\ Release(dir[x], lookonce(x))
             /\ UNCHANGED dir
  /\ UNCHANGED <<sfs_held, reclaiming, sfs_panic>>

\* sfs_rename: enter the new name, take out the old one, and release the vnode.
rename_done(x, y) ==
  /\ dir' = [dir EXCEPT ![x] = NoIno, ![y] = dir[x]]
  /\ Release(dir[x], Relink(Relink(lookonce(x), dir[x], 1), dir[x], -1))
  /\ UNCHANGED sfs_panic

\* The new name cannot be entered (or exists).
rename_nolink(x) ==
  /\ Release(dir[x], lookonce(x))
  /\ UNCHANGED <<dir, sfs_panic>>

\* Mutant: the count is not put back when the rename is undone.
rename_undo_forgets(x) ==
  /\ Release(dir[x], Relink(lookonce(x), dir[x], 1))
  /\ UNCHANGED <<dir, sfs_panic>>

\* The old name cannot be taken out: the new one is taken out again, ...
rename_undo(x) ==
  /\ Release(dir[x], Relink(Relink(lookonce(x), dir[x], 1), dir[x], -1))
  /\ UNCHANGED <<dir, sfs_panic>>

\* ... and if that fails as well there is nothing left to do.
rename_panic(x, y) ==
  /\ dir' = [dir EXCEPT ![y] = dir[x]]
  /\ vn' = Relink(lookonce(x), dir[x], 1)
  /\ sfs_panic' = TRUE
  /\ UNCHANGED <<alloc, disk, stuck>>

sfs_rename(t) ==
  /\ Idle(t)
  /\ \E x, y \in FileNames :
       /\ dir[x] # NoIno
       /\ \/ /\ dir[y] = NoIno
             /\ rename_done(x, y) \/ rename_undo(x) \/ rename_panic(x, y)
          \/ rename_nolink(x)
  /\ UNCHANGED <<sfs_held, reclaiming>>

\* Closing a file: VOP_DECREF, without vfs_biglock, gives up a reference or
\* passes the last one on to sfs_reclaim.
sfs_vnode_decref(t) ==
  /\ Idle(t) /\ sfs_held[t] # NoIno
  /\ IF vn[sfs_held[t]].refcount > 1
     THEN /\ vn' = [vn EXCEPT ![sfs_held[t]].refcount = @ - 1]
          /\ Open(t, NoIno)
          /\ UNCHANGED reclaiming
     ELSE reclaiming' = reclaiming \cup {t} /\ UNCHANGED <<vn, sfs_held>>
  /\ UNCHANGED <<alloc, dir, disk, stuck, sfs_panic>>

\* Mutant: the count is not looked at again.
sfs_reclaim_anyway(t) ==
  /\ ~sfs_panic /\ t \in reclaiming
  /\ reclaim_done(sfs_held[t], [vn EXCEPT ![sfs_held[t]].refcount = 1])
  /\ Open(t, NoIno)
  /\ reclaiming' = reclaiming \ {t}
  /\ UNCHANGED <<dir, sfs_panic>>

\* sfs_reclaim looks at the count again, in case somebody has got the vnode from
\* the table in the meantime.
sfs_reclaim(t) ==
  /\ ~sfs_panic /\ t \in reclaiming
  /\ Release(sfs_held[t], vn)
  /\ Open(t, NoIno)
  /\ reclaiming' = reclaiming \ {t}
  /\ UNCHANGED <<dir, sfs_panic>>

\* sfs_sync writes the dirty inodes; it goes on if one cannot be written.
sfs_sync ==
  /\ ~sfs_panic
  /\ \E ok \in SUBSET {i \in Inos : vn[i] # NoIno /\ vn[i].dirty} :
       /\ disk' = [i \in Inos |->
            IF i \in ok THEN [links |-> vn[i].links, valid |-> TRUE] ELSE disk[i]]
       /\ vn' = [i \in Inos |-> IF i \in ok THEN [vn[i] EXCEPT !.dirty = FALSE] ELSE vn[i]]
  /\ UNCHANGED <<alloc, dir, stuck, sfs_held, reclaiming, sfs_panic>>

sfs_halted == sfs_panic /\ UNCHANGED sfs_vars

SfsNext ==
  \/ \E t \in SfsThreads :
       \/ sfs_lookup(t) \/ sfs_creat(t) \/ sfs_link(t) \/ sfs_remove(t)
       \/ sfs_rename(t) \/ sfs_vnode_decref(t) \/ sfs_reclaim(t)
  \/ sfs_sync \/ sfs_halted

SfsSpec == SfsInit /\ [][SfsNext]_sfs_vars

----------------------------------------------------------------------------

Links(i) == IF vn[i] # NoIno THEN vn[i].links ELSE disk[i].links

\* The link count of a file, in memory if it is there and else on disk, is the
\* number of its names, after any failed and undone operation: sfs_lookonce
\* never finds a name whose file has none.
LinkCountExact ==
  ~sfs_panic => \A i \in alloc : Links(i) = Cardinality({x \in FileNames : dir[x] = i})

\* A vnode has as many references as threads have it open, and one more if an
\* error has left it stuck; nobody holds a vnode that is not in the table.
SfsRefcountExact ==
  ~sfs_panic => \A i \in Inos :
    (IF vn[i] # NoIno THEN vn[i].refcount ELSE 0)
      = Cardinality({t \in SfsThreads : sfs_held[t] = i}) + (IF i \in stuck THEN 1 ELSE 0)

\* A name leads to an inode whose block is in use and whose type is set, in
\* memory or on disk (sfs_loadvnode panics otherwise), and no inode is in use
\* that has neither a name nor a vnode: a file that is removed while it is open
\* is erased when it is closed.
InodesExact ==
  /\ \A x \in FileNames : dir[x] # NoIno =>
       dir[x] \in alloc /\ (vn[dir[x]] # NoIno \/ disk[dir[x]].valid)
  /\ \A i \in alloc : vn[i] # NoIno \/ \E x \in FileNames : dir[x] = i

\* A vnode that is not dirty is what is on the disk.
CleanIsOnDisk ==
  \A i \in Inos : vn[i] # NoIno /\ ~vn[i].dirty => disk[i] = [links |-> vn[i].links, valid |-> TRUE]

-----------------------------------------------------------------------------
(* Blocks                                                                  *)

CONSTANTS Files,
          NumBlocks,     \* sb_nblocks
          NDIRECT,       \* SFS_NDIRECT
          DBPERIDB       \* SFS_DBPERIDB

Blocks == 1 .. NumBlocks - 1
Direct == 0 .. NDIRECT - 1
IdOffsets == 0 .. DBPERIDB - 1
FileBlocks == 0 .. NDIRECT + DBPERIDB - 1
NoIds == [j \in IdOffsets |-> 0]

VARIABLES
  freemap,    \* the blocks that are marked as in use
  inode,      \* per file: sfi_direct, sfi_indirect and sfi_size
  id,         \* what an indirect block holds, on disk (a free one: nothing, as
              \* sfs_balloc clears a block before it is used again)
  bmap_lost,       \* blocks marked in use that a failed write has left without owner
  torn        \* the write of an indirect block has failed in sfs_itrunc (the
              \* bound of the model: it is not followed any further)

bmap_vars == <<freemap, inode, id, bmap_lost, torn>>

BmapInit ==
  /\ freemap = {}
  /\ inode = [f \in Files |->
                [direct |-> [i \in Direct |-> 0], indirect |-> 0, size |-> 0]]
  /\ id = [b \in Blocks |-> NoIds]
  /\ bmap_lost = {} /\ torn = FALSE

\* bitmap_alloc gives the lowest block that is free.
bitmap_alloc(map) == Min(Blocks \ map)
CanAlloc(map) == Blocks \ map # {}

Larger(a, b) == IF a > b THEN a ELSE b

\* The block is transferred and, if that goes well, the file grows.
GrowTo(f, fb, nd) ==
  \E ok \in BOOLEAN :
    inode' = [inode EXCEPT ![f] =
                [nd EXCEPT !.size = IF ok THEN Larger(@, fb + 1) ELSE @]]

\* Write to a direct block of the file, allocating it if there is none.
bmap_direct(f) ==
  \E fb \in Direct :
    LET b == inode[f].direct[fb]
        new == bitmap_alloc(freemap)
    IN  /\ ~torn
        /\ IF b # 0
           THEN GrowTo(f, fb, inode[f]) /\ UNCHANGED freemap
           ELSE /\ CanAlloc(freemap)
                /\ freemap' = freemap \cup {new}
                /\ GrowTo(f, fb, [inode[f] EXCEPT !.direct[fb] = new])
        /\ UNCHANGED <<id, bmap_lost, torn>>

\* Write past the direct blocks.  A file that has no indirect block gets one,
\* cleared, and keeps it whatever happens next; the data block is then taken
\* from it or allocated.
bmap_indirect(f) ==
  \E fb \in FileBlocks \ Direct :
    LET fresh == inode[f].indirect = 0
        idb == IF fresh THEN bitmap_alloc(freemap) ELSE inode[f].indirect
        ids == IF fresh THEN NoIds ELSE id[idb]
        map == freemap \cup (IF fresh THEN {idb} ELSE {})
        nd == [inode[f] EXCEPT !.indirect = idb]
        j == fb - NDIRECT
        new == bitmap_alloc(map)
    IN  /\ ~torn /\ (fresh => CanAlloc(freemap))
        /\ \/ /\ ids[j] # 0
              /\ GrowTo(f, fb, nd)
              /\ UNCHANGED <<freemap, id, bmap_lost>>
           \/ /\ ids[j] = 0 /\ CanAlloc(map)
              /\ freemap' = map \cup {new}
              /\ id' = [id EXCEPT ![idb] = [ids EXCEPT ![j] = new]]
              /\ GrowTo(f, fb, nd)
              /\ UNCHANGED bmap_lost
           \* No block, or it cannot be cleared.
           \/ /\ ids[j] = 0
              /\ freemap' = map
              /\ id' = [id EXCEPT ![idb] = ids]
              /\ inode' = [inode EXCEPT ![f] = nd]
              /\ UNCHANGED bmap_lost
           \* The write of the indirect block fails: the new block is marked,
           \* and belongs to no file.
           \/ /\ ids[j] = 0 /\ CanAlloc(map)
              /\ freemap' = map \cup {new}
              /\ id' = [id EXCEPT ![idb] = ids]
              /\ bmap_lost' = bmap_lost \cup {new}
              /\ inode' = [inode EXCEPT ![f] = nd]
        /\ UNCHANGED torn

----------------------------------------------------------------------------
\* sfs_itrunc

\* The direct blocks past the new length.
DirectPast(f, blocklen) == {inode[f].direct[i] : i \in {k \in Direct : k >= blocklen}} \ {0}
DirectKept(f, blocklen) ==
  [i \in Direct |-> IF i >= blocklen THEN 0 ELSE inode[f].direct[i]]

\* The entries of the indirect block that the loop discards.  The comparison
\* is the code's: the entry of block blocklen itself is kept.
Discarded(f, blocklen) == {j \in IdOffsets : blocklen < NDIRECT + j}

highblock == NDIRECT + DBPERIDB - 1

\* Mutant: the direct blocks are given back but not taken out of the inode.
itrunc_direct_kept(f, blocklen) ==
  /\ ~torn /\ ~(blocklen < highblock /\ inode[f].indirect # 0)
  /\ freemap' = freemap \ DirectPast(f, blocklen)
  /\ inode' = [inode EXCEPT ![f] = [@ EXCEPT !.size = blocklen]]
  /\ UNCHANGED <<id, bmap_lost, torn>>

\* There is no indirect block, or its last entry is not past the new length.
itrunc_direct(f, blocklen) ==
  /\ ~torn /\ ~(blocklen < highblock /\ inode[f].indirect # 0)
  /\ freemap' = freemap \ DirectPast(f, blocklen)
  /\ inode' = [inode EXCEPT ![f] =
                 [@ EXCEPT !.direct = DirectKept(f, blocklen), !.size = blocklen]]
  /\ UNCHANGED <<id, bmap_lost, torn>>

\* The indirect block is read, cleared of the blocks past the new length, and
\* freed if nothing is left in it, or else written back.
itrunc_indirect(f, blocklen) ==
  LET idb == inode[f].indirect
      kept == [j \in IdOffsets |-> IF j \in Discarded(f, blocklen) THEN 0 ELSE id[idb][j]]
      freed == {id[idb][j] : j \in Discarded(f, blocklen)} \ {0}
      direct == DirectKept(f, blocklen)
      map == freemap \ (DirectPast(f, blocklen) \cup freed)
  IN  /\ ~torn /\ blocklen < highblock /\ idb # 0
      /\ IF kept = NoIds
         THEN /\ freemap' = map \ {idb}
              /\ inode' = [inode EXCEPT ![f] =
                             [direct |-> direct, indirect |-> 0, size |-> blocklen]]
              /\ id' = [id EXCEPT ![idb] = NoIds]
         ELSE /\ freemap' = map
              /\ id' = [id EXCEPT ![idb] = kept]
              /\ inode' = [inode EXCEPT ![f] =
                             [@ EXCEPT !.direct = direct, !.size = blocklen]]
      /\ UNCHANGED <<bmap_lost, torn>>

\* The read of the indirect block fails: the direct blocks are gone already.
itrunc_read_fails(f, blocklen) ==
  /\ ~torn /\ blocklen < highblock /\ inode[f].indirect # 0
  /\ freemap' = freemap \ DirectPast(f, blocklen)
  /\ inode' = [inode EXCEPT ![f].direct = DirectKept(f, blocklen)]
  /\ UNCHANGED <<id, bmap_lost, torn>>

\* The write of the indirect block fails: the blocks it still has on disk have
\* been given back.
itrunc_write_fails(f, blocklen) ==
  LET idb == inode[f].indirect
      freed == {id[idb][j] : j \in Discarded(f, blocklen)} \ {0}
  IN  /\ ~torn /\ blocklen < highblock /\ idb # 0
      /\ freed # {}
      /\ \E j \in IdOffsets \ Discarded(f, blocklen) : id[idb][j] # 0
      /\ freemap' = freemap \ (DirectPast(f, blocklen) \cup freed)
      /\ inode' = [inode EXCEPT ![f].direct = DirectKept(f, blocklen)]
      /\ torn' = TRUE
      /\ UNCHANGED <<id, bmap_lost>>

sfs_itrunc(f) ==
  \E blocklen \in 0 .. NDIRECT + DBPERIDB :
    \/ itrunc_direct(f, blocklen) \/ itrunc_indirect(f, blocklen)
    \/ itrunc_read_fails(f, blocklen) \/ itrunc_write_fails(f, blocklen)

bmap_halted == torn /\ UNCHANGED bmap_vars

BmapNext ==
  \/ \E f \in Files :
       bmap_direct(f) \/ bmap_indirect(f) \/ sfs_itrunc(f)
  \/ bmap_halted

BmapSpec == BmapInit /\ [][BmapNext]_bmap_vars

----------------------------------------------------------------------------

\* The places that name a block, and the block of one.
Places == (Files \X {"direct"} \X Direct) \cup (Files \X {"indirect"} \X {0})
            \cup (Files \X {"id"} \X IdOffsets)
BmapAt(pl) ==
  CASE pl[2] = "direct" -> inode[pl[1]].direct[pl[3]]
    [] pl[2] = "indirect" -> inode[pl[1]].indirect
    [] pl[2] = "id" -> IF inode[pl[1]].indirect = 0 THEN 0 ELSE id[inode[pl[1]].indirect][pl[3]]
Used == {pl \in Places : BmapAt(pl) # 0}

\* As long as no write of an indirect block has failed in sfs_itrunc: no block
\* belongs to two files, or to two places of one file, and the free-block map
\* marks exactly the blocks that files have and those that a failed write in
\* sfs_bmap has left behind, so that truncating gives back all it takes out of a
\* file and nothing else.
BlocksExact ==
  ~torn => /\ Cardinality({BmapAt(p) : p \in Used}) = Cardinality(Used)
           /\ freemap = {BmapAt(p) : p \in Used} \cup bmap_lost
=============================================================================
