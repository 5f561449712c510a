------------------------------- MODULE Sfsck -------------------------------
(***************************************************************************)
(* The tools that work on an SFS volume from outside the kernel: mksfs     *)
(* makes one, sfsck checks and repairs one, dumpsfs reads one.             *)
(*                                                                         *)
(* The disk is a function from block numbers to what the block holds.  A   *)
(* run of sfsck is the sequence of the blocks it writes: the operators     *)
(* below carry the state of the program through its passes, and the        *)
(* actions let the writes reach the disk one at a time, so that the        *)
(* machine can stop between any two of them.                               *)
(*                                                                         *)
(* Sizes count half directory entries, so that a directory can have an     *)
(* illegal size.  A name is a tuple; <<>> is the empty name.               *)
(***************************************************************************)
EXTENDS Integers, TLC, SequencesExt, FiniteSetsExt

CONSTANTS NBLOCKS,      \* blocks of the volume
          MAPBITS,      \* bits of its freemap, which is one block
          NDIRECT,      \* SFS_NDIRECT
          DBPERIDB,     \* SFS_DBPERIDB
          PERBLOCK,     \* directory entries in a block
          Damages,      \* bound: fields damaged before the first check
          Runs,         \* bound: runs of sfsck
          BadPtrs, BadSizes, BadNames   \* what a damaged field can hold

VARIABLES disk,     \* the volume
          origin,   \* the volume as the first check met it
          hits,     \* fields damaged so far
          prog,     \* the state of sfsck at the end of its present phase
          todo,     \* writes of that phase that are not on the disk yet
          phase,    \* the phase, 1 to 3; "use" and "done" before and after
                    \* a run, "cut" after one that the machine stopped in
          runs,     \* runs of sfsck begun
          whole     \* runs that ended since the last that was cut short

kvars == <<disk, origin, hits, prog, todo, phase, runs, whole>>

ENTSIZE == 2
BLKSIZE == ENTSIZE * PERBLOCK

SUPER == 0
ROOTDIR == 1
FREEMAP == 2
NOINO == 0

EXIT_CLEAN == 0
EXIT_RECOV == 1
EXIT_UNRECOV == 2
EXIT_FATAL == 3

ROUNDUP(a, b) == ((a + b - 1) \div b) * b
Least(a, b) == IF a < b THEN a ELSE b

Slot(n, i) == [name |-> n, ino |-> i]
NoSlot == Slot(<<>>, NOINO)
NoPtrs == [i \in 0..(NDIRECT - 1) |-> 0]
Inode(type, size, links, direct, ind) ==
  [k |-> "inode", type |-> type, size |-> size, links |-> links, direct |-> direct,
   ind |-> ind, waste |-> FALSE]
Data == [k |-> "data"]
PastEnd == NBLOCKS..(MAPBITS - 1)

----------------------------------------------------------------------------
(* mksfs                                                                   *)

initfreemap == {SUPER, ROOTDIR, FREEMAP} \cup PastEnd
writesuper == [k |-> "sb", magic |-> TRUE, name |-> <<"vol">>, reserved |-> FALSE]
writefreemap == [k |-> "map", bits |-> initfreemap]
writerootdir == Inode("dir", 0, 1, NoPtrs, 0)

mksfs(d) == [d EXCEPT ![SUPER] = writesuper, ![FREEMAP] = writefreemap, ![ROOTDIR] = writerootdir]

----------------------------------------------------------------------------
(* Reading and writing the structures of the volume (sfs.c)                *)

\* A block of another kind reads as an inode of no valid type, as pointers out
\* of the volume and as entries for inodes out of the volume.
sfs_readinode(d, b) == IF d[b].k = "inode" THEN d[b] ELSE Inode("inval", 0, 0, NoPtrs, 0)
sfs_readindirect(d, b) ==
  IF d[b].k = "ind" THEN d[b].ptr ELSE [i \in 0..(DBPERIDB - 1) |-> NBLOCKS]
sfs_readdirblock(d, b) ==
  CASE b \notin DOMAIN d \ {0} -> [i \in 1..PERBLOCK |-> NoSlot]
    [] b \in DOMAIN d \ {0} /\ d[b].k = "dir" -> d[b].ents
    [] OTHER -> [i \in 1..PERBLOCK |-> Slot(<<"?">>, NBLOCKS)]

ibmap(d, iblock, offset) == IF iblock = 0 THEN 0 ELSE sfs_readindirect(d, iblock)[offset]

bmap(d, sfi, fb) ==
  CASE fb < NDIRECT -> sfi.direct[fb]
    [] fb >= NDIRECT /\ fb < NDIRECT + DBPERIDB -> ibmap(d, sfi.ind, fb - NDIRECT)
    [] OTHER -> 0

Blocks(nd) == ROUNDUP(nd, PERBLOCK) \div PERBLOCK

sfs_readdir(d, sfi, nd) ==
  SubSeq(FlattenSeq([i \in 1..Blocks(nd) |-> sfs_readdirblock(d, bmap(d, sfi, i - 1))]), 1, nd)

----------------------------------------------------------------------------
(* The state of a run: the disk as the program sees it, its writes, the    *)
(* exit code so far, the two bitmaps, the inode table, the number for the  *)
(* next FSCK name, and whether the program has died.                       *)

Start(d) == [disk |-> d, log |-> <<>>, bad |-> EXIT_CLEAN, inuse |-> {}, tofree |-> {},
             inodes |-> <<>>, uid |-> 0, dead |-> "no"]

setbadness(s, code) == [s EXCEPT !.bad = IF @ < code THEN code ELSE @]
Recov(s, if) == IF if THEN setbadness(s, EXIT_RECOV) ELSE s
Die(s, why) == [s EXCEPT !.dead = why]
Assert_(s, cond) == IF cond THEN s ELSE Die(s, "assert")

\* Nothing runs after the program has died.
diskwrite(s, b, what) ==
  IF s.dead # "no" THEN s
  ELSE [s EXCEPT !.disk[b] = what, !.log = Append(@, [block |-> b, what |-> what])]

\* The first n numbers that are left are used.
uniqueid(s, n) == [s EXCEPT !.uid = @ + n]
FsckName(s, ino, n) == <<"FSCK", ToString(ino), ToString(s.uid + n)>>

sfs_writedirblock(s, ents, b) ==
  IF b # 0 THEN diskwrite(s, b, [k |-> "dir", ents |-> ents])
  ELSE IF \E i \in 1..PERBLOCK : ents[i] # NoSlot THEN setbadness(s, EXIT_UNRECOV)
  ELSE s

sfs_writedir(s, sfi, ents) ==
  LET Part(i) == [j \in 1..PERBLOCK |->
                    LET k == i * PERBLOCK + j IN IF k <= Len(ents) THEN ents[k] ELSE NoSlot]
      One(t, i) == sfs_writedirblock(t, Part(i - 1), bmap(t.disk, sfi, i - 1))
  IN  FoldLeft(One, s, [i \in 1..Blocks(Len(ents)) |-> i])

----------------------------------------------------------------------------
(* Superblock and freemap                                                  *)

\* A name that fills its field ends in "~" here, and ":" stands for the
\* characters that no name may contain.
checknullstring(n) == SelectSeq(n, LAMBDA c : c # "~")
checkbadstring(n) == [i \in 1..Len(n) |-> IF n[i] = ":" THEN "_" ELSE n[i]]

sb_load(s) == IF s.disk[SUPER].magic THEN s ELSE [Die(s, "fatal") EXCEPT !.bad = EXIT_FATAL]

sb_check(s) ==
  LET sb == s.disk[SUPER]
      fixed == [sb EXCEPT !.name = checkbadstring(checknullstring(@)), !.reserved = FALSE]
  IN  IF fixed = sb THEN s ELSE diskwrite(setbadness(s, EXIT_RECOV), SUPER, fixed)

\* Mutant: a block found in use stays on the list of blocks to free.
freemap_blocksinuse_tofree(s, ptrs, used) ==
  LET blocks == {ptrs[i] : i \in used}
      twice == blocks \cap s.inuse # {} \/ \E i, j \in used : i # j /\ ptrs[i] = ptrs[j]
  IN  [(IF twice THEN setbadness(s, EXIT_UNRECOV) ELSE s) EXCEPT !.inuse = @ \cup blocks]

\* For the blocks ptrs[i], i in used, one after the other.
freemap_blocksinuse(s, ptrs, used) ==
  LET blocks == {ptrs[i] : i \in used}
      twice == blocks \cap s.inuse # {} \/ \E i, j \in used : i # j /\ ptrs[i] = ptrs[j]
  IN  [(IF twice THEN setbadness(s, EXIT_UNRECOV) ELSE s)
         EXCEPT !.tofree = @ \ blocks, !.inuse = @ \cup blocks]
freemap_blockinuse(s, b) == freemap_blocksinuse(s, 1 :> b, {1})

freemap_blocksfree(s, blocks) == [s EXCEPT !.tofree = @ \cup (blocks \ s.inuse)]
freemap_blockfree(s, b) == freemap_blocksfree(s, {b})

freemap_setup(s) == [s EXCEPT !.inuse = PastEnd \cup {SUPER, FREEMAP}]

\* Mutant: blocks that are marked and not in use are not looked for.
freemap_check_short(s) ==
  LET actual == s.disk[FREEMAP].bits
      short == s.inuse \ actual
      t == Recov(Assert_(s, s.inuse \cap s.tofree = {}), short # {})
  IN  IF short = {} THEN t ELSE diskwrite(t, FREEMAP, [k |-> "map", bits |-> s.inuse])

freemap_check(s) ==
  LET actual == s.disk[FREEMAP].bits
      short == s.inuse \ actual
      extra == (actual \ s.tofree) \ s.inuse
      t == Recov(Assert_(s, s.inuse \cap s.tofree = {}), short \cup extra # {})
  IN  IF actual = s.inuse THEN t ELSE diskwrite(t, FREEMAP, [k |-> "map", bits |-> s.inuse])

----------------------------------------------------------------------------
(* The inode table                                                         *)

inode_addtable(s, ino, type) ==
  [s EXCEPT !.inodes = (ino :> [type |-> type, links |-> 0, visited |-> FALSE]) @@ @]

\* The entry must be there: inode_find exits otherwise.
inode_find(s, ino) == IF ino \in DOMAIN s.inodes THEN s ELSE setbadness(Die(s, "notfound"), EXIT_UNRECOV)

Known(s, ino) == s.dead = "no" /\ ino \in DOMAIN s.inodes

inode_add(s, ino, type) ==
  IF ino \in DOMAIN s.inodes
  THEN Assert_(s, s.inodes[ino].links = 0 /\ s.inodes[ino].type = type)
  ELSE inode_addtable(s, ino, type)

inode_visitdir(s, ino) ==
  LET Mark(t) == [Assert_(t, t.inodes[ino].type = "dir" /\ t.inodes[ino].links = 0)
                    EXCEPT !.inodes[ino].visited = TRUE]
  IN  IF Known(s, ino) THEN Mark(s) ELSE inode_find(s, ino)

inode_addlink(s, ino) ==
  LET Count(t) == [Assert_(t, t.inodes[ino].type = "file" /\ ~t.inodes[ino].visited)
                     EXCEPT !.inodes[ino].links = @ + 1]
  IN  IF Known(s, ino) THEN Count(s) ELSE inode_find(s, ino)

inode_adjust_filelinks(s) ==
  LET Adjust(t, ino, links, sfi) ==
        IF sfi.links = links THEN t
        ELSE diskwrite(setbadness(t, EXIT_RECOV), ino, [sfi EXCEPT !.links = links])
      File(t, ino, links, sfi) == Adjust(Assert_(t, links > 0 /\ sfi.type = "file"), ino, links, sfi)
      Fix(t, ino) ==
        IF t.inodes[ino].type = "dir" \/ t.dead # "no" THEN t
        ELSE File(t, ino, t.inodes[ino].links, sfs_readinode(t.disk, ino))
  IN  FoldLeft(Fix, s, SetToSortSeq(DOMAIN s.inodes, <))

----------------------------------------------------------------------------
(* Pass 1: blocks and sizes.  An inode being checked goes along with the   *)
(* state: s, the inode, and whether it has changed.                        *)

\* The direct pointers of the inode or of an indirect block: one outside the
\* volume is cleared, and one past the end of the file after giving its block
\* back.  first is the number of the file's block for the first of them.
CheckPtrs(s, ptrs, first, fileblocks) ==
  LET Check(inside, used) ==
        [s |-> freemap_blocksinuse(freemap_blocksfree(Recov(s, used # {i \in DOMAIN ptrs : ptrs[i] # 0}),
                                                      {ptrs[i] : i \in inside \ used}),
                                   ptrs, used),
         ptrs |-> [i \in DOMAIN ptrs |-> IF i \in used THEN ptrs[i] ELSE 0]]
      Inside(inside) == Check(inside, {i \in inside : first + i < fileblocks})
  IN  Inside({i \in DOMAIN ptrs : ptrs[i] \in 1..(NBLOCKS - 1)})

\* Mutant: the indirect block itself is not marked.
check_indirect_block_unmarked(s, ientry, fileblocks) ==
  IF ientry = 0 THEN [s |-> s, ptr |-> 0]
  ELSE IF ientry >= NBLOCKS THEN [s |-> setbadness(s, EXIT_RECOV), ptr |-> 0]
  ELSE LET old == sfs_readindirect(s.disk, ientry)
           c == CheckPtrs(s, old, NDIRECT, fileblocks)
       IN  IF \A i \in DOMAIN c.ptrs : c.ptrs[i] = 0
           THEN [s |-> freemap_blockfree(setbadness(c.s, EXIT_RECOV), ientry), ptr |-> 0]
           ELSE [s |-> c.s, ptr |-> ientry]

check_indirect_block(s, ientry, fileblocks) ==
  LET Write(c, old) ==
        IF \A i \in DOMAIN c.ptrs : c.ptrs[i] = 0
        THEN [s |-> freemap_blockfree(setbadness(c.s, EXIT_RECOV), ientry), ptr |-> 0]
        ELSE [s |-> IF c.ptrs = old THEN c.s ELSE diskwrite(c.s, ientry, [k |-> "ind", ptr |-> c.ptrs]),
              ptr |-> ientry]
      Check(old) == Write(CheckPtrs(freemap_blockinuse(s, ientry), old, NDIRECT, fileblocks), old)
  IN  IF ientry = 0 THEN [s |-> s, ptr |-> 0]
      ELSE IF ientry >= NBLOCKS THEN [s |-> setbadness(s, EXIT_RECOV), ptr |-> 0]
      ELSE Check(sfs_readindirect(s.disk, ientry))

\* Mutant: the last block of a file that does not fill it is not counted.
check_inode_blocks_floor(s, sfi) ==
  LET fileblocks == sfi.size \div BLKSIZE
      c == CheckPtrs(s, sfi.direct, 0, fileblocks)
      i == check_indirect_block(c.s, sfi.ind, fileblocks)
  IN  [s |-> i.s, sfi |-> [sfi EXCEPT !.direct = c.ptrs, !.ind = i.ptr]]

check_inode_blocks(s, sfi) ==
  LET Both(c, i) == [s |-> i.s, sfi |-> [sfi EXCEPT !.direct = c.ptrs, !.ind = i.ptr]]
      Indirect(c, fileblocks) == Both(c, check_indirect_block(c.s, sfi.ind, fileblocks))
      Direct(fileblocks) == Indirect(CheckPtrs(s, sfi.direct, 0, fileblocks), fileblocks)
  IN  Direct(ROUNDUP(sfi.size, BLKSIZE) \div BLKSIZE)

\* For an inode that has not been seen before; changed says that the caller
\* has changed it.
pass1_inode(s, ino, sfi, changed) ==
  LET Write(c) == [s |-> IF changed \/ c.sfi # sfi THEN diskwrite(c.s, ino, c.sfi) ELSE c.s, sfi |-> c.sfi]
      Check(t) == Write(check_inode_blocks(Recov(t, sfi.waste), [sfi EXCEPT !.waste = FALSE]))
  IN  Check(freemap_blockinuse(inode_add(s, ino, sfi.type), ino))

\* e is the entry after n nameless ones of the same directory.
pass1_direntry(s, e, n) ==
  IF e.ino \notin 1..(NBLOCKS - 1) THEN NoSlot
  ELSE Slot(checkbadstring(checknullstring(IF e.name = <<>> THEN FsckName(s, e.ino, n) ELSE e.name)),
            e.ino)

Nameless(ents) == {i \in DOMAIN ents : ents[i].ino \in 1..(NBLOCKS - 1) /\ ents[i].name = <<>>}
Before(set, i) == Cardinality({j \in set : j < i})

pass1_direntries(s, ents) ==
  LET new == [i \in 1..Len(ents) |-> pass1_direntry(s, ents[i], Before(Nameless(ents), i))]
  IN  [s |-> uniqueid(Recov(s, new # ents), Cardinality(Nameless(ents))), ents |-> new]

Dots(e) == e.name \in {<<".">>, <<"..">>}
Indices(seq) == [i \in 1..Len(seq) |-> i]

RECURSIVE pass1_dir(_, _)
pass1_dir(s0, ino) ==
  LET Visit(t, i, e, sub) ==
        CASE e.ino = NOINO \/ Dots(e) -> t
          [] e.ino # NOINO /\ ~Dots(e) /\ sub.type = "file" ->
             [t EXCEPT !.s = IF e.ino \in DOMAIN @.inodes THEN inode_add(@, e.ino, "file")
                             ELSE pass1_inode(@, e.ino, sub, FALSE).s]
          [] e.ino # NOINO /\ ~Dots(e) /\ sub.type = "dir" -> [t EXCEPT !.s = pass1_dir(@, e.ino)]
          [] OTHER -> [s |-> setbadness(t.s, EXIT_RECOV), ents |-> [t.ents EXCEPT ![i] = NoSlot]]
      VisitEntry(t, i) == Visit(t, i, t.ents[i], sfs_readinode(t.s.disk, t.ents[i].ino))
      Write(sfi, ents, done) == IF done.ents = ents THEN done.s ELSE sfs_writedir(done.s, sfi, done.ents)
      Entries(p, ents) == Write(p.sfi, ents, FoldLeft(VisitEntry, pass1_direntries(p.s, ents), Indices(ents)))
      Checked(p) == Entries(p, sfs_readdir(p.s.disk, p.sfi, p.sfi.size \div ENTSIZE))
      Sized(s, old, illegal) ==
        IF ino \in DOMAIN s.inodes THEN Assert_(inode_add(s, ino, "dir"), ~illegal)
        ELSE Checked(pass1_inode(s, ino, [old EXCEPT !.size = ROUNDUP(@, ENTSIZE)], illegal))
      Size(old, illegal) == Sized(Recov(s0, illegal), old, illegal)
      Read(old) == Size(old, old.size % ENTSIZE # 0)
  IN  IF s0.dead # "no" THEN s0 ELSE Read(sfs_readinode(s0.disk, ino))

pass1_rootdir(s) ==
  LET Typed(sfi) ==
        IF sfi.type = "dir" THEN s
        ELSE diskwrite(setbadness(s, EXIT_RECOV), ROOTDIR, [sfi EXCEPT !.type = "dir"])
  IN  pass1_dir(Typed(sfs_readinode(s.disk, ROOTDIR)), ROOTDIR)

----------------------------------------------------------------------------
(* Pass 2: the directory tree                                              *)

\* Sorted by name, an entry meets the next one of the same name.  qsort keeps no
\* order among equals: the two entries of one name come in the order they have
\* in the directory (up) or in the opposite one.
NextDuplicate(ents, i, up) ==
  {j \in 1..Len(ents) : /\ ents[j].ino # NOINO /\ ents[j].name = ents[i].name
                        /\ IF up THEN j > i ELSE j < i}

Duplicates(s, ents, up) ==
  LET Nearest(js) == IF up THEN Min(js) ELSE Max(js)
      Resolve(again, renamed) ==
        [s |-> uniqueid(Recov(s, again # {}), Cardinality(renamed)),
         ents |-> [i \in 1..Len(ents) |->
                     CASE i \in renamed -> Slot(FsckName(s, ents[i].ino, Before(renamed, i)), ents[i].ino)
                       [] i \in again \ renamed -> NoSlot
                       [] i \notin again -> ents[i]]]
      Again(again) == Resolve(again, {i \in again : 
                                            ents[Nearest(NextDuplicate(ents, i, up))].ino # ents[i].ino})
  IN  Again({i \in 1..Len(ents) : ents[i].ino # NOINO /\ NextDuplicate(ents, i, up) # {}})

FreeSlots(ents) == {i \in 1..Len(ents) : ents[i].ino = NOINO}

\* Put an entry into a free slot, or into what is left of the last block.
sfsdir_tryadd(t, e, max) ==
  IF FreeSlots(t.ents) # {}
  THEN [s |-> setbadness(t.s, EXIT_RECOV), ents |-> [t.ents EXCEPT ![Min(FreeSlots(t.ents))] = e]]
  ELSE IF Len(t.ents) < max
  THEN [s |-> setbadness(t.s, EXIT_RECOV), ents |-> Append(t.ents, e)]
  ELSE [t EXCEPT !.s = setbadness(@, EXIT_UNRECOV)]

\* The entry "." or "..": corrected, or added when there is none.
FixDot(t, name, ino, max, found) ==
  IF found = {} THEN sfsdir_tryadd(t, Slot(name, ino), max)
  ELSE LET i == Min(found)
       IN  [s |-> Assert_(Recov(t.s, t.ents[i].ino # ino), Cardinality(found) = 1),
            ents |-> [t.ents EXCEPT ![i].ino = ino]]

Called(ents, name) == {i \in 1..Len(ents) : ents[i].name = name}

RECURSIVE pass2_dir(_, _, _, _)
pass2_dir(s0, ino, parent, up) ==
  LET Without(t, i) == [t EXCEPT !.s = setbadness(@, EXIT_RECOV), !.ents[i] = NoSlot]
      Subdir(t, i, r) ==
        IF r.cross THEN Without([t EXCEPT !.s = r.s], i) ELSE [t EXCEPT !.s = r.s, !.subdirs = @ + 1]
      Visit(t, i, e, type) ==
        CASE e.ino = NOINO \/ Dots(e) \/ t.s.dead # "no" -> t
          [] ~(e.ino = NOINO \/ Dots(e) \/ t.s.dead # "no") /\ type = "file" ->
             [t EXCEPT !.s = inode_addlink(@, e.ino)]
          [] ~(e.ino = NOINO \/ Dots(e) \/ t.s.dead # "no") /\ type = "dir" ->
             Subdir(t, i, pass2_dir(t.s, e.ino, ino, up))
          [] OTHER -> Without(t, i)
      VisitEntry(t, i) == Visit(t, i, t.ents[i], sfs_readinode(t.s.disk, t.ents[i].ino).type)
      WriteInode(s, sfi, new) == IF new = sfi THEN s ELSE diskwrite(s, ino, new)
      WriteEntries(s, sfi, ents, new) == IF new = ents THEN s ELSE sfs_writedir(s, sfi, new)
      Write(sfi, ents, done, new) ==
        WriteInode(WriteEntries(Recov(done.s, new.links # sfi.links), sfi, ents, done.ents), sfi, new)
      Linked(sfi, ents, done) ==
        Write(sfi, ents, done, [sfi EXCEPT !.links = done.subdirs + 2, !.size = ENTSIZE * Len(done.ents)])
      Dotted(sfi, ents, t) ==
        Linked(sfi, ents,
               FoldLeft(VisitEntry, [s |-> t.s, ents |-> t.ents, subdirs |-> 0], Indices(t.ents)))
      Unique(sfi, ents, t, max) ==
        Dotted(sfi, ents, FixDot(FixDot(t, <<".">>, ino, max, Called(t.ents, <<".">>)),
                                 <<"..">>, parent, max, Called(t.ents, <<"..">>)))
      Entries(s, sfi, ents) == Unique(sfi, ents, Duplicates(s, ents, up), ROUNDUP(Len(ents), PERBLOCK))
      Read(s, sfi) == Entries(s, sfi, sfs_readdir(s.disk, sfi, sfi.size \div ENTSIZE))
      Visited(s) == IF s.dead # "no" THEN s ELSE Read(s, sfs_readinode(s.disk, ino))
  IN  IF Known(s0, ino) /\ s0.inodes[ino].visited THEN [s |-> inode_visitdir(s0, ino), cross |-> TRUE]
      ELSE [s |-> Visited(inode_visitdir(s0, ino)), cross |-> FALSE]

pass2(s, up) == IF s.dead # "no" THEN s ELSE pass2_dir(s, ROOTDIR, ROOTDIR, up).s

\* The phases of the program, each from what the one before it leaves.
Phase1(d) ==
  LET Check(s) == IF s.dead # "no" THEN s ELSE freemap_check(pass1_rootdir(freemap_setup(sb_check(s))))
  IN  Check(sb_load(Start(d)))

Phase2(s, up) == pass2([s EXCEPT !.log = <<>>], up)

Phase3(s) == inode_adjust_filelinks([s EXCEPT !.log = <<>>])

----------------------------------------------------------------------------
(* dumpsfs: the blocks it reads, and whether it comes to an end             *)

traverse_ib(d, iblock) ==
  IF iblock = 0 THEN [i \in 0..(DBPERIDB - 1) |-> 0] ELSE sfs_readindirect(d, iblock)

\* The first numblocks pointers of a file, in order.
FirstPointers(d, sfi, numblocks) ==
  [n \in 1..Least(numblocks, NDIRECT + DBPERIDB) |->
     IF n <= NDIRECT THEN sfi.direct[n - 1] ELSE traverse_ib(d, sfi.ind)[n - 1 - NDIRECT]]

\* Mutant: the last block of a file that does not fill it is not read.
traverse_floor(d, sfi) == FirstPointers(d, sfi, sfi.size \div BLKSIZE)

traverse(d, sfi) == FirstPointers(d, sfi, (sfi.size + BLKSIZE - 1) \div BLKSIZE)

\* The inodes of a directory's entries, "." and ".." too, and those of entries
\* past the end of the directory in its last block.
recursedirblock(d, b) ==
  IF b = 0 THEN <<>>
  ELSE SelectSeq([i \in 1..PERBLOCK |-> sfs_readdirblock(d, b)[i].ino], LAMBDA ino : ino # NOINO)
recursedir(d, sfi) ==
  FoldLeft(LAMBDA inos, b : inos \o recursedirblock(d, b), <<>>, traverse(d, sfi))

\* What printing each part of the volume reads.
dumpsb == {SUPER}
dumpfreemap == {FREEMAP}
dumpindirect(sfi) == {sfi.ind} \ {0}
dumpdir(d, sfi) == IF sfi.type = "dir" THEN Range(traverse(d, sfi)) \ {0} ELSE {}
dumpfile(d, sfi) == IF sfi.type = "file" THEN Range(traverse(d, sfi)) \ {0} ELSE {}

\* What dumpinode reads and whether it returns.  With -r it calls itself for
\* every entry and remembers no inode: for one whose dump has not returned
\* (above) it does the same again, without end.
RECURSIVE dumpinode(_, _, _, _)
dumpinode(d, ino, recurse, above) ==
  LET sfi == sfs_readinode(d, ino)
      own == {ino} \cup dumpindirect(sfi) \cup dumpdir(d, sfi) \cup dumpfile(d, sfi)
      Both(r, q) == [reads |-> r.reads \cup q.reads, ends |-> q.ends]
      Entry(r, i) == IF r.ends THEN Both(r, dumpinode(d, i, recurse, above \cup {ino})) ELSE r
  IN  IF ino \in above THEN [reads |-> {}, ends |-> FALSE]
      ELSE FoldLeft(Entry, [reads |-> own, ends |-> TRUE],
                    IF recurse /\ sfi.type = "dir" THEN recursedir(d, sfi) ELSE <<>>)

\* dumpsfs -sbIfd -i ino, with or without -r.
dumpsfs(d, ino, recurse) ==
  LET r == dumpinode(d, ino, recurse, {})
  IN  [r EXCEPT !.reads = @ \cup dumpsb \cup dumpfreemap]

----------------------------------------------------------------------------
(* Volumes and what can happen to them                                     *)

Empty == mksfs([b \in 0..(NBLOCKS - 1) |-> Data])

Ptrs(f, n) == [i \in 0..(n - 1) |-> IF i \in DOMAIN f THEN f[i] ELSE 0]
Ents(seq) == [k |-> "dir", ents |-> [i \in 1..PERBLOCK |-> IF i <= Len(seq) THEN seq[i] ELSE NoSlot]]

\* A file with a direct and an indirect block; this kernel keeps no "." and
\* "..", and leaves the link count of the root directory alone.
Grown ==
  [Empty EXCEPT
     ![FREEMAP].bits = @ \cup 3..7,
     ![ROOTDIR] = Inode("dir", ENTSIZE, 1, Ptrs(0 :> 3, NDIRECT), 0),
     ![3] = Ents(<<Slot(<<"a">>, 4)>>),
     ![4] = Inode("file", BLKSIZE * NDIRECT + 1, 1, Ptrs(0 :> 5, NDIRECT), 6),
     ![6] = [k |-> "ind", ptr |-> Ptrs(0 :> 7, DBPERIDB)]]

\* A volume of a kernel with subdirectories: the file has a second name in one.
Nested ==
  [Grown EXCEPT
     ![FREEMAP].bits = @ \cup {8, 9},
     ![ROOTDIR].size = 4 * ENTSIZE, ![ROOTDIR].links = 3,
     ![3] = Ents(<<Slot(<<".">>, 1), Slot(<<"..">>, 1), Slot(<<"a">>, 4), Slot(<<"d">>, 8)>>),
     ![4].links = 2,
     ![8] = Inode("dir", 3 * ENTSIZE, 2, Ptrs(0 :> 9, NDIRECT), 0),
     ![9] = Ents(<<Slot(<<".">>, 8), Slot(<<"..">>, 1), Slot(<<"b">>, 4)>>)]

Of(d, kind) == {b \in DOMAIN d : d[b].k = kind}

\* One field of one block has the wrong value.
Damaged(d) ==
  {[d EXCEPT ![b].direct[i] = p] : b \in Of(d, "inode"), i \in 0..(NDIRECT - 1), p \in BadPtrs}
  \cup {[d EXCEPT ![b].ind = p] : b \in Of(d, "inode"), p \in BadPtrs}
  \cup {[d EXCEPT ![b].ptr[i] = p] : b \in Of(d, "ind"), i \in 0..(DBPERIDB - 1), p \in BadPtrs}
  \cup {[d EXCEPT ![b].size = n] : b \in Of(d, "inode"), n \in BadSizes}
  \cup {[d EXCEPT ![b].links = n] : b \in Of(d, "inode"), n \in {0, 3}}
  \cup {[d EXCEPT ![b].type = t] : b \in Of(d, "inode"), t \in {"file", "dir", "inval"}}
  \cup {[d EXCEPT ![b].waste = TRUE] : b \in Of(d, "inode")}
  \cup {[d EXCEPT ![b].ents[i].ino = p] : b \in Of(d, "dir"), i \in 1..PERBLOCK, p \in BadPtrs}
  \cup {[d EXCEPT ![b].ents[i].name = n] : b \in Of(d, "dir"), i \in 1..PERBLOCK, n \in BadNames}
  \cup {[d EXCEPT ![FREEMAP].bits = @ \ {b}] : b \in {4, NBLOCKS}}
  \cup {[d EXCEPT ![FREEMAP].bits = @ \cup {NBLOCKS - 1}]}
  \cup {[d EXCEPT ![SUPER].name = <<"vol", c>>] : c \in {"~", ":"}}
  \cup {[d EXCEPT ![SUPER].reserved = TRUE], [d EXCEPT ![SUPER].magic = FALSE]}

SfsckInit ==
  /\ disk \in {Empty, Grown, Nested}
  /\ origin = disk /\ prog = Start(disk)
  /\ hits = 0 /\ todo = <<>> /\ phase = "use" /\ runs = 0 /\ whole = 0

Damage ==
  /\ phase = "use" /\ hits < Damages
  /\ disk' \in Damaged(disk)
  /\ hits' = hits + 1
  /\ UNCHANGED <<origin, prog, todo, phase, runs, whole>>

Enter(ph, s) == phase' = ph /\ prog' = s /\ todo' = s.log

CheckBlocks ==
  /\ phase \in {"use", "done", "cut"} /\ runs < Runs
  /\ Enter("phase1", Phase1(disk))
  /\ origin' = IF phase = "use" THEN disk ELSE origin
  /\ runs' = runs + 1
  /\ UNCHANGED <<disk, hits, whole>>

CheckTree ==
  /\ phase = "phase1" /\ todo = <<>> /\ prog.dead = "no"
  /\ \E up \in BOOLEAN : Enter("phase2", Phase2(prog, up))
  /\ UNCHANGED <<disk, origin, hits, runs, whole>>

CheckLinks ==
  /\ phase = "phase2" /\ todo = <<>> /\ prog.dead = "no"
  /\ Enter("phase3", Phase3(prog))
  /\ UNCHANGED <<disk, origin, hits, runs, whole>>

WriteBlock ==
  /\ todo # <<>>
  /\ disk' = [disk EXCEPT ![Head(todo).block] = Head(todo).what]
  /\ todo' = Tail(todo)
  /\ UNCHANGED <<origin, hits, prog, phase, runs, whole>>

\* The program returns, or dies.
EndCheck ==
  /\ phase \in {"phase1", "phase2", "phase3"} /\ todo = <<>>
  /\ phase = "phase3" \/ prog.dead # "no"
  /\ phase' = "done" /\ whole' = whole + 1
  /\ UNCHANGED <<disk, origin, hits, prog, todo, runs>>

\* The machine stops between two writes.
Stop ==
  /\ todo # <<>> /\ runs < Runs
  /\ phase' = "cut" /\ todo' = <<>> /\ prog' = Start(disk) /\ whole' = 0
  /\ UNCHANGED <<disk, origin, hits, runs>>

SfsckNext == Damage \/ CheckBlocks \/ CheckTree \/ CheckLinks \/ WriteBlock \/ EndCheck \/ Stop

SfsckSpec == SfsckInit /\ [][SfsckNext]_kvars

----------------------------------------------------------------------------
(* What a volume should be, said without the program                       *)

\* Pointers out of the volume count as none.
Within(p) == IF p < NBLOCKS THEN p ELSE 0
Slots(d, i) ==
  LET sfi == [d[i] EXCEPT !.direct = [k \in DOMAIN @ |-> Within(@[k])], !.ind = Within(@)]
  IN  sfs_readdir(d, sfi, ROUNDUP(sfi.size, ENTSIZE) \div ENTSIZE)
Children(d, i) ==
  {k \in 1..Len(Slots(d, i)) :
     LET e == Slots(d, i)[k] IN e.ino \in 1..(NBLOCKS - 1) /\ ~Dots(e)
                                /\ sfs_readinode(d, e.ino).type \in {"file", "dir"}}
Subs(d, i) == {Slots(d, i)[k].ino : k \in Children(d, i)}

\* The root directory is one whatever its inode says.
IsDir(d, i) == i = ROOTDIR \/ sfs_readinode(d, i).type = "dir"

RECURSIVE Reached(_, _)
Reached(d, seen) ==
  LET new == UNION {Subs(d, i) : i \in {j \in seen : IsDir(d, j)}}
  IN  IF new \subseteq seen THEN seen ELSE Reached(d, seen \cup new)

Tree(d) == Reached(d, {ROOTDIR})
DirsOf(d) == {i \in Tree(d) : IsDir(d, i)}
FilesOf(d) == Tree(d) \ DirsOf(d)

FileBlocks(sfi) == (sfi.size + BLKSIZE - 1) \div BLKSIZE
\* The pointers of an inode, as pairs of a place and a block: indirect, or the
\* number of the block in the file.
Pointers(d, i) ==
  {<<k, d[i].direct[k]>> : k \in 0..(NDIRECT - 1)}
  \cup {<<-1, d[i].ind>>}
  \cup (IF d[i].ind \in 1..(NBLOCKS - 1)
        THEN {<<NDIRECT + k, sfs_readindirect(d, d[i].ind)[k]>> : k \in 0..(DBPERIDB - 1)} ELSE {})
UsedBy(d, i) == {p \in Pointers(d, i) : p[2] # 0}
InTree(d) == UNION {{<<i, p[1], p[2]>> : p \in UsedBy(d, i)} : i \in Tree(d)}
UsedBlocks(d) == {SUPER, FREEMAP} \cup Tree(d) \cup {u[3] : u \in InTree(d)}

BlocksRight(d) ==
  /\ \A u \in InTree(d) : u[3] < NBLOCKS /\ u[2] < FileBlocks(d[u[1]])
  /\ \A u, v \in InTree(d) : u[3] = v[3] => u = v
  /\ \A u \in InTree(d) : u[3] \notin Tree(d) \cup {SUPER, FREEMAP}
  /\ \A i \in Tree(d) : d[i].ind # 0 => \E p \in UsedBy(d, i) : p[1] >= NDIRECT
  /\ d[FREEMAP].bits = UsedBlocks(d) \cup PastEnd

Legal(n) == n # <<>> /\ \A i \in 1..Len(n) : n[i] \notin {":", "~"}

NamesRight(d) ==
  \A i \in DirsOf(d) :
    LET s == Slots(d, i)
        live == {k \in 1..Len(s) : s[k].ino # NOINO}
    IN  /\ d[i].size % ENTSIZE = 0
        /\ \A k \in live : Legal(s[k].name) /\ (Dots(s[k]) \/ k \in Children(d, i))
        /\ \A k \in 1..Len(s) \ live : s[k].name = <<>>
        /\ \A k, l \in live : s[k].name = s[l].name => k = l
        /\ \E k \in live : s[k] = Slot(<<".">>, i)
        /\ \E k \in live : s[k].name = <<"..">>
                           /\ IF i = ROOTDIR THEN s[k].ino = ROOTDIR ELSE i \in Subs(d, s[k].ino)

NamesFor(d, i) == {<<j, k>> \in DirsOf(d) \X (1..(PERBLOCK * (NDIRECT + DBPERIDB))) :
                     k \in Children(d, j) /\ Slots(d, j)[k].ino = i}

LinksRight(d) ==
  /\ \A i \in FilesOf(d) : d[i].links = Cardinality(NamesFor(d, i))
  /\ \A i \in DirsOf(d) : /\ Cardinality(NamesFor(d, i)) = IF i = ROOTDIR THEN 0 ELSE 1
                          /\ d[i].links = 2 + Cardinality(Subs(d, i) \cap DirsOf(d))

Consistent(d) ==
  /\ d[SUPER].magic /\ Legal(d[SUPER].name) /\ ~d[SUPER].reserved
  /\ d[ROOTDIR].type = "dir" /\ \A i \in Tree(d) : ~d[i].waste
  /\ BlocksRight(d) /\ NamesRight(d) /\ LinksRight(d)

Finished == phase = "done" /\ prog.dead = "no"

\* sfsck tells the truth (main.c): when it ends with EXIT_CLEAN, or for the
\* second time in a row has repaired all it found, the volume on the disk is a
\* tree whose names, link counts, block pointers and freemap agree, whatever
\* was damaged and wherever earlier runs were cut short.
CleanMeansConsistent ==
  Finished /\ (prog.bad = EXIT_CLEAN \/ (whole >= 2 /\ prog.bad = EXIT_RECOV)) => Consistent(disk)

\* The blocks that the files and directories of a volume have within their
\* sizes; no block has two uses.
Live(d) == {u \in InTree(d) : u[3] < NBLOCKS /\ u[2] < FileBlocks(d[u[1]])}
UsedOnce(d) ==
  /\ \A u, v \in Live(d) : u[3] = v[3] => u = v
  /\ \A u \in Live(d) : u[3] \notin Tree(d) \cup {SUPER, FREEMAP}
Content(d, i) == {u \in Live(d) : u[1] = i /\ u[2] >= 0}

\* Repair loses no data (pass1.c): if no block of the damaged volume had two
\* uses, every file that could be reached before the first check can be reached
\* after any run, with the same blocks at the same places.
FilesKept ==
  Finished /\ UsedOnce(origin) =>
    \A i \in FilesOf(origin) : i \in FilesOf(disk) /\ Content(disk, i) = Content(origin, i)

\* Whatever sfsck reports (freemap.c), when it ends without dying no block that
\* the volume still uses is marked free, so the kernel will not allocate it.
NoUsedBlockFree == Finished => UsedBlocks(disk) \subseteq disk[FREEMAP].bits

\* traverse asserts that it has come to the last block of the file.
Mappable(d) == \A i \in Tree(d) : FileBlocks(d[i]) <= NDIRECT + DBPERIDB
NoStale(d) ==
  \A i \in DirsOf(d) : Range(recursedir(d, d[i])) \subseteq {e.ino : e \in Range(Slots(d, i))}

\* On a volume that sfsck calls clean, dumpsfs asked for one inode of the tree
\* after the other reads exactly the blocks that the freemap has in use, and
\* with -r, which does not end there, none that is free (dumpsfs.c), if no file
\* is longer than pointers reach and no directory block has entries past the
\* directory's end, which it reads too.
DumpReadsInUse ==
  Finished /\ prog.bad = EXIT_CLEAN /\ Mappable(disk) /\ NoStale(disk) =>
    /\ UNION {dumpsfs(disk, i, FALSE).reads : i \in Tree(disk)} = disk[FREEMAP].bits \ PastEnd
    /\ dumpsfs(disk, ROOTDIR, TRUE).reads \subseteq disk[FREEMAP].bits

\* The assertions of the inode table and of the freemap (inode.c, freemap.c,
\* pass2.c) fail only on volumes on which unrecoverable damage, a block with
\* two uses, was reported before.
NeverAsserts == prog.dead = "assert" => prog.bad = EXIT_UNRECOV

============================================================================
