--------------------------- MODULE FrackWorkloads ---------------------------
(***************************************************************************)
(* The workloads of testbin/frack, the crash tester of file systems.  A    *)
(* workload is a sequence of operations; frack runs it once on a volume    *)
(* ("do") and replays it later into a model of the volume ("check").       *)
(*                                                                         *)
(* A workload is the set of the operation sequences it can perform: one    *)
(* sequence when it makes no random choice.  A length is a number of units;*)
(* a unit stands for one copy of the text prepdata fills a buffer with.    *)
(***************************************************************************)
EXTENDS Integers, Sequences, SequencesExt, FiniteSets

CONSTANTS
  BLOCKSIZE,    \* units in a block (512 bytes in the code)
  Ndb,          \* direct blocks of an inode (15)
  Dbperidb,     \* blocks an indirect block maps (128)
  Many,         \* numfiles, numdirs of the "many" workloads (27)
  ManyLinks,    \* numfiles of the link and rename workloads (14)
  TreeThings,   \* numthings of the canned tree (4)
  RandThings,   \* things in a random tree (12 to 55)
  SeqFiles,     \* numfiles of the random sequences (27 and 14)
  SeqOps,       \* operations in a random sequence (100 to 199)
  RandPos,      \* positions randwrite picks from
  RandLen,      \* lengths randwrite picks from
  RandTrunc     \* lengths randtruncate picks from

-----------------------------------------------------------------------------
(* Operations.  An open file is kept in a slot of the workload: files[i] is *)
(* slot i, a local variable f is slot LocalF.                               *)

LocalF == 90
LocalD == 91

Open(h, code, name, flags) ==
  [op |-> "open", h |-> h, code |-> code, name |-> name, flags |-> flags]
Close(h) == [op |-> "close", h |-> h]
Write(h, pos, len) == [op |-> "write", h |-> h, pos |-> pos, len |-> len]
Truncate(h, len) == [op |-> "truncate", h |-> h, len |-> len]
Opendir(h, name) == [op |-> "opendir", h |-> h, name |-> name]
Closedir(h) == [op |-> "closedir", h |-> h]
Mkdir(name) == [op |-> "mkdir", name |-> name]
Rmdir(name) == [op |-> "rmdir", name |-> name]
Unlink(name) == [op |-> "unlink", name |-> name]
Link(from, to) == [op |-> "link", from |-> from, to |-> to]
Rename(from, to) == [op |-> "rename", from |-> from, to |-> to]
Renamexd(fromdir, from, todir, to) ==
  [op |-> "renamexd", fromdir |-> fromdir, from |-> from, todir |-> todir, to |-> to]
Chdir(name) == [op |-> "chdir", name |-> name]
Chdirup == [op |-> "chdirup"]
Sync == [op |-> "sync"]

\* for (i = lo; i < hi; i++) Body(i)
Each(lo, hi, Body(_)) == FlattenSeq([k \in 1..(hi - lo) |-> Body(lo + k - 1)])

-----------------------------------------------------------------------------
(* Standard sizes.                                                          *)

strtosize == {"small", "medium", "large"}
randsize == {"one", "small", "medium"}

nextsmallersize(sz) ==
  CASE sz = "small" -> "one" [] sz = "medium" -> "small" [] sz = "large" -> "medium"

nextlargersize(sz) ==
  CASE sz = "small" -> "medium" [] sz = "medium" -> "large" [] sz = "large" -> "largeplus"

sizeblocks(sz) ==
  CASE sz = "one" -> 1
    [] sz = "small" -> Ndb
    [] sz = "medium" -> Ndb + Dbperidb \div 2
    [] sz = "large" -> Ndb + Dbperidb + (Dbperidb * Dbperidb) \div 2
    [] sz = "largeplus" -> Ndb + Dbperidb + Dbperidb * Dbperidb + Dbperidb \div 2

sizebytes(sz) == BLOCKSIZE * sizeblocks(sz)

-----------------------------------------------------------------------------
(* Common suboperations.                                                    *)

\* Random one-block writes, at least two, that leave the first startskip and
\* the last endskip blocks alone: the set of the possible sequences.
file_randomwrite(h, sz, startskip, endskip) ==
  LET nblocks == sizeblocks(sz)
      nwrites == IF nblocks \div 6 < 2 THEN 2 ELSE nblocks \div 6
      blocks == startskip .. (nblocks - endskip - 1)
  IN  {[i \in 1..nwrites |-> Write(h, BLOCKSIZE * b[i], BLOCKSIZE)] : b \in [1..nwrites -> blocks]}

writeemptyfile(filenum) == <<Open(LocalF, 0, filenum, "creat"), Close(LocalF)>>

writeoutfile(testcode, filenum, openflags, sz) ==
  <<Open(LocalF, testcode, filenum, openflags), Write(LocalF, 0, sizebytes(sz)), Close(LocalF)>>

writenewfile(testcode, filenum, sz) == writeoutfile(testcode, filenum, "creat", sz)

writeholeyfile(testcode, filenum, sz) ==
  <<Open(LocalF, testcode, filenum, "creat"),
    Write(LocalF, 0, BLOCKSIZE),
    Write(LocalF, sizebytes(sz) - BLOCKSIZE, BLOCKSIZE),
    Close(LocalF)>>

makesubtree(testcode, filenum) ==
  LET Top(i) == IF i \in {2, 5} THEN <<Mkdir(i)>> ELSE writenewfile(testcode, i, "one")
      Sub2(i) == writenewfile(testcode, i + 3, "one")
      Sub5(i) == IF i = 3 THEN <<Mkdir(i + 3)>> ELSE writenewfile(testcode, i + 3, "one")
      Sub6(i) == writenewfile(testcode, i + 7, "one")
  IN  <<Mkdir(filenum), Chdir(filenum)>> \o Each(0, 7, Top)
      \o <<Chdir(2)>> \o Each(0, 4, Sub2) \o <<Chdirup>>
      \o <<Chdir(5)>> \o Each(0, 5, Sub5)
      \o <<Chdir(6)>> \o Each(0, 2, Sub6) \o <<Chdirup, Chdirup, Chdirup>>

-----------------------------------------------------------------------------
(* Writing.                                                                 *)

wl_createwrite(sz) == {writenewfile(1, 0, sz)}

wl_rewrite(sz) == {writenewfile(2, 0, sz) \o <<Sync>> \o writeoutfile(3, 0, "none", sz)}

wl_randupdate(sz) ==
  {writenewfile(4, 0, sz) \o <<Sync, Open(LocalF, 5, 0, "none")>> \o w \o <<Close(LocalF)>>
     : w \in file_randomwrite(LocalF, sz, 0, 0)}

wl_truncwrite(sz) == {writenewfile(6, 0, sz) \o <<Sync>> \o writeoutfile(6, 0, "trunc", sz)}

wl_makehole(sz) == {writeholeyfile(8, 0, sz)}

wl_fillhole(sz) ==
  {writeholeyfile(9, 0, sz) \o <<Sync, Open(LocalF, 10, 0, "none")>> \o w \o <<Close(LocalF)>>
     : w \in file_randomwrite(LocalF, sz, 1, 1)}

wl_truncfill(sz) ==
  {<<Open(LocalF, 11, 0, "creat"), Truncate(LocalF, sizebytes(sz)), Close(LocalF), Sync,
     Open(LocalF, 11, 0, "none")>> \o w \o <<Close(LocalF)>>
     : w \in file_randomwrite(LocalF, sz, 0, 0)}

\* Write out a file, sync it, open it again and do ops.
Reopened(testcode, sz, newcode, ops) ==
  {writenewfile(testcode, 0, sz) \o <<Sync, Open(LocalF, newcode, 0, "none")>>
     \o ops \o <<Close(LocalF)>>}

wl_append(sz) == Reopened(11, sz, 12, <<Write(LocalF, sizebytes(sz), BLOCKSIZE * 4)>>)

-----------------------------------------------------------------------------
(* Truncating.                                                              *)

wl_trunczero(sz) == Reopened(50, sz, 50, <<Truncate(LocalF, 0)>>)
wl_trunconeblock(sz) == Reopened(50, sz, 50, <<Truncate(LocalF, sizebytes(sz) - BLOCKSIZE)>>)
wl_truncsmallersize(sz) == Reopened(50, sz, 50, <<Truncate(LocalF, sizebytes(nextsmallersize(sz)))>>)
wl_trunclargersize(sz) == Reopened(50, sz, 50, <<Truncate(LocalF, sizebytes(nextlargersize(sz)))>>)

wl_appendandtrunczero(sz) ==
  Reopened(50, sz, 50, <<Write(LocalF, sizebytes(sz), BLOCKSIZE * 4), Truncate(LocalF, 0)>>)

wl_appendandtruncpartly(sz) ==
  Reopened(50, sz, 50, <<Write(LocalF, sizebytes(sz), BLOCKSIZE * 4),
                         Truncate(LocalF, sizebytes(sz) + BLOCKSIZE * 2)>>)

-----------------------------------------------------------------------------
(* Creating and deleting.                                                   *)

ManyFiles(testcode, n, sz) == LET New(i) == writenewfile(testcode, i, sz) IN Each(0, n, New)
ManyDirs(n) == LET New(i) == <<Mkdir(i)>> IN Each(0, n, New)
UnlinkMany(n) == LET Del(i) == <<Unlink(i)>> IN Each(0, n, Del)
OpenMany(testcode, n) == LET Op(i) == <<Open(i, testcode, i, "none")>> IN Each(0, n, Op)
CloseMany(n) == LET Cl(i) == <<Close(i)>> IN Each(0, n, Cl)

wl_mkfile == {writenewfile(100, 0, "one")}
wl_mkdir == {<<Mkdir(0)>>}
wl_mkmanyfile == {ManyFiles(101, Many, "one")}
wl_mkmanydir == {ManyDirs(Many)}

RECURSIVE wl_mktree_sub(_, _)
wl_mktree_sub(testcode, depth) ==
  LET Thing(i) ==
        IF i < depth THEN writenewfile(testcode, i, "one")
        ELSE IF depth < TreeThings
          THEN <<Mkdir(i), Chdir(i)>> \o wl_mktree_sub(testcode, depth + 1) \o <<Chdirup>>
          ELSE <<Mkdir(i)>>
  IN  Each(0, TreeThings, Thing)

RECURSIVE wl_rmtree_sub(_)
wl_rmtree_sub(depth) ==
  LET Thing(i) ==
        IF i < depth THEN <<Unlink(i)>>
        ELSE IF depth < TreeThings
          THEN <<Chdir(i)>> \o wl_rmtree_sub(depth + 1) \o <<Chdirup, Rmdir(i)>>
          ELSE <<Rmdir(i)>>
  IN  Each(0, TreeThings, Thing)

wl_mktree == {wl_mktree_sub(102, 0)}

\* The random trees.  What the calls of random() decide is the shape of the
\* tree: a sequence of things, each a file (<<>> in a one-element tuple) or a
\* directory with a shape of its own.  Shapes(n) has n things in all; the
\* pass that removes the tree reseeds the generator and walks the same shape.
RECURSIVE Shapes(_)
Shapes(n) ==
  IF n = 0 THEN {<<>>}
  ELSE {<<[dir |-> FALSE]>> \o rest : rest \in Shapes(n - 1)}
       \cup UNION {{<<[dir |-> TRUE, sub |-> sub]>> \o rest :
                        sub \in Shapes(k), rest \in Shapes(n - 1 - k)} : k \in 0..(n - 1)}

RECURSIVE mkrandtree_sub(_, _)
mkrandtree_sub(testcode, shape) ==
  LET Thing(i) ==
        IF shape[i + 1].dir
          THEN <<Mkdir(i), Chdir(i)>> \o mkrandtree_sub(testcode, shape[i + 1].sub) \o <<Chdirup>>
          ELSE writenewfile(testcode, i, "one")
  IN  Each(0, Len(shape), Thing)

RECURSIVE rmrandtree_sub(_)
rmrandtree_sub(shape) ==
  LET Thing(i) ==
        IF shape[i + 1].dir
          THEN <<Chdir(i)>> \o rmrandtree_sub(shape[i + 1].sub) \o <<Chdirup, Rmdir(i)>>
          ELSE <<Unlink(i)>>
  IN  Each(0, Len(shape), Thing)

wl_mkrandtree == {mkrandtree_sub(103, s) : s \in Shapes(RandThings)}

\* The workloads that delete: build, make an empty file so that every version
\* of the tree differs, sync, delete.
Then(build, mark, ops) == {build \o writeemptyfile(mark) \o <<Sync>> \o ops}

wl_rmfile == Then(writenewfile(150, 0, "one"), 1, <<Unlink(0)>>)
wl_rmdir == Then(<<Mkdir(0)>>, 1, <<Rmdir(0)>>)

wl_rmfiledelayed ==
  Then(writenewfile(151, 0, "one"), 1,
       <<Open(LocalF, 151, 0, "none"), Unlink(0), Close(LocalF)>>)

wl_rmfiledelayedappend ==
  Then(writenewfile(152, 0, "small"), 1,
       <<Open(LocalF, 152, 0, "none"), Unlink(0),
         Write(LocalF, sizebytes("small"), 6 * BLOCKSIZE), Close(LocalF)>>)

wl_rmdirdelayed ==
  Then(<<Mkdir(0)>>, 1, <<Opendir(LocalD, 0), Rmdir(0), Closedir(LocalD)>>)

wl_rmmanyfile == Then(ManyFiles(153, Many, "one"), Many, UnlinkMany(Many))

wl_rmmanyfiledelayed ==
  Then(ManyFiles(154, Many, "one"), Many, OpenMany(154, Many) \o UnlinkMany(Many) \o CloseMany(Many))

\* The last loop of the workload below: append to one file, close one, and
\* close a second one when that stays behind the appends.
RECURSIVE AppendOneCloseTwo(_, _)
AppendOneCloseTwo(i, j) ==
  IF j >= Many THEN <<>>
  ELSE LET app == IF i < Many THEN <<Write(i, sizebytes("small"), 6 * BLOCKSIZE)>> ELSE <<>>
           i2 == IF i < Many THEN i + 1 ELSE i
           j2 == IF j + 1 < i2 THEN j + 2 ELSE j + 1
           cl == [k \in 1..(j2 - j) |-> Close(j + k - 1)]
       IN  app \o cl \o AppendOneCloseTwo(i2, j2)

wl_rmmanyfiledelayedandappend ==
  LET App(i) == <<Write(i, sizebytes("small"), 6 * BLOCKSIZE)>>
  IN  Then(ManyFiles(155, Many, "small"), Many,
           OpenMany(155, Many) \o UnlinkMany(Many)
           \o Each(0, Many \div 2, App) \o CloseMany(Many \div 4)
           \o AppendOneCloseTwo(Many \div 2, Many \div 4))

wl_rmmanydir ==
  LET Del(i) == <<Rmdir(i)>> IN Then(ManyDirs(Many), Many, Each(0, Many, Del))

wl_rmmanydirdelayed ==
  LET Op(i) == <<Opendir(i, i)>>
      Del(i) == <<Rmdir(i)>>
      Cl(i) == <<Closedir(i)>>
  IN  Then(ManyDirs(Many), Many, Each(0, Many, Op) \o Each(0, Many, Del) \o Each(0, Many, Cl))

wl_rmtree == {wl_mktree_sub(156, 0) \o <<Sync>> \o wl_rmtree_sub(0)}

wl_rmrandtree == {mkrandtree_sub(157, s) \o <<Sync>> \o rmrandtree_sub(s) : s \in Shapes(RandThings)}

-----------------------------------------------------------------------------
(* Link and rename.                                                         *)

LinkMany == LET Ln(i) == <<Link(i, ManyLinks + i)>> IN Each(0, ManyLinks, Ln)
RenameMany == LET Mv(i) == <<Rename(i, ManyLinks + i)>> IN Each(0, ManyLinks, Mv)

wl_linkfile == {writenewfile(200, 0, "one") \o <<Sync, Link(0, 1)>>}

wl_linkmanyfile == {ManyFiles(201, ManyLinks, "one") \o <<Sync>> \o LinkMany}

wl_unlinkfile == Then(writenewfile(202, 0, "one") \o <<Link(0, 1)>>, 2, <<Unlink(1)>>)

wl_unlinkmanyfile ==
  LET Un(i) == IF i < ManyLinks \div 2 THEN <<Unlink(i)>> ELSE <<Unlink(ManyLinks + i)>>
  IN  Then(ManyFiles(203, ManyLinks, "one") \o LinkMany, ManyLinks * 2, Each(0, ManyLinks, Un))

wl_linkunlinkfile == {writenewfile(204, 0, "one") \o <<Sync, Link(0, 1), Unlink(1)>>}

wl_renamefile == Then(writenewfile(250, 0, "one"), 2, <<Rename(0, 1)>>)
wl_renamedir == Then(<<Mkdir(0)>>, 2, <<Rename(0, 1)>>)
wl_renamesubtree == Then(makesubtree(251, 0), 2, <<Rename(0, 1)>>)

\* Move thing 2 of directory 0 to directory 1, as 3.
AcrossDirs(thing) ==
  {<<Mkdir(0), Mkdir(1), Chdir(0)>> \o thing \o <<Chdirup, Sync, Renamexd(0, 2, 1, 3)>>}

wl_renamexdfile == AcrossDirs(writenewfile(252, 2, "one"))
wl_renamexddir == AcrossDirs(<<Mkdir(2)>>)
wl_renamexdsubtree == AcrossDirs(makesubtree(253, 2))

wl_renamemanyfile == Then(ManyFiles(254, ManyLinks, "one"), ManyLinks * 2, RenameMany)
wl_renamemanydir == Then(ManyDirs(ManyLinks), ManyLinks * 2, RenameMany)
wl_renamemanysubtree ==
  LET Tree(i) == makesubtree(255, i)
  IN  Then(Each(0, ManyLinks, Tree), ManyLinks * 2, RenameMany)

wl_copyandrename ==
  Then(writenewfile(300, 0, "medium"), 2, writenewfile(301, 1, "medium") \o <<Rename(1, 0)>>)

wl_untar == {makesubtree(302, 0)}

-----------------------------------------------------------------------------
(* Randomized sequences: sets of sequences, built one random choice at a    *)
(* time.                                                                    *)

Names == 0..(SeqFiles - 1)

createfiles(testcode, num, sz) == ManyFiles(testcode, num, sz)
openfiles(testcode, opennum) == OpenMany(testcode + 1, opennum)

randwrite(h) == {Write(h, pos, len) : pos \in RandPos, len \in RandLen}
randtruncate(h) == {Truncate(h, len) : len \in RandTrunc}

\* n operations on random files, writes or, with dotrunc, truncates too; a
\* file that is not open yet is created first.  opened is the set of slots
\* files[] that are open.
RECURSIVE FileOps(_, _, _, _)
FileOps(testcode, opened, n, dotrunc) ==
  IF n = 0 THEN {<<>>}
  ELSE UNION {{(IF f \in opened THEN <<>> ELSE <<Open(f, testcode + 1, f, "creat")>>) \o <<o>> \o rest :
                  o \in randwrite(f) \cup (IF dotrunc THEN randtruncate(f) ELSE {}),
                  rest \in FileOps(testcode, opened \cup {f}, n - 1, dotrunc)}
                : f \in Names}

Prepared(testcode, tails) ==
  {createfiles(testcode, SeqFiles \div 2, "medium") \o <<Sync>>
     \o openfiles(testcode, SeqFiles \div 2) \o tail : tail \in tails}

wl_writefileseq ==
  Prepared(350, FileOps(350, 0..(SeqFiles \div 2 - 1), SeqOps, FALSE))

wl_writetruncseq ==
  Prepared(352, FileOps(352, 0..(SeqFiles \div 2 - 1), SeqOps, TRUE))

RECURSIVE MkRm(_, _)
MkRm(exists, n) ==
  IF n = 0 THEN {<<>>}
  ELSE UNION {LET gone == f \in exists
                  first == IF gone THEN <<Unlink(f)>> ELSE writenewfile(354, f, "one")
                  left == IF gone THEN exists \ {f} ELSE exists \cup {f}
              IN  {first \o rest : rest \in MkRm(left, n - 1)} : f \in Names}

wl_mkrmseq == MkRm({}, SeqOps)

RECURSIVE LinkUnlink(_, _)
LinkUnlink(exists, n) ==
  IF n = 0 THEN {<<>>}
  ELSE UNION {IF f \in exists
                THEN {<<Unlink(f + SeqFiles)>> \o rest : rest \in LinkUnlink(exists \ {f}, n - 1)}
                ELSE {<<Link(g, f + SeqFiles)>> \o rest :
                         g \in Names, rest \in LinkUnlink(exists \cup {f}, n - 1)} : f \in Names}

wl_linkunlinkseq == {ManyFiles(355, SeqFiles, "one") \o <<Sync>> \o tail : tail \in LinkUnlink({}, SeqOps)}

RECURSIVE Renames(_, _)
Renames(exists, n) ==
  IF n = 0 THEN {<<>>}
  ELSE UNION {{<<Rename(p[1], p[2])>> \o rest : rest \in Renames((exists \ {p[1]}) \cup {p[2]}, n - 1)}
                : p \in exists \X (Names \ exists)}

wl_renameseq ==
  {ManyFiles(356, SeqFiles \div 3, "one") \o <<Sync>> \o tail
     : tail \in Renames(0..(SeqFiles \div 3 - 1), SeqOps)}

\* One successful call of randop: the operations it can perform, with the
\* exists[] and the open slots it leaves.  A rename moves the entry of
\* exists[] and not the slot: files[] still holds the file under its old
\* name.  Renaming a thing to itself is left out by the code.
randop(testcode, exists, opened, dofileops) ==
  LET With(prog, ex, op) == [prog |-> prog, exists |-> ex, opened |-> op]
      Is(what) == {f \in Names : exists[f] = what}
      OpenIfNot(f) == IF f \in opened THEN <<>> ELSE <<Open(f, testcode, f, "none")>>
  IN  {With(writenewfile(testcode, f, sz), [exists EXCEPT ![f] = "file"], opened) :
          f \in Is("isnt"), sz \in IF dofileops THEN randsize ELSE {"one"}}
      \cup {With(<<Mkdir(f)>>, [exists EXCEPT ![f] = "dir"], opened) : f \in Is("isnt")}
      \cup {With(<<Unlink(f)>> \o (IF f \in opened THEN <<Close(f)>> ELSE <<>>),
                 [exists EXCEPT ![f] = "isnt"], opened \ {f}) : f \in Is("file")}
      \cup {With(<<Rmdir(f)>>, [exists EXCEPT ![f] = "isnt"], opened) : f \in Is("dir")}
      \cup {With(<<Rename(p[1], p[2])>>, [exists EXCEPT ![p[2]] = exists[p[1]], ![p[1]] = "isnt"], opened) :
              p \in {q \in Names \X Names : /\ q[1] # q[2]
                                            /\ exists[q[1]] # "isnt"
                                            /\ exists[q[2]] \in {"isnt", exists[q[1]]}}}
      \cup (IF dofileops
              THEN UNION {{With(OpenIfNot(f) \o <<o>>, exists, opened \cup {f}) :
                             o \in randtruncate(f) \cup randwrite(f)} : f \in Is("file")}
              ELSE {})

RECURSIVE RandOps(_, _, _, _, _)
RandOps(testcode, exists, opened, dofileops, n) ==
  IF n = 0 THEN {<<>>}
  ELSE UNION {{r.prog \o rest : rest \in RandOps(testcode, r.exists, r.opened, dofileops, n - 1)}
                : r \in randop(testcode, exists, opened, dofileops)}

\* The files and directories made before the random operations.
prep(testcode) ==
  LET q == SeqFiles \div 4
      Dir(i) == <<Mkdir(q + i)>>
  IN  [prog |-> ManyFiles(testcode, q, "one") \o Each(0, SeqFiles \div 3, Dir),
       exists |-> [f \in Names |-> IF f < q THEN "file"
                                   ELSE IF f < q + SeqFiles \div 3 THEN "dir" ELSE "isnt"]]

wl_diropseq ==
  LET p == prep(357)
  IN  {p.prog \o <<Sync>> \o tail : tail \in RandOps(357, p.exists, {}, FALSE, SeqOps)}

wl_genseq ==
  LET p == prep(358)
  IN  {p.prog \o <<Sync>> \o tail : tail \in RandOps(358, p.exists, {}, TRUE, SeqOps)}

-----------------------------------------------------------------------------
(* The table of workloads.                                                  *)

SizeWorkloads == {"createwrite", "rewrite", "randupdate", "truncwrite", "makehole", "fillhole",
  "truncfill", "append", "trunczero", "trunconeblock", "truncsmallersize", "trunclargersize",
  "appendandtrunczero", "appendandtruncpartly"}

BySize(w, sz) ==
  CASE w = "createwrite" -> wl_createwrite(sz)
    [] w = "rewrite" -> wl_rewrite(sz)
    [] w = "randupdate" -> wl_randupdate(sz)
    [] w = "truncwrite" -> wl_truncwrite(sz)
    [] w = "makehole" -> wl_makehole(sz)
    [] w = "fillhole" -> wl_fillhole(sz)
    [] w = "truncfill" -> wl_truncfill(sz)
    [] w = "append" -> wl_append(sz)
    [] w = "trunczero" -> wl_trunczero(sz)
    [] w = "trunconeblock" -> wl_trunconeblock(sz)
    [] w = "truncsmallersize" -> wl_truncsmallersize(sz)
    [] w = "trunclargersize" -> wl_trunclargersize(sz)
    [] w = "appendandtrunczero" -> wl_appendandtrunczero(sz)
    [] w = "appendandtruncpartly" -> wl_appendandtruncpartly(sz)

Canned ==
  wl_mkfile \cup wl_mkdir \cup wl_mkmanyfile \cup wl_mkmanydir \cup wl_mktree
  \cup wl_rmfile \cup wl_rmdir \cup wl_rmfiledelayed \cup wl_rmfiledelayedappend
  \cup wl_rmdirdelayed \cup wl_rmmanyfile \cup wl_rmmanyfiledelayed
  \cup wl_rmmanyfiledelayedandappend \cup wl_rmmanydir \cup wl_rmmanydirdelayed \cup wl_rmtree
  \cup wl_linkfile \cup wl_linkmanyfile \cup wl_unlinkfile \cup wl_unlinkmanyfile
  \cup wl_linkunlinkfile \cup wl_renamefile \cup wl_renamedir \cup wl_renamesubtree
  \cup wl_renamexdfile \cup wl_renamexddir \cup wl_renamexdsubtree \cup wl_renamemanyfile
  \cup wl_renamemanydir \cup wl_renamemanysubtree \cup wl_copyandrename \cup wl_untar

BySeed ==
  wl_mkrandtree \cup wl_rmrandtree \cup wl_writefileseq \cup wl_writetruncseq \cup wl_mkrmseq
  \cup wl_linkunlinkseq \cup wl_renameseq \cup wl_diropseq \cup wl_genseq

workloads == UNION {BySize(w, sz) : w \in SizeWorkloads, sz \in strtosize} \cup Canned \cup BySeed
=============================================================================
