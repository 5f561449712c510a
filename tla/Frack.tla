-------------------------------- MODULE Frack --------------------------------
(***************************************************************************)
(* testbin/frack: a workload is run on a volume until the machine crashes; *)
(* the check pass replays the workload into a log of changes, looks for    *)
(* the version of that log that the volume shows, and compares the data of *)
(* the files with it.                                                      *)
(*                                                                         *)
(* The replay never looks at the volume, so here it goes first; then the   *)
(* workload runs on the volume, which is an external file system that      *)
(* performs every operation atomically; Crash stops it between any two     *)
(* operations, possibly with damage to the data of one file.               *)
(***************************************************************************)
EXTENDS FrackWorkloads, TLC

CONSTANT DATA_MAXSIZE     \* units of the largest single write

VARIABLES
  work,       \* the workload: its sequence of operations
  pass,       \* "replay", "do", "crashed", "done"
  opno,       \* the next operation
  wrote,      \* units of the current op_write already done
  slots,      \* the open struct files: slot -> handle, code, seq
  model,      \* what the replay builds: log of changes, current state, cwd
  vol,        \* the volume
  crash,      \* the version the volume stopped at and the damage done to it
  verdict     \* what checkfs says

fvars == <<work, pass, opno, wrote, slots, model, vol, crash, verdict>>

Put(f, k, v) == (k :> v) @@ f
Del(f, k) == [x \in DOMAIN f \ {k} |-> f[x]]

-----------------------------------------------------------------------------
(* The state of a volume as the model keeps it: directory entries, and for  *)
(* every object its reference count and its length or parent.  dead is set  *)
(* by die() and by a failed assertion, which end the program.               *)

File(id) == <<"file", id>>
Dir(id) == <<"dir", id>>
isdir(obj) == obj[1] = "dir"

die(s) == [s EXCEPT !.dead = TRUE]
Asserting(cond, s) == IF cond THEN s ELSE die(s)

fsobject_create_file(s, id) == [s EXCEPT !.len = Put(@, id, 0), !.ref = Put(@, File(id), 1)]
fsobject_create_dir(s, id, parent) ==
  [s EXCEPT !.parent = Put(@, id, parent), !.ref = Put(@, Dir(id), 1)]

fsobject_incref(s, obj) == [s EXCEPT !.ref[obj] = @ + 1]

fsobject_decref(s, obj) ==
  IF s.ref[obj] > 1 THEN [s EXCEPT !.ref[obj] = @ - 1]
  ELSE IF isdir(obj)
    THEN Asserting(\A e \in DOMAIN s.ent : e[1] # obj[2],
                   [s EXCEPT !.ref = Del(@, obj), !.parent = Del(@, obj[2])])
    ELSE [s EXCEPT !.ref = Del(@, obj), !.len = Del(@, obj[2])]

fsdir_add_entry(s, d, name, obj) ==
  IF <<d, name>> \in DOMAIN s.ent THEN die(s) ELSE [s EXCEPT !.ent = Put(@, <<d, name>>, obj)]

fsdir_remove_entry(s, d, name) ==
  IF <<d, name>> \in DOMAIN s.ent THEN [s EXCEPT !.ent = Del(@, <<d, name>>)] ELSE die(s)

\* The search from the root finds an object when the state still holds it.
findsub(s, obj) == obj \in DOMAIN s.ref
findfile_maybe(s, id) == findsub(s, File(id))
finddir(s, id) == findsub(s, Dir(id))

-----------------------------------------------------------------------------
(* Change records and their application to a state.                         *)

fc_create_newfs(root) == [type |-> "FC_NEWFS", root |-> root]
fc_create_truncate(prev, file, len) ==
  [type |-> "FC_TRUNCATE", prev |-> prev, file |-> file, len |-> len]
fc_create_write(prev, file, pos, len, oldfilesize, code, seq) ==
  [type |-> "FC_WRITE", prev |-> prev, file |-> file, pos |-> pos, len |-> len,
   oldfilesize |-> oldfilesize, code |-> code, seq |-> seq]
fc_create_creat(dir, name, file) == [type |-> "FC_CREAT", dir |-> dir, name |-> name, file |-> file]
fc_create_mkdir(dir, name, newdir) ==
  [type |-> "FC_MKDIR", dir |-> dir, name |-> name, newdir |-> newdir]
fc_create_rmdir(dir, name, victim) ==
  [type |-> "FC_RMDIR", dir |-> dir, name |-> name, victim |-> victim]
fc_create_unlink(prev, dir, name, file) ==
  [type |-> "FC_UNLINK", prev |-> prev, dir |-> dir, name |-> name, file |-> file]
fc_create_link(prev, fromdir, fromname, todir, toname, file) ==
  [type |-> "FC_LINK", prev |-> prev, fromdir |-> fromdir, fromname |-> fromname,
   todir |-> todir, toname |-> toname, file |-> file]
fc_create_renamefile(prev, fromdir, fromname, todir, toname, file) ==
  [type |-> "FC_RENAMEFILE", prev |-> prev, fromdir |-> fromdir, fromname |-> fromname,
   todir |-> todir, toname |-> toname, file |-> file]
fc_create_renamedir(fromdir, fromname, todir, toname, moved) ==
  [type |-> "FC_RENAMEDIR", fromdir |-> fromdir, fromname |-> fromname,
   todir |-> todir, toname |-> toname, moved |-> moved]

apply_newfs(s, c) == Asserting(DOMAIN s.ent = {} /\ s.ref = (Dir(c.root) :> 1), s)

\* A file that is no longer linked is not part of the state.
apply_truncate(s, c) ==
  IF findfile_maybe(s, c.file) THEN [s EXCEPT !.len[c.file] = c.len] ELSE s

apply_write(s, c) ==
  IF findfile_maybe(s, c.file) /\ s.len[c.file] < c.pos + c.len
    THEN [s EXCEPT !.len[c.file] = c.pos + c.len] ELSE s

apply_creat(s, c) ==
  IF ~finddir(s, c.dir) THEN die(s)
  ELSE fsdir_add_entry(fsobject_create_file(s, c.file), c.dir, c.name, File(c.file))

apply_mkdir(s, c) ==
  IF ~finddir(s, c.dir) THEN die(s)
  ELSE fsdir_add_entry(fsobject_create_dir(s, c.newdir, c.dir), c.dir, c.name, Dir(c.newdir))

apply_rmdir(s, c) ==
  LET s1 == fsdir_remove_entry(s, c.dir, c.name)
  IN  IF ~finddir(s, c.dir) \/ s1.dead THEN die(s)
      ELSE Asserting(/\ s.ent[<<c.dir, c.name>>] = Dir(c.victim)
                     /\ \A e \in DOMAIN s.ent : e[1] # c.victim
                     /\ s.parent[c.victim] = c.dir,
                     fsobject_decref(s1, Dir(c.victim)))

apply_unlink(s, c) ==
  LET s1 == fsdir_remove_entry(s, c.dir, c.name)
  IN  IF ~finddir(s, c.dir) \/ s1.dead THEN die(s)
      ELSE Asserting(s.ent[<<c.dir, c.name>>] = File(c.file), fsobject_decref(s1, File(c.file)))

apply_link(s, c) ==
  IF \/ ~finddir(s, c.fromdir) \/ ~finddir(s, c.todir)
     \/ <<c.fromdir, c.fromname>> \notin DOMAIN s.ent THEN die(s)
  ELSE Asserting(s.ent[<<c.fromdir, c.fromname>>] = File(c.file),
                 fsdir_add_entry(fsobject_incref(s, File(c.file)), c.todir, c.toname, File(c.file)))

apply_renamefile(s, c) ==
  LET s1 == fsdir_remove_entry(s, c.fromdir, c.fromname)
  IN  IF ~finddir(s, c.fromdir) \/ ~finddir(s, c.todir) \/ s1.dead THEN die(s)
      ELSE Asserting(s.ent[<<c.fromdir, c.fromname>>] = File(c.file),
                     fsdir_add_entry(s1, c.todir, c.toname, File(c.file)))

\* Mutant: the moved directory keeps its old parent.
apply_renamedir_oldparent(s, c) ==
  LET s1 == fsdir_remove_entry(s, c.fromdir, c.fromname)
  IN  IF ~finddir(s, c.fromdir) \/ ~finddir(s, c.todir) \/ s1.dead THEN die(s)
      ELSE Asserting(s.ent[<<c.fromdir, c.fromname>>] = Dir(c.moved),
                     fsdir_add_entry(s1, c.todir, c.toname, Dir(c.moved)))

apply_renamedir(s, c) ==
  LET s1 == fsdir_remove_entry(s, c.fromdir, c.fromname)
  IN  IF ~finddir(s, c.fromdir) \/ ~finddir(s, c.todir) \/ s1.dead THEN die(s)
      ELSE Asserting(/\ s.ent[<<c.fromdir, c.fromname>>] = Dir(c.moved)
                     /\ s.parent[c.moved] = c.fromdir,
                     fsdir_add_entry([s1 EXCEPT !.parent[c.moved] = c.todir],
                                     c.todir, c.toname, Dir(c.moved)))

apply_change(s, c) ==
  IF s.dead THEN s
  ELSE CASE c.type = "FC_NEWFS" -> apply_newfs(s, c)
         [] c.type = "FC_TRUNCATE" -> apply_truncate(s, c)
         [] c.type = "FC_WRITE" -> apply_write(s, c)
         [] c.type = "FC_CREAT" -> apply_creat(s, c)
         [] c.type = "FC_MKDIR" -> apply_mkdir(s, c)
         [] c.type = "FC_RMDIR" -> apply_rmdir(s, c)
         [] c.type = "FC_UNLINK" -> apply_unlink(s, c)
         [] c.type = "FC_LINK" -> apply_link(s, c)
         [] c.type = "FC_RENAMEFILE" -> apply_renamefile(s, c)
         [] c.type = "FC_RENAMEDIR" -> apply_renamedir(s, c)

-----------------------------------------------------------------------------
(* Model construction: the replay of the workload.  m is the model: the log *)
(* changes (version v is changes[v + 1]), the versions that are part of an  *)
(* operation, the current state, the current directory and the next ids.    *)

rewindstate(root) ==
  fsobject_create_dir([ent |-> <<>>, ref |-> <<>>, len |-> <<>>, parent |-> <<>>, dead |-> FALSE],
                      root, root)

check_setup ==
  LET c == fc_create_newfs(0)
  IN  [changes |-> <<c>>, partial |-> {}, state |-> apply_change(rewindstate(0), c),
       cwd |-> 0, nextfilenum |-> 0, nextdirnum |-> 1]

fc_attach(m, c) ==
  [m EXCEPT !.changes = Append(@, c), !.state = apply_change(@, c)]

Broken(m) == [m EXCEPT !.state = die(@)]

\* The last record that mentions a file; 0 when there is none.
changes_findprevfile(m, id) ==
  LET mention == {v \in 1..Len(m.changes) :
                    /\ m.changes[v].type \in {"FC_TRUNCATE", "FC_WRITE", "FC_CREAT", "FC_UNLINK",
                                              "FC_LINK", "FC_RENAMEFILE"}
                    /\ m.changes[v].file = id}
  IN  IF mention = {} THEN 0 ELSE Max(mention)

\* The directories a record mentions; the checker never looks at a directory
\* that no record mentions.
MentionedDirs(c) ==
  CASE c.type = "FC_NEWFS" -> {c.root}
    [] c.type \in {"FC_TRUNCATE", "FC_WRITE"} -> {}
    [] c.type \in {"FC_CREAT", "FC_UNLINK"} -> {c.dir}
    [] c.type = "FC_MKDIR" -> {c.dir, c.newdir}
    [] c.type = "FC_RMDIR" -> {c.dir, c.victim}
    [] c.type \in {"FC_LINK", "FC_RENAMEFILE"} -> {c.fromdir, c.todir}
    [] c.type = "FC_RENAMEDIR" -> {c.fromdir, c.todir, c.moved}

changes_findprevdir(m, id) == \E v \in 1..Len(m.changes) : id \in MentionedDirs(m.changes[v])

Entry(m, d, name) ==
  IF <<d, name>> \in DOMAIN m.state.ent THEN m.state.ent[<<d, name>>] ELSE <<"none">>
model_isfile(m, d, name) == Entry(m, d, name)[1] = "file"
model_isdir(m, d, name) == Entry(m, d, name)[1] = "dir"
model_findfile(m, d, name) == Entry(m, d, name)[2]
model_finddir(m, d, name) == Entry(m, d, name)[2]
model_findparent(m, d) == m.state.parent[d]
model_getfilesize(m, id) == IF findfile_maybe(m.state, id) THEN m.state.len[id] ELSE 0

check_createfile(m, name) ==
  IF ~changes_findprevdir(m, m.cwd) THEN Broken(m)
  ELSE fc_attach([m EXCEPT !.nextfilenum = @ + 1], fc_create_creat(m.cwd, name, m.nextfilenum))

\* The id of the file of that name in the current directory.
check_openfile(m, name) == model_findfile(m, m.cwd, name)

check_write(m, id, code, seq, pos, len) ==
  IF changes_findprevfile(m, id) = 0 THEN Broken(m)
  ELSE fc_attach(m, fc_create_write(changes_findprevfile(m, id), id, pos, len,
                                    model_getfilesize(m, id), code, seq))

check_truncate(m, id, len) ==
  IF changes_findprevfile(m, id) = 0 THEN Broken(m)
  ELSE fc_attach(m, fc_create_truncate(changes_findprevfile(m, id), id, len))

check_mkdir(m, name) ==
  IF ~changes_findprevdir(m, m.cwd) THEN Broken(m)
  ELSE fc_attach([m EXCEPT !.nextdirnum = @ + 1], fc_create_mkdir(m.cwd, name, m.nextdirnum))

\* rmdir, unlink and the removal of the target of a rename, in directory d.
RemoveDir(m, d, name) ==
  IF ~model_isdir(m, d, name) \/ ~changes_findprevdir(m, d) THEN Broken(m)
  ELSE fc_attach(m, fc_create_rmdir(d, name, model_finddir(m, d, name)))
RemoveFile(m, d, name) ==
  IF ~model_isfile(m, d, name) \/ ~changes_findprevdir(m, d) THEN Broken(m)
  ELSE LET id == model_findfile(m, d, name)
       IN  fc_attach(m, fc_create_unlink(changes_findprevfile(m, id), d, name, id))

check_rmdir(m, name) == RemoveDir(m, m.cwd, name)
check_unlink(m, name) == RemoveFile(m, m.cwd, name)

check_link(m, from, to) ==
  IF ~model_isfile(m, m.cwd, from) THEN Broken(m)
  ELSE LET id == model_findfile(m, m.cwd, from)
       IN  fc_attach(m, fc_create_link(changes_findprevfile(m, id), m.cwd, from, m.cwd, to, id))

\* Mutant: the target of a rename is not removed.
common_rename_keep(m, fromdir, from, todir, to) ==
  LET id == Entry(m, fromdir, from)[2]
  IN  IF model_isfile(m, fromdir, from)
        THEN fc_attach(m, fc_create_renamefile(changes_findprevfile(m, id), fromdir, from, todir, to, id))
        ELSE fc_attach(m, fc_create_renamedir(fromdir, from, todir, to, id))

\* Renaming over something is two versions: the target goes first, in a
\* version marked as part of an operation.
common_rename(m, fromdir, from, todir, to) ==
  LET Mark(n) == [n EXCEPT !.partial = @ \cup {Len(n.changes)}]
      m1 == CASE model_isfile(m, todir, to) ->
                   IF model_isfile(m, fromdir, from) THEN Mark(RemoveFile(m, todir, to)) ELSE Broken(m)
              [] model_isdir(m, todir, to) ->
                   IF model_isdir(m, fromdir, from) THEN Mark(RemoveDir(m, todir, to)) ELSE Broken(m)
              [] OTHER -> m
      id == Entry(m1, fromdir, from)[2]
  IN  CASE m1.state.dead -> m1
        [] model_isfile(m1, fromdir, from) ->
             fc_attach(m1, fc_create_renamefile(changes_findprevfile(m1, id), fromdir, from, todir, to, id))
        [] model_isdir(m1, fromdir, from) ->
             fc_attach(m1, fc_create_renamedir(fromdir, from, todir, to, id))
        [] OTHER -> Broken(m1)

check_rename(m, from, to) == common_rename(m, m.cwd, from, m.cwd, to)

check_renamexd(m, fromdir, from, todir, to) ==
  IF ~model_isdir(m, m.cwd, fromdir) \/ ~model_isdir(m, m.cwd, todir) THEN Broken(m)
  ELSE common_rename(m, model_finddir(m, m.cwd, fromdir), from, model_finddir(m, m.cwd, todir), to)

check_chdir(m, name) ==
  IF model_isdir(m, m.cwd, name) THEN [m EXCEPT !.cwd = model_finddir(m, m.cwd, name)] ELSE Broken(m)

check_chdirup(m) == [m EXCEPT !.cwd = model_findparent(m, m.cwd)]

-----------------------------------------------------------------------------
(* The volume: what the file system under test shows.  A file's data is a   *)
(* function from its units to what they hold.  fresh is the set of units    *)
(* that the file was extended by since the last sync and that nothing has   *)
(* overwritten: after a crash they may read as zeros.                       *)

\* A unit of the data of a write: a copy of the text made of its keys.
prepdata(code, seq) == <<code, seq>>
Zero == <<-1, 0>>
Poison == <<-2, 0>>
Trash == <<-3, 0>>

NewVolume ==
  [ent |-> <<>>, kind |-> (1 :> "dir"), parent |-> (1 :> 1), data |-> <<>>,
   cwd |-> 1, next |-> 2, fresh |-> {}, open |-> <<>>, failed |-> FALSE]

Fails(v) == [v EXCEPT !.failed = TRUE]
VEntry(v, d, name) == IF <<d, name>> \in DOMAIN v.ent THEN v.ent[<<d, name>>] ELSE 0
VIsDir(v, d, name) == VEntry(v, d, name) # 0 /\ v.kind[VEntry(v, d, name)] = "dir"
VIsFile(v, d, name) == VEntry(v, d, name) # 0 /\ v.kind[VEntry(v, d, name)] = "file"
FileLen(v, i) == Cardinality(DOMAIN v.data[i])
EmptyDir(v, i) == \A e \in DOMAIN v.ent : e[1] # i

do_createfile(v, h, name) ==
  IF VEntry(v, v.cwd, name) # 0 THEN Fails(v)
  ELSE [v EXCEPT !.ent = Put(@, <<v.cwd, name>>, v.next), !.kind = Put(@, v.next, "file"),
                 !.data = Put(@, v.next, <<>>), !.open = Put(@, h, v.next), !.next = @ + 1]

do_truncate(v, i, len) ==
  LET keep(u) == IF u < FileLen(v, i) THEN v.data[i][u] ELSE Zero
  IN  [v EXCEPT !.data[i] = [u \in 0..(len - 1) |-> keep(u)],
                !.fresh = {f \in @ : f[1] # i \/ f[2] < len}]

do_openfile(v, h, name, dotrunc) ==
  IF ~VIsFile(v, v.cwd, name) THEN Fails(v)
  ELSE LET v1 == [v EXCEPT !.open = Put(@, h, VEntry(v, v.cwd, name))]
       IN  IF dotrunc THEN do_truncate(v1, VEntry(v, v.cwd, name), 0) ELSE v1

do_write(v, i, code, seq, pos, len) ==
  LET old == FileLen(v, i)
      new == IF pos + len > old THEN pos + len ELSE old
  IN  [v EXCEPT
        !.data[i] = [u \in 0..(new - 1) |-> IF u >= pos /\ u < pos + len THEN prepdata(code, seq)
                                            ELSE IF u < old THEN v.data[i][u] ELSE Zero],
        !.fresh = {f \in @ : f[1] # i \/ f[2] < pos \/ f[2] >= pos + len}
                  \cup {<<i, u>> : u \in {w \in pos..(pos + len - 1) : w >= old}}]

do_mkdir(v, name) ==
  IF VEntry(v, v.cwd, name) # 0 THEN Fails(v)
  ELSE [v EXCEPT !.ent = Put(@, <<v.cwd, name>>, v.next), !.kind = Put(@, v.next, "dir"),
                 !.parent = Put(@, v.next, v.cwd), !.next = @ + 1]

do_rmdir(v, name) ==
  IF ~VIsDir(v, v.cwd, name) \/ ~EmptyDir(v, VEntry(v, v.cwd, name)) THEN Fails(v)
  ELSE [v EXCEPT !.ent = Del(@, <<v.cwd, name>>)]

do_unlink(v, name) ==
  IF ~VIsFile(v, v.cwd, name) THEN Fails(v) ELSE [v EXCEPT !.ent = Del(@, <<v.cwd, name>>)]

do_link(v, from, to) ==
  IF ~VIsFile(v, v.cwd, from) \/ VEntry(v, v.cwd, to) # 0 THEN Fails(v)
  ELSE [v EXCEPT !.ent = Put(@, <<v.cwd, to>>, VEntry(v, v.cwd, from))]

VRename(v, d, from, e, to) ==
  LET i == VEntry(v, d, from)
      j == VEntry(v, e, to)
      fits == j # 0 => v.kind[i] = v.kind[j] /\ (v.kind[j] = "dir" => EmptyDir(v, j))
  IN  IF i = 0 \/ ~fits THEN Fails(v)
      ELSE [v EXCEPT !.ent = Put(Del(@, <<d, from>>), <<e, to>>, i),
                     !.parent = IF v.kind[i] = "dir" THEN Put(@, i, e) ELSE @]

do_rename(v, from, to) == VRename(v, v.cwd, from, v.cwd, to)
do_renamexd(v, fromdir, from, todir, to) ==
  IF ~VIsDir(v, v.cwd, fromdir) \/ ~VIsDir(v, v.cwd, todir) THEN Fails(v)
  ELSE VRename(v, VEntry(v, v.cwd, fromdir), from, VEntry(v, v.cwd, todir), to)

do_chdir(v, name) == IF VIsDir(v, v.cwd, name) THEN [v EXCEPT !.cwd = VEntry(v, v.cwd, name)] ELSE Fails(v)
do_chdirup(v) == [v EXCEPT !.cwd = v.parent[v.cwd]]
do_sync(v) == [v EXCEPT !.fresh = {}]

-----------------------------------------------------------------------------
(* Comparison of the state of a version with the tree found on the volume.  *)

\* inspectdir: the entries of a directory and whether its .. leads back.
VNames(v, d) == {e[2] : e \in {x \in DOMAIN v.ent : x[1] = d}}
MNames(s, d) == {e[2] : e \in {x \in DOMAIN s.ent : x[1] = d}}

RECURSIVE inspectdir(_, _, _)
inspectdir(v, d, parent) ==
  /\ v.parent[d] = parent
  /\ \A n \in VNames(v, d) : VIsDir(v, d, n) => inspectdir(v, VEntry(v, d, n), d)

inspectfs(v) == inspectdir(v, 1, 1)

RECURSIVE CountFound(_, _)
CountFound(v, i) ==
  1 + (IF v.kind[i] = "dir" THEN MapThenSumSet(LAMBDA n : CountFound(v, VEntry(v, i, n)), VNames(v, i)) ELSE 0)

RECURSIVE count_subtree(_, _)
count_subtree(s, obj) ==
  1 + (IF isdir(obj)
         THEN MapThenSumSet(LAMBDA n : count_subtree(s, s.ent[<<obj[2], n>>]), MNames(s, obj[2])) ELSE 0)

\* One point for a file of another size, for every name on one side only.
RECURSIVE compare_objects(_, _, _, _)
compare_objects(s, obj, v, i) ==
  CASE isdir(obj) # (v.kind[i] = "dir") ->
         IF isdir(obj) THEN count_subtree(s, obj) ELSE CountFound(v, i)
    [] ~isdir(obj) -> IF s.len[obj[2]] # FileLen(v, i) THEN 1 ELSE 0
    [] OTHER ->
         LET d == obj[2]
             Missing(n) == 1 + (IF isdir(s.ent[<<d, n>>]) THEN count_subtree(s, s.ent[<<d, n>>]) ELSE 0)
             Extra(n) == 1 + (IF VIsDir(v, i, n) THEN CountFound(v, VEntry(v, i, n)) ELSE 0)
             Entries(mine, theirs) ==
               MapThenSumSet(LAMBDA n : compare_objects(s, s.ent[<<d, n>>], v, VEntry(v, i, n)), mine \cap theirs)
               + MapThenSumSet(Missing, mine \ theirs) + MapThenSumSet(Extra, theirs \ mine)
         IN  Entries(MNames(s, d), VNames(v, i))

\* The states of all versions, the first one first.
StatesOf(changes) ==
  FoldLeft(LAMBDA states, c : Append(states, apply_change(Last(states), c)),
           <<apply_change(rewindstate(changes[1].root), changes[1])>>, Tail(changes))

-----------------------------------------------------------------------------
(* Comparison of file contents.  What is printed as an error is a string in *)
(* the result.                                                              *)

findokversion(changes, k) ==
  Max({j \in 1..k : changes[j].type \notin {"FC_TRUNCATE", "FC_WRITE"}})

\* The last version up to k that made, wrote or truncated the file.
backup_for_file(changes, k, id) ==
  LET hits == {j \in 1..k : /\ changes[j].type \in {"FC_TRUNCATE", "FC_WRITE", "FC_CREAT"}
                            /\ changes[j].file = id}
  IN  IF hits = {} THEN 0 ELSE Max(hits)

\* data is what the file holds.
checkfilezeros(data, start, end) ==
  LET units == start..(end - 1)
  IN  IF ~(units \subseteq DOMAIN data) THEN {"eof"}
      ELSE (IF \E u \in units : data[u] = Poison THEN {"poison"} ELSE {})
           \cup (IF \E u \in units : data[u] \notin {Poison, Zero} THEN {"trash"} ELSE {})

\* Mutant: zeros are never as good as the data.
zerostart_end(c) == c.len

\* Offset in a write where zeros are as good as the data: where it began to
\* extend the file.
zerostart(c) ==
  CASE c.oldfilesize < c.pos -> 0
    [] c.oldfilesize >= c.pos /\ c.oldfilesize < c.pos + c.len -> c.oldfilesize - c.pos
    [] OTHER -> c.len

\* The data of the write c, in its units start..end-1 (offsets in the write).
\* A piece ends at a block boundary and at zerostart.
data_matches(data, c, start, end) ==
  LET cuts == {start} \cup {p \in (start + 1)..(end - 1) :
                              (c.pos + p) % BLOCKSIZE = 0 \/ p = zerostart(c)}
      Piece(p) == p..(Min({q \in cuts : q > p} \cup {end}) - 1)
      All(p, x) == \A u \in Piece(p) : data[c.pos + u] = x
      ok(p) == \/ All(p, prepdata(c.code, c.seq))
               \/ (All(p, Zero) \/ All(p, Poison)) /\ p >= zerostart(c)
      poisoned(p) == All(p, Poison) /\ p >= zerostart(c)
  IN  [matches |-> \A p \in cuts : ok(p),
       errors |-> IF \E p \in cuts : poisoned(p) THEN {"poison"} ELSE {}]

readfiledata(data, start, end) == start..(end - 1) \subseteq DOMAIN data

\* The range start..end-1 of a file that lies in the write c.
checkfiledata(data, c, start, end) ==
  LET s == IF start < c.pos THEN c.pos ELSE start
      e == IF end > c.pos + c.len THEN c.pos + c.len ELSE end
  IN  IF ~readfiledata(data, s, e) THEN {"eof"}
      ELSE LET r == data_matches(data, c, s - c.pos, e - c.pos)
           IN  r.errors \cup (IF r.matches THEN {} ELSE {"garbage"})

RECURSIVE checkfilerange(_, _, _, _, _)
\* Mutant: what lies behind the last write is not checked.
checkfilerange_nocase5(changes, data, k, start, end) ==
  LET c == changes[k]
      Before(a, b) == checkfilerange(changes, data, c.prev, a, b)
  IN  CASE c.type = "FC_WRITE" ->
             IF end <= c.pos \/ start >= c.pos + c.len THEN Before(start, end)
             ELSE (IF start < c.pos THEN Before(start, c.pos) ELSE {})
                  \cup checkfiledata(data, c, start, end)
        [] c.type \in {"FC_RENAMEFILE", "FC_TRUNCATE"} -> Before(start, end)
        [] OTHER -> checkfilezeros(data, start, end)

checkfilerange(changes, data, k, start, end) ==
  LET c == changes[k]
      Before(a, b) == checkfilerange(changes, data, c.prev, a, b)
  IN  CASE c.type = "FC_TRUNCATE" ->
             IF c.len < start THEN checkfilezeros(data, start, end)
             ELSE IF c.len < end
               THEN (IF start < c.len THEN Before(start, c.len) ELSE {"assert"})
                    \cup checkfilezeros(data, c.len, end)
             ELSE Before(start, end)
        [] c.type = "FC_WRITE" ->
             LET wstart == c.pos
                 wend == c.pos + c.len
             IN  IF end <= wstart \/ start >= wend THEN Before(start, end)
                 ELSE (IF start < wstart THEN Before(start, wstart) ELSE {})
                      \cup checkfiledata(data, c, start, end)
                      \cup (IF end > wend THEN Before(wend, end) ELSE {})
        [] c.type = "FC_RENAMEFILE" -> Before(start, end)
        [] c.type = "FC_CREAT" -> checkfilezeros(data, start, end)
        [] OTHER -> {"assert"}

\* Whether the change is there; the errors are those of reading it.
change_is_present(data, filesize, c) ==
  CASE c.type = "FC_TRUNCATE" -> [matches |-> filesize = c.len, errors |-> {}]
    [] c.type = "FC_CREAT" -> [matches |-> TRUE, errors |-> {}]
    [] c.type = "FC_WRITE" ->
         IF readfiledata(data, c.pos, c.pos + c.len) THEN data_matches(data, c, 0, c.len)
         ELSE [matches |-> TRUE, errors |-> {"eof"}]

\* Back up until a change is present, then check the file against it.
RECURSIVE MatchFrom(_, _, _, _, _)
MatchFrom(changes, data, filesize, k, okversion) ==
  LET c == changes[k]
      r == change_is_present(data, filesize, c)
      back == backup_for_file(changes, k - 1, c.file)
  IN  r.errors \cup
      (IF "eof" \in r.errors THEN {}
       ELSE IF r.matches THEN checkfilerange(changes, data, k, 0, filesize)
       ELSE (IF k < okversion THEN {"missing"} ELSE {})
            \cup (IF back = 0 THEN {"unmatched"} ELSE MatchFrom(changes, data, filesize, back, okversion)))

checkonefilecontents(changes, data, id, filesize, best) ==
  LET k == backup_for_file(changes, best, id)
  IN  IF k = 0 THEN {"never created"}
      ELSE IF filesize = 0
        THEN CASE changes[k].type = "FC_CREAT" -> {}
               [] changes[k].type = "FC_TRUNCATE" -> IF changes[k].len = 0 THEN {} ELSE {"assert"}
               [] OTHER -> {"empty"}
      ELSE IF changes[k].type = "FC_CREAT" THEN {"never written"}
      ELSE MatchFrom(changes, data, filesize, k, findokversion(changes, best))

RECURSIVE checkallfilecontents(_, _, _, _, _, _)
checkallfilecontents(changes, s, d, v, i, best) ==
  UNION {LET obj == s.ent[<<d, n>>]
             j == VEntry(v, i, n)
         IN  IF isdir(obj) THEN checkallfilecontents(changes, s, obj[2], v, j, best)
             ELSE checkonefilecontents(changes, v.data[j], obj[2], s.len[obj[2]], best)
           : n \in MNames(s, d)}

\* Which version the volume shows, and the errors reported.  Of versions
\* with the same score the latest is taken.
CheckVolume(m, v) ==
  LET Report(states, best) ==
        [best |-> best[2], score |-> best[1], partial |-> best[2] \in m.partial,
         errors |-> IF ~inspectfs(v) THEN {"dotdot"}
                    ELSE IF best[1] > 0 THEN {"tree"}
                    ELSE checkallfilecontents(m.changes, states[best[2]], 0, v, 1, best[2])]
      Choose(states, scored) ==
        Report(states, CHOOSE p \in scored : \A q \in scored : p[1] < q[1] \/ (p[1] = q[1] /\ p[2] >= q[2]))
      Score(states) ==
        Choose(states, {<<compare_objects(states[k], Dir(0), v, 1), k>> : k \in 1..Len(states)})
  IN  Score(StatesOf(m.changes))

-----------------------------------------------------------------------------
(* The program.  op is the operation at opno; the passes call the check_    *)
(* and the do_ side of the same op_ function.                               *)

MAXFILES == 32

FrackStart(w) ==
  /\ work = w
  /\ pass = "replay"
  /\ opno = 1
  /\ wrote = 0
  /\ slots = <<>>
  /\ model = check_setup
  /\ vol = NewVolume
  /\ crash = [at |-> 0, damage |-> "none"]
  /\ verdict = [best |-> 0, score |-> 0, partial |-> FALSE, errors |-> {}]

FrackInit == \E w \in workloads : FrackStart(w)

AtOp(kinds) == opno <= Len(work) /\ work[opno].op \in kinds

\* Called with the whole operation done.
Advance == opno' = opno + 1 /\ wrote' = 0 /\ UNCHANGED <<work, pass, crash, verdict>>

Alive == pass = "replay" /\ ~model.state.dead
Running == pass = "do" /\ ~vol.failed

\* A struct file from the pool of MAXFILES.
TakeSlot(h, handle, code) ==
  slots' = Put(slots, h, [handle |-> handle, code |-> code, seq |-> 0])
PoolLeft == Cardinality(DOMAIN slots) < MAXFILES

op_open ==
  /\ AtOp({"open"}) /\ PoolLeft
  /\ LET o == work[opno]
         m1 == IF o.flags = "creat" THEN check_createfile(model, o.name) ELSE model
         id == IF o.flags = "creat" THEN model.nextfilenum ELSE check_openfile(model, o.name)
     IN  \/ /\ Alive
            /\ IF o.flags # "creat" /\ ~model_isfile(model, model.cwd, o.name)
                 THEN model' = Broken(model) /\ UNCHANGED slots
                 ELSE /\ TakeSlot(o.h, id, o.code)
                      /\ model' = IF o.flags = "trunc" THEN check_truncate(m1, id, 0) ELSE m1
            /\ UNCHANGED vol
         \/ /\ Running
            /\ vol' = IF o.flags = "creat" THEN do_createfile(vol, o.h, o.name)
                      ELSE do_openfile(vol, o.h, o.name, o.flags = "trunc")
            /\ TakeSlot(o.h, 0, o.code)
            /\ UNCHANGED model
  /\ Advance

op_close ==
  /\ AtOp({"close", "closedir"}) /\ (Alive \/ Running)
  /\ slots' = Del(slots, work[opno].h)
  /\ UNCHANGED <<model, vol>>
  /\ Advance

op_opendir ==
  /\ AtOp({"opendir"}) /\ PoolLeft
  /\ TakeSlot(work[opno].h, 0, 0)
  /\ \/ Alive /\ UNCHANGED vol
     \/ Running /\ vol' = IF VIsDir(vol, vol.cwd, work[opno].name) THEN vol ELSE Fails(vol)
  /\ UNCHANGED model
  /\ Advance

\* One turn of the loop of op_write: at most DATA_MAXSIZE at a time.
op_write ==
  /\ AtOp({"write"})
  /\ LET o == work[opno]
         f == slots[o.h]
         amount == IF o.len - wrote > DATA_MAXSIZE THEN DATA_MAXSIZE ELSE o.len - wrote
     IN  /\ \/ Alive /\ model' = check_write(model, f.handle, f.code, f.seq, o.pos + wrote, amount)
                     /\ UNCHANGED vol
            \/ Running /\ vol' = do_write(vol, vol.open[o.h], f.code, f.seq, o.pos + wrote, amount)
                       /\ UNCHANGED model
         /\ slots' = [slots EXCEPT ![o.h].seq = @ + 1]
         /\ IF wrote + amount = o.len THEN Advance
            ELSE wrote' = wrote + amount /\ UNCHANGED <<opno, work, pass, crash, verdict>>

\* The operations that open no file.
op_other ==
  /\ AtOp({"truncate", "mkdir", "rmdir", "unlink", "link", "rename", "renamexd",
           "chdir", "chdirup", "sync"})
  /\ LET o == work[opno]
     IN  \/ /\ Alive
            /\ model' = CASE o.op = "truncate" -> check_truncate(model, slots[o.h].handle, o.len)
                          [] o.op = "mkdir" -> check_mkdir(model, o.name)
                          [] o.op = "rmdir" -> check_rmdir(model, o.name)
                          [] o.op = "unlink" -> check_unlink(model, o.name)
                          [] o.op = "link" -> check_link(model, o.from, o.to)
                          [] o.op = "rename" -> check_rename(model, o.from, o.to)
                          [] o.op = "renamexd" -> check_renamexd(model, o.fromdir, o.from, o.todir, o.to)
                          [] o.op = "chdir" -> check_chdir(model, o.name)
                          [] o.op = "chdirup" -> check_chdirup(model)
                          [] o.op = "sync" -> model
            /\ UNCHANGED vol
         \/ /\ Running
            /\ vol' = CASE o.op = "truncate" -> do_truncate(vol, vol.open[o.h], o.len)
                        [] o.op = "mkdir" -> do_mkdir(vol, o.name)
                        [] o.op = "rmdir" -> do_rmdir(vol, o.name)
                        [] o.op = "unlink" -> do_unlink(vol, o.name)
                        [] o.op = "link" -> do_link(vol, o.from, o.to)
                        [] o.op = "rename" -> do_rename(vol, o.from, o.to)
                        [] o.op = "renamexd" -> do_renamexd(vol, o.fromdir, o.from, o.todir, o.to)
                        [] o.op = "chdir" -> do_chdir(vol, o.name)
                        [] o.op = "chdirup" -> do_chdirup(vol)
                        [] o.op = "sync" -> do_sync(vol)
            /\ UNCHANGED model
  /\ UNCHANGED slots
  /\ Advance

\* The replay is over; the workload runs on the volume.
StartDo ==
  /\ Alive /\ opno > Len(work)
  /\ pass' = "do" /\ opno' = 1 /\ slots' = <<>>
  /\ UNCHANGED <<work, wrote, model, vol, crash, verdict>>

Spoil(v, i, units, with) == [v EXCEPT !.data[i] = [u \in DOMAIN @ |-> IF u \in units THEN with ELSE @[u]]]

\* The machine stops.  Nothing is damaged; or fresh data of the oldest or the
\* newest file reads as zeros; or its first or last unit is not what was
\* written.
LinkedFiles(v) == {v.ent[e] : e \in DOMAIN v.ent} \cap DOMAIN v.data

Crash ==
  /\ pass = "do"
  /\ pass' = "crashed"
  /\ \/ vol' = vol /\ crash' = [at |-> opno, damage |-> "none"]
     \/ \E i \in LinkedFiles(vol) :
          /\ i \in {Min(LinkedFiles(vol)), Max(LinkedFiles(vol))}
          /\ \E f \in vol.fresh : f[1] = i
          /\ vol' = Spoil(vol, i, {f[2] : f \in {g \in vol.fresh : g[1] = i}}, Zero)
          /\ crash' = [at |-> opno, damage |-> "zeroed"]
     \/ \E i \in LinkedFiles(vol), with \in {Poison, Trash} :
          /\ i \in {Min(LinkedFiles(vol)), Max(LinkedFiles(vol))}
          /\ DOMAIN vol.data[i] # {}
          /\ \E u \in {0, FileLen(vol, i) - 1} : vol' = Spoil(vol, i, {u}, with)
          /\ crash' = [at |-> opno, damage |-> "spoiled"]
  /\ UNCHANGED <<work, opno, wrote, slots, model, verdict>>

checkfs ==
  /\ pass = "crashed"
  /\ pass' = "done"
  /\ verdict' = CheckVolume(model, vol)
  /\ UNCHANGED <<work, opno, wrote, slots, model, vol, crash>>

FrackNext ==
  op_open \/ op_close \/ op_opendir \/ op_write \/ op_other \/ StartDo \/ Crash \/ checkfs

FrackSpec == FrackInit /\ [][FrackNext]_fvars

-----------------------------------------------------------------------------
(* Properties.                                                              *)

\* No workload makes the replay call die() or fail an assertion, or asks the
\* volume for something a correct file system must refuse: the replay and the
\* run of a workload never stop early.
WorkloadsReplay == ~model.state.dead /\ ~vol.failed

\* The state kept by the replay is a tree: every object in it can be reached
\* from the root, every directory from the one it names as its parent, and
\* its reference count is the number of its names.
ReplayedStateIsTree ==
  LET s == model.state
      Links(obj) == {e \in DOMAIN s.ent : s.ent[e] = obj}
  IN  pass = "replay" =>
      /\ \A obj \in DOMAIN s.ref : obj # Dir(0) => s.ref[obj] = Cardinality(Links(obj)) /\ s.ref[obj] > 0
      /\ \A e \in DOMAIN s.ent : isdir(s.ent[e]) => s.parent[s.ent[e][2]] = e[1]
      /\ count_subtree(s, Dir(0)) = 1 + Cardinality(DOMAIN s.ent)

\* A version older than the last structural change before the one that was
\* chosen has the tree on the volume, and its files.
ExplainedByOlder ==
  LET states == StatesOf(model.changes)
  IN  \E j \in 1..(findokversion(model.changes, verdict.best) - 1) :
        /\ compare_objects(states[j], Dir(0), vol, 1) = 0
        /\ checkallfilecontents(model.changes, states[j], 0, vol, 1, j) \subseteq {"assert"}

\* A volume that stopped between two operations of the workload, with its
\* data intact or with zeros in place of data that no sync had written, is
\* recognized: its tree matches a version, and no file is reported, with two
\* exceptions.  The check may stop at an assertion of its own: checkfilerange
\* asserts that its range is not empty (check.c:2462), and asks itself about an
\* empty one where a file was cut off at the start of the range.  And where the
\* same tree was there at several points of the workload, the check takes the
\* last of them, and may report files although an earlier one explains them.
NoFalseAlarm ==
  pass = "done" /\ crash.damage # "spoiled" =>
    verdict.score = 0 /\ (verdict.errors \subseteq {"assert"} \/ ExplainedByOlder)

\* A volume on which one unit of one file is poison or trash is reported.
DamageReported ==
  pass = "done" /\ crash.damage = "spoiled" => verdict.errors # {}
=============================================================================
