------------------------------- MODULE Workers ------------------------------
(***************************************************************************)
(* testbin/parallelvm: NJOBS processes that each compute products of       *)
(* matrices and compare a trace with a table of right answers; with -w     *)
(* they all start computing at once.  The arithmetic is done modulo        *)
(* MODULUS, a power of 2 that divides 2^32, so that it agrees with the     *)
(* program's 32-bit integers.  Fork, semaphore files and memory are the    *)
(* kernel's and external: fork may fail, and a wrong kernel gives a job    *)
(* the pages of another.                                                   *)
(*                                                                         *)
(* dirconc, userland/testbin/dirconc/dirconc.c: processes that make,       *)
(* rename and remove directories of the same few names at the same time,   *)
(* and the cleanup that follows them.  The file system is external: each   *)
(* of its operations is atomic, and its directories are a set of paths.    *)
(***************************************************************************)
EXTENDS Integers, Sequences, FiniteSets

-----------------------------------------------------------------------------
(* parallelvm                                                              *)

CONSTANTS DIM, NMATS, MODULUS,
          AnswerJobs,        \* jobs whose answers are computed
          PVMJOBS,           \* processes run
          PVMKernels         \* "right", "mixes"

VARIABLES pvm,      \* the parent: pc, index, dowait, units still to take, failures,
                    \* and whether a job got the pages of another
          pvmjob,   \* the processes, "none" when their fork failed
          pvmsems,  \* the two semaphores
          pvmkernel,
          mats      \* the matrices of a job that computes

pvmvars == <<pvm, pvmjob, pvmsems, pvmkernel, mats>>

right_answers ==
  <<-1337312809, 356204544, -537881911, -65406976, 1952063315, -843894784, 1597000869, -993925120,
    838840559, -1616928768, -182386335, -364554240, 251084843, -61403136, 295326333, 1488013312,
    1901440647, 0, -1901440647, -1488013312, -295326333, 61403136, -251084843, 364554240>>

----------------------------------------------------------------------------
(* The computation                                                         *)

Rows == 1..DIM
RECURSIVE Dot(_, _, _, _, _)
Dot(m1, m2, i, j, k) == IF k = 0 THEN 0 ELSE (m1[i][k] * m2[k][j] + Dot(m1, m2, i, j, k - 1)) % MODULUS
multiply(m1, m2) == [i \in Rows |-> [j \in Rows |-> Dot(m1, m2, i, j, DIM)]]

addeq(m1, m2) == [i \in Rows |-> [j \in Rows |-> (m1[i][j] + m2[i][j]) % MODULUS]]

RECURSIVE TraceTo(_, _)
TraceTo(m, n) == IF n = 0 THEN 0 ELSE (TraceTo(m, n - 1) + m[n][n]) % MODULUS
trace(m) == TraceTo(m, DIM)

populate_initial_matrixes(mynum) ==
  LET m == [i \in Rows |-> [j \in Rows |-> (mynum + (i - 1) - (2 * (j - 1))) % MODULUS]]
  IN  <<m, multiply(m, m)>>

\* The matrix n, the sum of the products of the matrices i < j with i+j = n-1.
Zeros == [i \in Rows |-> [j \in Rows |-> 0]]
RECURSIVE Products(_, _, _, _)
Products(ms, i, j, sum) ==
  IF i < j THEN Products(ms, i + 1, j - 1, addeq(sum, multiply(ms[i + 1], ms[j + 1]))) ELSE sum

\* Mutant: the middle matrix is squared too.
RECURSIVE ProductsMiddle(_, _, _, _)
ProductsMiddle(ms, i, j, sum) ==
  IF i <= j THEN ProductsMiddle(ms, i + 1, j - 1, addeq(sum, multiply(ms[i + 1], ms[j + 1]))) ELSE sum
compute_middle(ms, n) == Append(ms, ProductsMiddle(ms, 0, n - 1, Zeros))
compute(ms, n) == Append(ms, Products(ms, 0, n - 1, Zeros))

\* A turn of computeall's loop, for the job that computes by itself.
computeall ==
  /\ pvm.pc = "calc" /\ Len(mats) < NMATS
  /\ mats' = IF mats = <<>> THEN populate_initial_matrixes(pvm.i) ELSE compute(mats, Len(mats))
  /\ UNCHANGED <<pvm, pvmjob, pvmsems, pvmkernel>>

answer == trace(mats[NMATS])

\* A job that computes with the matrices of job seen: its exit code.
\* Mutant: the answer is not looked at.
go_any(mynum, seen) == 0
go(mynum, seen) == IF right_answers[seen + 1] = right_answers[mynum + 1] THEN 0 ELSE 1

----------------------------------------------------------------------------
(* The processes                                                           *)

PvmJobs == 0..(PVMJOBS - 1)
semV(s, num) == pvmsems' = [pvmsems EXCEPT ![s] = @ + num]

\* Mutant: a failed fork does not post.
makeprocs_fork_quiet ==
  /\ pvm.pc = "fork" /\ pvm.i < PVMJOBS
  /\ pvm' = [pvm EXCEPT !.i = @ + 1]
  /\ \/ pvmjob' = [pvmjob EXCEPT ![pvm.i] = IF pvm.dowait THEN "forked" ELSE "computes"]
     \/ UNCHANGED pvmjob
  /\ UNCHANGED <<pvmsems, pvmkernel, mats>>

\* One turn of the loop that forks; a failed fork posts for its job.
makeprocs_fork ==
  /\ pvm.pc = "fork" /\ pvm.i < PVMJOBS
  /\ pvm' = [pvm EXCEPT !.i = @ + 1]
  /\ \/ pvmjob' = [pvmjob EXCEPT ![pvm.i] = IF pvm.dowait THEN "forked" ELSE "computes"] /\ UNCHANGED pvmsems
     \/ UNCHANGED pvmjob /\ IF pvm.dowait THEN semV(1, 1) ELSE UNCHANGED pvmsems
  /\ UNCHANGED <<pvmkernel, mats>>

makeprocs_forked ==
  /\ pvm.pc = "fork" /\ pvm.i = PVMJOBS
  /\ pvm' = [pvm EXCEPT !.pc = IF pvm.dowait THEN "P" ELSE "wait", !.i = 0]
  /\ UNCHANGED <<pvmjob, pvmsems, pvmkernel, mats>>

\* The parent's read of the semaphore takes a unit at a time.
semP ==
  /\ pvm.pc = "P"
  /\ \/ /\ pvm.left > 0 /\ pvmsems[1] > 0
        /\ pvm' = [pvm EXCEPT !.left = @ - 1] /\ pvmsems' = [pvmsems EXCEPT ![1] = @ - 1]
     \/ pvm.left = 0 /\ pvm' = [pvm EXCEPT !.pc = "wait"] /\ semV(2, PVMJOBS)
  /\ UNCHANGED <<pvmjob, pvmkernel, mats>>

\* A child of -w says that it runs, then waits to be started.
child_waits(n) ==
  /\ \/ pvmjob[n] = "forked" /\ semV(1, 1) /\ pvmjob' = [pvmjob EXCEPT ![n] = "ready"]
     \/ /\ pvmjob[n] = "ready" /\ pvmsems[2] > 0
        /\ pvmsems' = [pvmsems EXCEPT ![2] = @ - 1] /\ pvmjob' = [pvmjob EXCEPT ![n] = "computes"]
  /\ UNCHANGED <<pvm, pvmkernel, mats>>

child_goes(n) ==
  /\ pvmjob[n] = "computes"
  /\ \E seen \in IF pvmkernel = "mixes" THEN PvmJobs ELSE {n} :
       /\ pvmjob' = [pvmjob EXCEPT ![n] = IF go(n, seen) = 0 THEN "passed" ELSE "failed"]
       /\ pvm' = [pvm EXCEPT !.mixed = @ \/ seen # n]
  /\ UNCHANGED <<pvmsems, pvmkernel, mats>>

\* Each process in turn; the exit code tells whether all went well.
makeprocs_wait ==
  /\ pvm.pc = "wait"
  /\ \/ /\ pvm.i < PVMJOBS /\ pvmjob[pvm.i] \in {"none", "passed", "failed"}
        /\ pvm' = [pvm EXCEPT !.i = @ + 1, !.failcount = @ + (IF pvmjob[pvm.i] = "passed" THEN 0 ELSE 1)]
     \/ pvm.i = PVMJOBS /\ pvm' = [pvm EXCEPT !.pc = "done"]
  /\ UNCHANGED <<pvmjob, pvmsems, pvmkernel, mats>>

PvmInit ==
  /\ pvm \in [pc : {"fork"}, i : {0}, dowait : BOOLEAN, left : {PVMJOBS}, failcount : {0}, mixed : {FALSE}]
       \cup [pc : {"calc"}, i : AnswerJobs, dowait : {FALSE}, left : {0}, failcount : {0}, mixed : {FALSE}]
  /\ mats = <<>>
  /\ pvmjob = [n \in PvmJobs |-> "none"] /\ pvmsems = <<0, 0>> /\ pvmkernel \in IF pvm.pc = "calc" THEN {"right"} ELSE PVMKernels

PvmNext ==
  \/ computeall \/ makeprocs_fork \/ makeprocs_forked \/ semP \/ makeprocs_wait
  \/ \E n \in PvmJobs : child_waits(n) \/ child_goes(n)

PvmSpec == PvmInit /\ [][PvmNext]_pvmvars

----------------------------------------------------------------------------

\* The table of right answers is what computeall and answer compute.
RightAnswersRight == (pvm.pc = "calc" /\ Len(mats) = NMATS) => answer = right_answers[pvm.i + 1] % MODULUS

PvmIn(states) == Cardinality({n \in PvmJobs : pvmjob[n] \in states})

\* The test passes exactly when every job was forked and got its own memory;
\* no -w job computes before every job is forked or known not to be; and
\* nobody waits for ever, although forks fail: the units the parent waits for
\* are there or will be posted, by a job or by makeprocs in place of one, and
\* the started jobs find a unit each.
ParallelvmJudges ==
  /\ pvm.pc = "done" => (pvm.failcount = 0 <=> ~pvm.mixed /\ \A n \in PvmJobs : pvmjob[n] # "none")
  /\ (pvm.dowait /\ pvm.pc = "fork") => \A n \in PvmJobs : pvmjob[n] \in {"none", "forked", "ready"}
  /\ (pvm.dowait /\ pvm.pc \in {"fork", "P"}) =>
       pvmsems[1] + PvmIn({"forked"}) + (IF pvm.pc = "fork" THEN PVMJOBS - pvm.i ELSE 0) = pvm.left
  /\ (pvm.dowait /\ pvm.pc = "wait") => PvmIn({"forked", "ready"}) <= pvmsems[2]

-----------------------------------------------------------------------------
(* dirconc                                                                 *)

CONSTANTS DirNames,   \* names, in order: the array of NNAMES strings
          NTRIES,     \* operations of one worker
          NPROCS      \* a quarter of the workers

VARIABLES dcpc,       \* the parent: "fork", "wait", "cleanup", "done"
          dci,        \* its loop index
          pids,       \* worker -> "-1" (fork failed), "runs", "exited", "waited"
          ct,         \* worker -> tries it has made
          dirs,       \* the paths below the test directory that exist
          testdir,    \* the test directory exists
          frames,     \* the frames of recursive_cleanup: [sofar, i]
          said        \* complaints, apart from those of a failed fork

dcvars == <<dcpc, dci, pids, ct, dirs, testdir, frames, said>>

Workers == 0..(4 * NPROCS - 1)

----------------------------------------------------------------------------
(* The file system                                                         *)

Exists(p) == p = <<>> \/ p \in dirs
Parent(p) == SubSeq(p, 1, Len(p) - 1)
Under(p, q) == Len(p) > Len(q) /\ SubSeq(p, 1, Len(q)) = q   \* p is below q
IsEmpty(q) == ~\E p \in dirs : Under(p, q)

\* Each gives the errno, "0" when the operation succeeds, and the directories after it.
mkdir(p) ==
  IF ~Exists(Parent(p)) THEN <<"ENOENT", dirs>>
  ELSE IF p \in dirs THEN <<"EEXIST", dirs>>
  ELSE <<"0", dirs \union {p}>>

rmdir(p) ==
  IF p \notin dirs THEN <<"ENOENT", dirs>>
  ELSE IF ~IsEmpty(p) THEN <<"ENOTEMPTY", dirs>>
  ELSE <<"0", dirs \ {p}>>

Moved(p, q) == {IF r = p \/ Under(r, p) THEN q \o SubSeq(r, Len(p) + 1, Len(r)) ELSE r : r \in dirs}

rename(p, q) ==
  IF p \notin dirs \/ ~Exists(Parent(q)) THEN <<"ENOENT", dirs>>
  ELSE IF p = q THEN <<"0", dirs>>
  ELSE IF Under(q, p) THEN <<"EINVAL", dirs>>
  ELSE IF ~IsEmpty(q) THEN <<"ENOTEMPTY", dirs>>
  ELSE <<"0", Moved(p, q)>>

----------------------------------------------------------------------------
(* The workers.  random is any choice.                                     *)

choose_name == LET N == {DirNames[k] : k \in 1..Len(DirNames)}
               IN  {<<a>> : a \in N} \union (N \X N) \union (N \X N \X N)

\* A worker does one operation, with one of the results it can have, and
\* complains of an errno that is not expected.
Operate(results, expected) ==
  \E result \in results :
    /\ dirs' = result[2]
    /\ said' = IF result[1] \in expected \union {"0"} THEN said ELSE said \union {result[1]}

dorename == Operate({rename(p, q) : p, q \in choose_name}, {"ENOENT", "ENOTEMPTY", "EINVAL"})
\* Mutant: a name that exists already is not expected.
domkdir_eexist == Operate({mkdir(p) : p \in choose_name}, {"ENOENT"})
domkdir == Operate({mkdir(p) : p \in choose_name}, {"ENOENT", "EEXIST"})
dormdir == Operate({rmdir(p) : p \in choose_name}, {"ENOENT", "ENOTEMPTY"})

Try(w) ==
  /\ pids[w] = "runs" /\ ct[w] < NTRIES
  /\ ct' = [ct EXCEPT ![w] = @ + 1]
  /\ UNCHANGED <<dcpc, dci, pids, testdir, frames>>

mkdir_proc(w) == w % 4 \in {0, 1} /\ Try(w) /\ domkdir
rename_proc(w) == w % 4 = 2 /\ Try(w) /\ dorename
rmdir_proc(w) == w % 4 = 3 /\ Try(w) /\ dormdir

\* The function returns and the child exits with 0.
child_exit(w) ==
  /\ pids[w] = "runs" /\ ct[w] = NTRIES
  /\ pids' = [pids EXCEPT ![w] = "exited"]
  /\ UNCHANGED <<dcpc, dci, ct, dirs, testdir, frames, said>>

----------------------------------------------------------------------------
(* The parent                                                              *)

dofork ==
  /\ dcpc = "fork" /\ dci \in Workers
  /\ \E r \in {"runs", "-1"} : pids' = [pids EXCEPT ![dci] = r]
  /\ dci' = dci + 1
  /\ UNCHANGED <<dcpc, ct, dirs, testdir, frames, said>>

run_forked ==
  /\ dcpc = "fork" /\ dci \notin Workers
  /\ dcpc' = "wait" /\ dci' = 0
  /\ UNCHANGED <<pids, ct, dirs, testdir, frames, said>>

\* Mutant: the children are not waited for.
run_wait_not ==
  /\ dcpc = "wait" /\ dci \in Workers
  /\ dci' = dci + 1
  /\ UNCHANGED <<dcpc, pids, ct, dirs, testdir, frames, said>>

run_wait ==
  /\ dcpc = "wait" /\ dci \in Workers
  /\ pids[dci] # "runs"
  /\ pids' = [pids EXCEPT ![dci] = IF @ = "exited" THEN "waited" ELSE @]
  /\ dci' = dci + 1
  /\ UNCHANGED <<dcpc, ct, dirs, testdir, frames, said>>

run_waited ==
  /\ dcpc = "wait" /\ dci \notin Workers
  /\ dcpc' = "cleanup" /\ frames' = <<[sofar |-> <<>>, i |-> 1]>>
  /\ UNCHANGED <<dci, pids, ct, dirs, testdir, said>>

Top == frames[Len(frames)]
buf == Append(Top.sofar, DirNames[Top.i])

\* One turn of the loop: a directory that is not empty is cleaned first.
recursive_cleanup ==
  /\ dcpc = "cleanup" /\ frames # <<>> /\ Top.i <= Len(DirNames)
  /\ dirs' = rmdir(buf)[2]
  /\ IF rmdir(buf)[1] = "ENOTEMPTY"
     THEN /\ frames' = Append(frames, [sofar |-> buf, i |-> 1])
          /\ said' = said
     ELSE /\ frames' = [frames EXCEPT ![Len(frames)].i = @ + 1]
          /\ said' = said \union ({rmdir(buf)[1]} \ {"0", "ENOENT"})
  /\ UNCHANGED <<dcpc, dci, pids, ct, testdir>>

\* It returns, and the caller removes the directory that was cleaned.
cleanup_rmdir ==
  /\ dcpc = "cleanup" /\ Len(frames) > 1 /\ Top.i > Len(DirNames)
  /\ dirs' = rmdir(Top.sofar)[2]
  /\ said' = said \union ({rmdir(Top.sofar)[1]} \ {"0", "ENOENT"})
  /\ frames' = [SubSeq(frames, 1, Len(frames) - 1) EXCEPT ![Len(frames) - 1].i = @ + 1]
  /\ UNCHANGED <<dcpc, dci, pids, ct, testdir>>

\* The test directory itself goes last.
cleanup ==
  /\ dcpc = "cleanup" /\ Len(frames) = 1 /\ Top.i > Len(DirNames)
  /\ testdir' = (dirs # {})
  /\ said' = IF dirs = {} THEN said ELSE said \union {"ENOTEMPTY"}
  /\ dcpc' = "done" /\ frames' = <<>>
  /\ UNCHANGED <<dci, pids, ct, dirs>>

\* setup has made the test directory and changed to it.
setup ==
  /\ dcpc = "fork" /\ dci = 0
  /\ pids = [w \in Workers |-> "none"] /\ ct = [w \in Workers |-> 0]
  /\ dirs = {} /\ testdir = TRUE
  /\ frames = <<>> /\ said = {}

DirconcNext ==
  \/ \E w \in Workers : mkdir_proc(w) \/ rename_proc(w) \/ rmdir_proc(w) \/ child_exit(w)
  \/ dofork \/ run_forked \/ run_wait \/ run_waited
  \/ recursive_cleanup \/ cleanup_rmdir \/ cleanup

----------------------------------------------------------------------------
(* On a file system whose operations are atomic, whatever the workers did  *)
(* and in whatever order, however deep the renames have nested the         *)
(* directories and whichever forks failed: no operation gets an errno the  *)
(* program does not expect, and when it ends recursive_cleanup has removed *)
(* every directory, the test directory with them.                          *)
DirconcCleansUp ==
  /\ said = {}
  /\ dcpc = "done" => dirs = {} /\ ~testdir
=============================================================================
