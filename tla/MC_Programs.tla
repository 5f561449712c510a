---------------------------- MODULE MC_Programs ----------------------------
(***************************************************************************)
(* Processes: how the menu starts programs and the kernel gives them       *)
(* memory (module Process), and programs that are several processes: the   *)
(* shell and its jobs (module Shell), psort (module Psort), the tests of   *)
(* user-level semaphores (module Usem), parallelvm and dirconc (module     *)
(* Workers).  They have no state in common: a behaviour takes one of them. *)
(*                                                                         *)
(* Processes: two CPUs, a TLB of two entries, two programs, one with bss   *)
(* and one with a page more than the TLB holds, started from the boot line *)
(* and from the menu; seven frames, so that memory can run out.  Shell: a  *)
(* table of two jobs, three pids, four forks, so that the table is full    *)
(* and a pid comes again.  psort: two or three processes, three or four    *)
(* keys of five values, one failed fork.  Semaphores: two jobs, groups of  *)
(* two and three.  parallelvm: three jobs, and the real matrices for the   *)
(* answers of two of its jobs.  dirconc: one process of each kind, two     *)
(* names, two tries.                                                       *)
(*                                                                         *)
(* Programs end, so deadlock is not checked; that one does not end waiting *)
(* is among the invariants.                                                *)
(***************************************************************************)
EXTENDS Process, Shell, Psort, Usem, Workers

VARIABLE program

mc_vars == <<procvars, shvars, pvars, uvars, pvmvars, dcvars, program>>

MCInit ==
  /\ program \in {"process", "shell", "psort", "usem", "parallelvm", "dirconc"}
  /\ ProcessInit /\ (program # "process" => menu_.line = <<>>)
  /\ ShellInit /\ (program # "shell" => shmode = "-c")
  /\ PsortInit /\ (program # "psort" => set = CHOOSE s \in Settings : TRUE)
  /\ UsemInit /\ (program # "usem" => this = (CHOOSE r \in UsemRuns : TRUE) /\ ukernel = "free")
  /\ PvmInit /\ (program # "parallelvm" => pvm.pc = "fork" /\ ~pvm.dowait /\ pvmkernel = "right")
  /\ setup

MCNext ==
  /\ UNCHANGED program
  /\ \/ program = "process" /\ ProcessNext /\ UNCHANGED <<shvars, pvars, uvars, pvmvars, dcvars>>
     \/ program = "shell" /\ ShellNext /\ UNCHANGED <<procvars, pvars, uvars, pvmvars, dcvars>>
     \/ program = "psort" /\ PsortNext /\ UNCHANGED <<procvars, shvars, uvars, pvmvars, dcvars>>
     \/ program = "usem" /\ UsemNext /\ UNCHANGED <<procvars, shvars, pvars, pvmvars, dcvars>>
     \/ program = "parallelvm" /\ PvmNext /\ UNCHANGED <<procvars, shvars, pvars, uvars, dcvars>>
     \/ program = "dirconc" /\ DirconcNext /\ UNCHANGED <<procvars, shvars, pvars, uvars, pvmvars>>

MCSpec == MCInit /\ [][MCNext]_mc_vars

Symmetry == Permutations(Cpus_)

Load(v, n, f) == [type |-> "PT_LOAD", vaddr |-> v, npages |-> n, filepages |-> f]
MCPrograms ==
  "bss" :> <<[type |-> "PT_NULL"], Load(1, 1, 1), Load(2, 1, 0)>>
  @@ "full" :> <<Load(1, 1, 1), Load(2, 2, 2)>>
MCBootLines == {<<>>, <<"none">>}
MCLines == {<<"bss", "full">>}

MCStatuses == {<<"exit", 0>>, <<"exit", 1>>, <<"exit", VALUES>>, <<"signal", 1>>}

MCSettings == {[procs |-> 2, keys |-> 4, worknum |-> 4], [procs |-> 2, keys |-> 3, worknum |-> 4],
               [procs |-> 3, keys |-> 3, worknum |-> 2]}

MCRuns == {[prog |-> "usemtest", jobs |-> 2, once |-> 1, twice |-> 1, thrice |-> 1],
           [prog |-> "schedpong", thinkers |-> 0, grinders |-> 0, groups |-> 1, size |-> 3, loops |-> 2],
           [prog |-> "schedpong", thinkers |-> 1, grinders |-> 1, groups |-> 1, size |-> 2, loops |-> 1]}

MCDirNames == <<"aaaa", "bbbb">>

----------------------------------------------------------------------------


(***************************************************************************)
(* usemtest and schedpong end, except where usemtest.c says that they may  *)
(* hang; and one process at a time has the turn.                           *)
(***************************************************************************)
TurnsTaken == program = "usem" => UsemTestsEnd /\ OneAtATime

(***************************************************************************)
(* parallelvm passes exactly when every job was forked and had its own     *)
(* memory, and its table of right answers is what its matrices give.       *)
(***************************************************************************)
ParallelvmIsRight == program = "parallelvm" => ParallelvmJudges /\ RightAnswersRight
=============================================================================
