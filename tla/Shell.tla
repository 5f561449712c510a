------------------------------- MODULE Shell -------------------------------
(***************************************************************************)
(* The shell, userland/bin/sh/sh.c: commands run in the foreground or the  *)
(* background, the table of background jobs, and the builtin commands.     *)
(* Children end at any time.  The kernel's processes are external: a pid   *)
(* names a child until its status is collected, then may be given out      *)
(* again.                                                                  *)
(***************************************************************************)
EXTENDS Integers, FiniteSets, Sequences

CONSTANTS MAXBG,      \* background jobs
          Pids,       \* process ids, positive
          Statuses,   \* how a child may end: <<"exit" or "signal", number>>
          VALUES,     \* numbers that ei.val can hold
          MaxForks    \* commands run, a bound

ASSUME ShellAssumption ==
  /\ MAXBG \in Nat
  /\ \A p \in Pids : p > 0
  /\ \A s \in Statuses : s[1] \in {"exit", "signal"}

VARIABLES shpc, shmode, shslot, \* where the shell is; interactive or -c; loop index
          shpid,                \* the pid it waits for
          bgpids, ei,
          kids,                 \* the kernel: pid -> how the process is
          warned,               \* a waitpid failed for a pid of the shell's own
          forks

shvars == <<shpc, shmode, shslot, shpid, bgpids, ei, kids, warned, forks>>

Slots == 1..MAXBG
Free == <<"free", 0>>
Runs == <<"runs", 0>>

----------------------------------------------------------------------------
(* The kernel, as the shell uses it.                                       *)

\* A child ends.
KidEnds(p) ==
  /\ kids[p] = Runs
  /\ \E s \in Statuses : kids' = [kids EXCEPT ![p] = s]
  /\ UNCHANGED <<shpc, shmode, shslot, shpid, bgpids, ei, warned, forks>>

IsChild(p) == p \in Pids /\ kids[p] # Free
HasEnded(p) == IsChild(p) /\ kids[p] # Runs
Reap(p) == kids' = [kids EXCEPT ![p] = Free]

----------------------------------------------------------------------------
(* The table, and exit information.                                        *)

can_bg == \E i \in Slots : bgpids[i] = 0
FirstFree == CHOOSE i \in Slots : bgpids[i] = 0 /\ \A j \in Slots : bgpids[j] = 0 => i <= j
remember_bg(p) == bgpids' = [bgpids EXCEPT ![FirstFree] = p]

exitinfo_exit(code) == ei' = [val |-> code % VALUES, signaled |-> FALSE]
readstatus(s) == [val |-> s[2] % VALUES, signaled |-> s[1] = "signal"]

\* The command is done: the shell reports, and polls its jobs or exits.
Done ==
  /\ shpc' = IF shmode = "-c" THEN "leave" ELSE "poll"
  /\ shslot' = 1 /\ shpid' = 0

----------------------------------------------------------------------------
(* wait: the slot of the pid waited for is cleared, found or not.          *)

\* Mutant: a job that was waited for by its pid stays in the table.
Forget_not(p) == UNCHANGED bgpids
Forget(p) == bgpids' = [i \in Slots |-> IF bgpids[i] = p THEN 0 ELSE bgpids[i]]

\* dowait of a pid that is no child warns; otherwise it blocks.
dowait(p) ==
  \/ HasEnded(p) /\ Reap(p) /\ UNCHANGED warned
  \/ ~IsChild(p) /\ warned' = (warned \/ \E i \in Slots : bgpids[i] = p /\ p # 0) /\ UNCHANGED kids

\* wait with a pid.
cmd_wait_pid ==
  /\ shpc = "wait pid" /\ dowait(shpid) /\ Forget(shpid)
  /\ exitinfo_exit(0) /\ Done
  /\ UNCHANGED <<shmode, forks>>

\* wait alone: every slot in turn.
cmd_wait ==
  /\ shpc = "wait all"
  /\ \/ /\ shslot \in Slots
        /\ \/ bgpids[shslot] = 0 /\ UNCHANGED <<bgpids, kids, warned>>
           \/ bgpids[shslot] # 0 /\ dowait(bgpids[shslot]) /\ bgpids' = [bgpids EXCEPT ![shslot] = 0]
        /\ shslot' = shslot + 1
        /\ UNCHANGED <<shpc, shpid, ei>>
     \/ /\ shslot \notin Slots
        /\ exitinfo_exit(0) /\ Done
        /\ UNCHANGED <<bgpids, kids, warned>>
  /\ UNCHANGED <<shmode, forks>>

\* A slot of the poll after a command: a job that has ended is reported.
dowaitpoll(p) == HasEnded(p)
waitpoll ==
  /\ shpc = "poll"
  /\ \/ /\ shslot \in Slots /\ shslot' = shslot + 1 /\ UNCHANGED shpc
        /\ \/ /\ bgpids[shslot] # 0 /\ dowaitpoll(bgpids[shslot])
              /\ Reap(bgpids[shslot]) /\ bgpids' = [bgpids EXCEPT ![shslot] = 0] /\ UNCHANGED warned
           \/ /\ bgpids[shslot] # 0 /\ ~IsChild(bgpids[shslot]) /\ warned' = TRUE
              /\ UNCHANGED <<kids, bgpids>>
           \/ /\ bgpids[shslot] = 0 \/ (IsChild(bgpids[shslot]) /\ ~dowaitpoll(bgpids[shslot]))
              /\ UNCHANGED <<kids, bgpids, warned>>
     \/ /\ shslot \notin Slots /\ shslot' = 1 /\ shpc' = "prompt"
        /\ UNCHANGED <<kids, bgpids, warned>>
  /\ UNCHANGED <<shmode, shpid, ei, forks>>

----------------------------------------------------------------------------
(* Commands                                                                *)

\* cd, which may fail, an empty line, and builtins with wrong words.
cmd_chdir ==
  /\ shpc = "prompt"
  /\ \E code \in {0, 1} : exitinfo_exit(code)
  /\ Done
  /\ UNCHANGED <<shmode, bgpids, kids, warned, forks>>

cmd_exit ==
  /\ shpc = "prompt" /\ shpc' = "gone"
  /\ \E code \in {0, 1} : ei' = [val |-> code, signaled |-> FALSE]
  /\ UNCHANGED <<shmode, shslot, shpid, bgpids, kids, warned, forks>>

\* wait starts.
StartWait ==
  /\ shpc = "prompt"
  /\ \/ shpc' = "wait all" /\ shslot' = 1 /\ UNCHANGED shpid
     \/ \E p \in Pids \cup {0} : shpc' = "wait pid" /\ shpid' = p /\ UNCHANGED shslot
  /\ UNCHANGED <<shmode, bgpids, ei, kids, warned, forks>>

\* A program: refused, not forked, put in the background or waited for.
docommand(bg) ==
  /\ shpc = "prompt"
  /\ \/ bg /\ ~can_bg /\ exitinfo_exit(1) /\ Done /\ UNCHANGED <<bgpids, kids, forks>>
     \/ (bg => can_bg) /\ exitinfo_exit(255) /\ Done /\ UNCHANGED <<bgpids, kids, forks>>
     \/ /\ bg => can_bg
        /\ forks < MaxForks /\ forks' = forks + 1
        /\ \E p \in Pids :
             /\ kids[p] = Free /\ kids' = [kids EXCEPT ![p] = Runs]
             /\ \/ bg /\ remember_bg(p) /\ exitinfo_exit(0) /\ Done
                \/ ~bg /\ shpc' = "fg" /\ shpid' = p /\ UNCHANGED <<shslot, bgpids, ei>>
  /\ UNCHANGED <<shmode, warned>>

\* The foreground program has ended.
docommand_waits ==
  /\ shpc = "fg" /\ HasEnded(shpid)
  /\ Reap(shpid) /\ ei' = readstatus(kids[shpid]) /\ Done
  /\ UNCHANGED <<shmode, bgpids, warned, forks>>

\* sh -c tells with its own exit code whether the command went well.
main_c ==
  /\ shpc = "leave" /\ shpc' = "gone"
  /\ ei' = [val |-> IF ei.signaled \/ ei.val # 0 THEN 1 ELSE 0, signaled |-> FALSE]
  /\ UNCHANGED <<shmode, shslot, shpid, bgpids, kids, warned, forks>>

ShellInit ==
  /\ shpc = "prompt" /\ shmode \in {"interactive", "-c"} /\ shslot = 1 /\ shpid = 0
  /\ bgpids = [i \in Slots |-> 0]
  /\ ei = [val |-> 0, signaled |-> FALSE]
  /\ kids = [p \in Pids |-> Free]
  /\ warned = FALSE /\ forks = 0

ShellNext ==
  \/ \E p \in Pids : KidEnds(p)
  \/ cmd_wait_pid \/ cmd_wait \/ waitpoll \/ cmd_chdir \/ cmd_exit \/ StartWait
  \/ docommand(TRUE) \/ docommand(FALSE) \/ docommand_waits \/ main_c

ShellSpec == ShellInit /\ [][ShellNext]_shvars

----------------------------------------------------------------------------

\* Every child whose status was not collected is the foreground program or in
\* exactly one slot of bgpids, every used slot names such a child, and no
\* waitpid of a job fails, although children end at any time, wait collects a
\* job that is in the table, and the kernel gives pids out again (sh.c).
JobTableExact ==
  /\ \A p \in Pids :
       Cardinality({i \in Slots : bgpids[i] = p}) + (IF shpc = "fg" /\ shpid = p THEN 1 ELSE 0)
         = IF IsChild(p) THEN 1 ELSE 0
  /\ ~warned

============================================================================
