-------------------------------- MODULE Usem -------------------------------
(***************************************************************************)
(* The programs that use the semaphores of semfs from several processes:   *)
(* usemtest, and schedpong with its thinkers, grinders and pong groups.    *)
(* A process is the sequence of the calls it still has to make; the        *)
(* kernel's files and processes are external.  On a kernel of kind         *)
(* "locked" a read or write holds a lock of the open file, which processes *)
(* share after a fork, while it waits for the semaphore.                   *)
(***************************************************************************)
EXTENDS Integers, SequencesExt, FiniteSets

CONSTANTS UsemRuns,       \* programs with their parameters
          UsemKernels \* kinds of kernels: "free", "locked"

VARIABLES this,    \* the program that runs
          ukernel,
          usem,    \* the semaphores there are, with their counts
          calls,   \* what each process has still to do
          alive, ended,
          flock,   \* who holds the lock of an open file
          talking, \* processes in the middle of their output
          results  \* the results file: the groups that have a result

uvars == <<this, ukernel, usem, calls, alive, ended, flock, talking, results>>

Main == <<"main">>
Job(i) == <<"job", i>>
Director(g) == <<"director", g>>
Task(g, i) == <<"task", g, i>>

\* Calls.  of is the process whose open file is used.
Call(op, sem, of, n) == <<[op |-> op, sem |-> sem, of |-> of, n |-> n]>>
P(sem, of) == Call("P", sem, of, 1)
Vn(sem, of, n) == Call("V", sem, of, n)
V(sem, of) == Vn(sem, of, 1)
usem_init(sem) == Call("init", sem, Main, 0)
usem_open(sem) == Call("open", sem, Main, 0)
usem_cleanup(sem) == Call("cleanup", sem, Main, 0)
fork(p) == Call("fork", p, Main, 0)
usem_dowait(p) == Call("wait", p, Main, 0)
say == Call("say", Main, Main, 0) \o Call("said", Main, Main, 0)
putresult(g) == Call("put", Main, Main, g)
getresult(g) == Call("get", Main, Main, g)

\* f(a) \o ... \o f(b)
Each(a, b, f(_)) == FlattenSeq([k \in 1..(b - a + 1) |-> f(a + k - 1)])
Times(n, s) == FlattenSeq([k \in 1..n |-> s])

----------------------------------------------------------------------------
(* usemtest                                                                *)

gosem(i) == <<"g", i>>
waitsem(i) == <<"w", i>>
LOOPS == this.once + 2 * this.twice + 3 * this.thrice

child_plain(i, of) == Times(LOOPS, P(gosem(i), of) \o say \o V(waitsem(i), of))

child_with_own_fd(i) == usem_open(gosem(i)) \o usem_open(waitsem(i)) \o child_plain(i, Job(i))

Turn(i) == V(gosem(i), Main) \o P(waitsem(i), Main)

baseparent ==
  LET Round(n) == LET F(i) == Times(n, Turn(i)) IN Each(1, this.jobs, F)
  IN  Times(this.once, Round(1)) \o Times(this.twice, Round(2)) \o Times(this.thrice, Round(3))

concparent == Times(LOOPS, Each(1, this.jobs, Turn))

InitBoth(i) == usem_init(gosem(i)) \o usem_init(waitsem(i))
CleanBoth(i) == usem_cleanup(gosem(i)) \o usem_cleanup(waitsem(i))

basetest ==
  LET F(i) == fork(Job(i)) W(i) == usem_dowait(Job(i))
      O(i) == usem_open(gosem(i)) \o usem_open(waitsem(i))
  IN  Each(1, this.jobs, InitBoth) \o Each(1, this.jobs, F) \o Each(1, this.jobs, O)
        \o baseparent \o Each(1, this.jobs, W) \o Each(1, this.jobs, CleanBoth)

\* The semaphores are opened before the forks, and shared.
conctest ==
  LET F(i) == fork(Job(i)) W(i) == usem_dowait(Job(i))
      I(i) == InitBoth(i) \o usem_open(gosem(i)) \o usem_open(waitsem(i))
  IN  Each(1, this.jobs, I) \o Each(1, this.jobs, F)
        \o concparent \o Each(1, this.jobs, W) \o Each(1, this.jobs, CleanBoth)

----------------------------------------------------------------------------
(* schedpong                                                               *)

startsem == <<"start">>
pongsem(g, i) == <<"pong", g, i>>
nsems == this.size
PONGLOOPS == this.loops
groups == 2..(this.groups + 1)
GroupSize(g) == CASE g = 0 -> this.thinkers [] g = 1 -> this.grinders [] OTHER -> nsems

waitstart(me) == usem_open(startsem) \o P(startsem, me)

\* Task id waits for its turn, except for the first turn of task 0.
Turns(g, id, n, Next(_)) ==
  LET F(i) == (IF i > 0 \/ id > 0 THEN P(pongsem(g, id), Task(g, id)) ELSE <<>>) \o V(pongsem(g, Next(i)), Task(g, id))
  IN  Each(0, n - 1, F)

\* Mutant: task 0 does not wait for the last turn.
LastTurn_none(g, id) == <<>>
LastTurn(g, id) == IF id = 0 THEN P(pongsem(g, id), Task(g, id)) ELSE <<>>

pong_cyclic(g, id) ==
  LET Next(i) == (id + 1) % nsems
  IN  Turns(g, id, PONGLOOPS, Next) \o LastTurn(g, id)

pong_reciprocating(g, id) ==
  LET nextfwd == CASE id = 0 -> 1 [] id # 0 /\ id = nsems - 1 -> nsems - 2 [] OTHER -> id + 1
      nextback == CASE id = 0 -> 1 [] id # 0 /\ id = nsems - 1 -> nsems - 2 [] OTHER -> id - 1
      Next(i) == IF i % 2 = 0 THEN nextfwd ELSE nextback
  IN  Turns(g, id, IF id \in {0, nsems - 1} THEN PONGLOOPS ELSE PONGLOOPS * 2, Next) \o LastTurn(g, id)

pong(g, id) ==
  usem_open(pongsem(g, id)) \o usem_open(pongsem(g, (id + 1) % nsems)) \o usem_open(pongsem(g, (id + nsems - 1) % nsems))
    \o waitstart(Task(g, id)) \o pong_cyclic(g, id) \o pong_reciprocating(g, id) \o pong_cyclic(g, id)

pong_prep(g) == LET F(i) == usem_init(pongsem(g, i)) IN Each(0, nsems - 1, F)
pong_cleanup(g) == LET F(i) == usem_cleanup(pongsem(g, i)) IN Each(0, nsems - 1, F)

runtaskgroup(g) ==
  LET F(i) == fork(Task(g, i)) W(i) == usem_dowait(Task(g, i)) last == GroupSize(g) - 1
  IN  (IF g \in groups THEN pong_prep(g) ELSE <<>>) \o Each(0, last, F) \o Each(0, last, W) \o putresult(g)
        \o (IF g \in groups THEN pong_cleanup(g) ELSE <<>>)

runit ==
  LET forkem(g) == fork(Director(g)) W(g) == usem_dowait(Director(g)) last == this.groups + 1
      R(g) == IF GroupSize(g) > 0 THEN getresult(g) ELSE <<>>
  IN  usem_init(startsem) \o Each(0, last, forkem) \o usem_open(startsem)
        \o Vn(startsem, Main, this.thinkers + this.grinders + this.groups * nsems)
        \o Each(0, last, W) \o usem_cleanup(startsem) \o Each(0, last, R)

----------------------------------------------------------------------------
(* Processes                                                               *)

\* What a new process does; usemtest forks its jobs twice.
CallsOf(p) ==
  CASE p = Main -> IF this.prog = "usemtest" THEN basetest \o conctest ELSE runit
    [] p[1] = "job" -> IF p \in ended THEN child_plain(p[2], Main) ELSE child_with_own_fd(p[2])
    [] p[1] = "director" -> runtaskgroup(p[2])
    [] p[1] = "task" -> IF p[2] \in groups THEN pong(p[2], p[3]) ELSE waitstart(p)

With_(f, x, y) == [z \in DOMAIN f \cup {x} |-> IF z = x THEN y ELSE f[z]]
Without(f, x) == [z \in DOMAIN f \ {x} |-> f[z]]
File(c) == <<c.of, c.sem>>
HeldBy(c) == IF File(c) \in DOMAIN flock THEN flock[File(c)] ELSE Main \o Main

Can(p, c) ==
  CASE c.op = "P" -> IF ukernel = "free" THEN c.sem \in DOMAIN usem /\ usem[c.sem] > 0
                     ELSE HeldBy(c) = Main \o Main \/ (HeldBy(c) = p /\ usem[c.sem] > 0)
    [] c.op = "V" -> ukernel = "free" \/ HeldBy(c) = Main \o Main
    [] c.op = "open" -> c.sem \in DOMAIN usem
    [] c.op = "wait" -> c.sem \in ended
    [] c.op = "get" -> c.n \in results
    [] OTHER -> TRUE

\* On a "locked" kernel a read takes the lock first.
Locks(p, c) == c.op = "P" /\ ukernel = "locked" /\ HeldBy(c) # p

Do(p, c) ==
  /\ usem' = CASE c.op = "P" -> [usem EXCEPT ![c.sem] = @ - 1]
               [] c.op = "V" -> [usem EXCEPT ![c.sem] = @ + c.n]
               [] c.op = "init" -> With_(usem, c.sem, 0)
               [] c.op = "cleanup" -> Without(usem, c.sem)
               [] OTHER -> usem
  /\ flock' = IF c.op = "P" THEN Without(flock, File(c)) ELSE flock
  /\ talking' = CASE c.op = "say" -> talking \cup {p} [] c.op = "said" -> talking \ {p} [] OTHER -> talking
  /\ results' = IF c.op = "put" THEN results \cup {c.n} ELSE results
  /\ alive' = IF c.op = "fork" THEN alive \cup {c.sem} ELSE alive
  /\ ended' = IF c.op = "fork" THEN ended \ {c.sem} ELSE ended
  /\ calls' = IF c.op = "fork" THEN With_([calls EXCEPT ![p] = Tail(@)], c.sem, CallsOf(c.sem))
              ELSE [calls EXCEPT ![p] = Tail(@)]
  /\ UNCHANGED <<this, ukernel>>

UsemCall(p) ==
  /\ calls[p] # <<>>
  /\ LET c == Head(calls[p])
     IN  /\ Can(p, c)
         /\ IF Locks(p, c)
            THEN flock' = With_(flock, File(c), p)
                 /\ UNCHANGED <<this, ukernel, usem, calls, alive, ended, talking, results>>
            ELSE Do(p, c)

UsemExit(p) ==
  /\ calls[p] = <<>>
  /\ alive' = alive \ {p} /\ ended' = ended \cup {p}
  /\ UNCHANGED <<this, ukernel, usem, calls, flock, talking, results>>

UsemInit ==
  /\ this \in UsemRuns /\ ukernel \in UsemKernels
  /\ usem = <<>> /\ flock = <<>>
  /\ alive = {Main} /\ ended = {} /\ talking = {} /\ results = {}
  /\ calls = [p \in {Main} |-> CallsOf(Main)]

UsemNext == \E p \in alive : UsemCall(p) \/ UsemExit(p)

UsemSpec == UsemInit /\ [][UsemNext]_uvars

----------------------------------------------------------------------------

Waits(p) == calls[p] # <<>> /\ ~Can(p, Head(calls[p]))

\* Usemtest's second part, which shares its open files.
Concurrent == this.prog = "usemtest" /\ Len(calls[Main]) <= Len(conctest)

\* usemtest and schedpong run to their end, with every result written before
\* it is read.  Where reads and writes hold a lock of the open file, only
\* usemtest's second part, where parent and child share their files, can hang
\* ("The last part of the test will generally hang ... unless your
\* filetable/open-file locking is just so", usemtest.c:37): schedpong opens
\* its semaphores in every process.
UsemTestsEnd == (\A p \in alive : Waits(p)) => alive = {} \/ (ukernel = "locked" /\ Concurrent)

\* One process at a time has the turn: the units of the semaphores of a group
\* that plays, and its tasks that have taken a unit and not given the next,
\* are never more than one (pong.c), and usemtest's output does not interleave.
OneAtATime ==
  /\ Cardinality(talking) <= 1
  /\ this.prog = "schedpong" =>
       \A g \in groups :
         LET count == FoldSet(LAMBDA i, a : a + (IF pongsem(g, i) \in DOMAIN usem THEN usem[pongsem(g, i)] ELSE 0), 0, 0..(nsems - 1))
             turns == {i \in 0..(nsems - 1) :
                         /\ Task(g, i) \in alive /\ calls[Task(g, i)] # <<>>
                         /\ Head(calls[Task(g, i)]).op = "V"}
         IN  count + Cardinality(turns) <= 1

============================================================================
