------------------------------- MODULE Sched -------------------------------
(***************************************************************************)
(* The thread system of kern/thread/thread.c on several CPUs: run queues,  *)
(* thread_switch with its idle loop, sleeping and waking on a wait         *)
(* channel, fork, exit and exorcism, the timer tick and thread migration.  *)
(*                                                                         *)
(* One step is what a CPU does between two points where another CPU, or an *)
(* interrupt on the same CPU, can interfere.  A run-queue spinlock that is *)
(* held across such points is a variable; a critical section that is one   *)
(* step only requires it to be free.  Interrupts are taken at "run" and at *)
(* "idle"; everywhere else the CPU has them off.  One wait channel stands  *)
(* for all of them, with the spinlock its users protect it with.           *)
(***************************************************************************)
EXTENDS Integers, Sequences, FiniteSets, Functions

CONSTANTS NumCpus,
          Threads,       \* thread structures
          BootThread,    \* the thread each CPU starts with
          None           \* the holder of a free spinlock

Cpus == 1 .. NumCpus

ASSUME SchedAssumption ==
  /\ NumCpus \in Nat \ {0}
  /\ BootThread \in [Cpus -> Threads]
  /\ IsInjective(BootThread)
  /\ None \notin Cpus

VARIABLES
  c_curthread,      \* the thread whose stack each CPU is on
  c_isidle,         \* the CPU is in the idle loop of thread_switch
  c_runqueue,       \* the run queue of each CPU
  c_runqueue_lock,  \* who holds its spinlock
  c_zombies,        \* exited threads awaiting exorcise, per CPU
  c_ipi,            \* the CPU's inter-processor interrupt line is asserted
  t_state,          \* S_RUN, S_READY, S_SLEEP, S_ZOMBIE, or no such thread
  t_cpu,            \* the CPU a thread belongs to, None before thread_fork sets it
  wc_threads,       \* the threads on the wait channel
  wc_lock,          \* who holds the spinlock of the wait channel
  pc,               \* where each CPU is
  newstate,         \* the argument of the thread_switch in progress (S_READY if none)
  list,             \* a CPU's private list: threads to wake, or to migrate
  dest,             \* targetcpu of the thread_make_runnable in progress (itself if none)
  mig               \* the locals of thread_consider_migration

vars == <<c_curthread, c_isidle, c_runqueue, c_runqueue_lock, c_zombies, c_ipi, t_state,
          t_cpu, wc_threads, wc_lock, pc, newstate, list, dest, mig>>

\* Groups of variables that most steps leave alone.
queues == <<c_runqueue, c_runqueue_lock>>
threads == <<t_state, t_cpu>>
wchan == <<wc_threads, wc_lock>>
locals == <<newstate, list, dest, mig>>

At(c, l) == pc[c] = l
Goto(c, l) == pc' = [pc EXCEPT ![c] = l]

\* Where an interrupt handler returns to: the idle loop, which goes on to take
\* its run queue's lock, or the interrupted thread.
Interrupted(c) == IF c_isidle[c] THEN "idle_lock" ELSE "run"

Free(c) == c_runqueue_lock[c] = None
cur(c) == c_curthread[c]
NoMig == [i |-> 0, my |-> 0, total |-> 0, share |-> 0, send |-> 0]

Init ==
  /\ c_curthread = BootThread
  /\ c_isidle = [c \in Cpus |-> FALSE]
  /\ c_runqueue = [c \in Cpus |-> << >>]
  /\ c_runqueue_lock = [c \in Cpus |-> None]
  /\ c_zombies = [c \in Cpus |-> << >>]
  /\ c_ipi = [c \in Cpus |-> FALSE]
  /\ t_state = [t \in Threads |-> IF t \in Range(BootThread) THEN "S_RUN" ELSE "none"]
  /\ t_cpu = [t \in Threads |-> IF t \in Range(BootThread)
                                THEN CHOOSE c \in Cpus : BootThread[c] = t ELSE None]
  /\ wc_threads = << >>
  /\ wc_lock = None
  /\ pc = [c \in Cpus |-> "run"]
  /\ newstate = [c \in Cpus |-> "S_READY"]
  /\ list = [c \in Cpus |-> << >>]
  /\ dest = [c \in Cpus |-> c]
  /\ mig = [c \in Cpus |-> NoMig]

----------------------------------------------------------------------------
(* thread_switch *)

Enter(c, state) ==
  /\ newstate' = [newstate EXCEPT ![c] = state]
  /\ Goto(c, "switch")

\* thread_yield, by choice or from hardclock.
thread_yield(c) ==
  /\ At(c, "run")
  /\ Enter(c, "S_READY")
  /\ UNCHANGED <<c_curthread, c_isidle, queues, c_zombies, c_ipi, threads, wchan, list, dest, mig>>

thread_exit(c) ==
  /\ At(c, "run")
  /\ Enter(c, "S_ZOMBIE")
  /\ UNCHANGED <<c_curthread, c_isidle, queues, c_zombies, c_ipi, threads, wchan, list, dest, mig>>

\* The caller of wchan_sleep takes the channel's spinlock.
wchan_sleep(c) ==
  /\ At(c, "run")
  /\ wc_lock = None
  /\ wc_lock' = c
  /\ Enter(c, "S_SLEEP")
  /\ UNCHANGED <<c_curthread, c_isidle, queues, c_zombies, c_ipi, threads, wc_threads, list, dest, mig>>

\* Nothing else to run: return to the caller.
switch_nothing(c) ==
  /\ At(c, "switch") /\ Free(c)
  /\ newstate[c] = "S_READY" /\ c_runqueue[c] = << >>
  /\ Goto(c, "run")
  /\ UNCHANGED <<c_curthread, c_isidle, queues, c_zombies, c_ipi, threads, wchan, locals>>

\* Mutant: a thread that yields goes to the head of the queue.
place_ready_front(c) ==
  /\ newstate[c] = "S_READY" /\ c_runqueue[c] # << >>
  /\ t_state' = [t_state EXCEPT ![cur(c)] = "S_READY"]
  /\ c_runqueue' = [c_runqueue EXCEPT ![c] = <<cur(c)>> \o @]
  /\ UNCHANGED <<wchan, c_zombies>>

\* Lock the run queue and put the current thread where it belongs: back on
\* the run queue (thread_make_runnable with the lock held) ...
place_ready(c) ==
  /\ newstate[c] = "S_READY" /\ c_runqueue[c] # << >>
  /\ t_state' = [t_state EXCEPT ![cur(c)] = "S_READY"]
  /\ c_runqueue' = [c_runqueue EXCEPT ![c] = Append(@, cur(c))]
  /\ UNCHANGED <<wchan, c_zombies>>

\* ... on the wait channel, before the channel's spinlock is released ...
place_sleep(c) ==
  /\ newstate[c] = "S_SLEEP"
  /\ wc_threads' = Append(wc_threads, cur(c))
  /\ wc_lock' = None
  /\ UNCHANGED <<t_state, c_runqueue, c_zombies>>

\* ... or on this CPU's list of zombies.
place_zombie(c) ==
  /\ newstate[c] = "S_ZOMBIE"
  /\ c_zombies' = [c_zombies EXCEPT ![c] = Append(@, cur(c))]
  /\ UNCHANGED <<t_state, c_runqueue, wchan>>

switch_place(c) ==
  /\ At(c, "switch") /\ Free(c)
  /\ place_ready(c) \/ place_sleep(c) \/ place_zombie(c)
  /\ c_runqueue_lock' = [c_runqueue_lock EXCEPT ![c] = c]
  /\ Goto(c, "mark")
  /\ UNCHANGED <<c_curthread, c_isidle, c_ipi, t_cpu, locals>>

switch_mark(c) ==
  /\ At(c, "mark")
  /\ t_state' = [t_state EXCEPT ![cur(c)] = newstate[c]]
  /\ newstate' = [newstate EXCEPT ![c] = "S_READY"]
  /\ c_isidle' = [c_isidle EXCEPT ![c] = TRUE]
  /\ Goto(c, "pick")
  /\ UNCHANGED <<c_curthread, queues, c_zombies, c_ipi, t_cpu, wchan, list, dest, mig>>

switch_idle(c) ==
  /\ At(c, "pick")
  /\ c_runqueue[c] = << >>
  /\ c_runqueue_lock' = [c_runqueue_lock EXCEPT ![c] = None]
  /\ Goto(c, "idle")
  /\ UNCHANGED <<c_curthread, c_isidle, c_runqueue, c_zombies, c_ipi, threads, wchan, locals>>

switch_relock(c) ==
  /\ At(c, "idle_lock") /\ Free(c)
  /\ c_runqueue_lock' = [c_runqueue_lock EXCEPT ![c] = c]
  /\ Goto(c, "pick")
  /\ UNCHANGED <<c_curthread, c_isidle, c_runqueue, c_zombies, c_ipi, threads, wchan, locals>>

\* Switch to the head of the run queue, whose stack is in thread_switch or in
\* thread_startup; it marks itself running and unlocks the run queue.
switch_pick(c) ==
  /\ At(c, "pick")
  /\ c_runqueue[c] # << >>
  /\ c_runqueue' = [c_runqueue EXCEPT ![c] = Tail(@)]
  /\ c_isidle' = [c_isidle EXCEPT ![c] = FALSE]
  /\ c_curthread' = [c_curthread EXCEPT ![c] = Head(c_runqueue[c])]
  /\ t_state' = [t_state EXCEPT ![Head(c_runqueue[c])] = "S_RUN"]
  /\ c_runqueue_lock' = [c_runqueue_lock EXCEPT ![c] = None]
  /\ Goto(c, "exorcise")
  /\ UNCHANGED <<c_zombies, c_ipi, t_cpu, wchan, locals>>

\* Destroy the zombies of this CPU, then let interrupts in.
exorcise(c) ==
  /\ At(c, "exorcise")
  /\ t_state' = [t \in Threads |-> IF t \in Range(c_zombies[c]) THEN "none" ELSE t_state[t]]
  /\ t_cpu' = [t \in Threads |-> IF t \in Range(c_zombies[c]) THEN None ELSE t_cpu[t]]
  /\ c_zombies' = [c_zombies EXCEPT ![c] = << >>]
  /\ Goto(c, "run")
  /\ UNCHANGED <<c_curthread, c_isidle, queues, c_ipi, wchan, locals>>

----------------------------------------------------------------------------
(* Waking, forking *)

\* A thread, or an interrupt handler, takes the channel's spinlock to wake it.
\* Device interrupts are routed to the boot CPU, which is CPU 1 here.
wchan_wake(c) ==
  /\ At(c, "run") \/ (At(c, "idle") /\ c = 1)
  /\ wc_lock = None
  /\ wc_lock' = c
  /\ Goto(c, "wake")
  /\ UNCHANGED <<c_curthread, c_isidle, queues, c_zombies, c_ipi, threads, wc_threads, locals>>

\* Take the n first threads off the channel.
TakeFirst(c, n) ==
  /\ At(c, "wake")
  /\ list' = [list EXCEPT ![c] = SubSeq(wc_threads, 1, n)]
  /\ wc_threads' = SubSeq(wc_threads, n + 1, Len(wc_threads))
  /\ Goto(c, "deliver")
  /\ UNCHANGED <<c_curthread, c_isidle, queues, c_zombies, c_ipi, threads, wc_lock, newstate, dest, mig>>

wchan_wakeone(c) == TakeFirst(c, IF wc_threads = << >> THEN 0 ELSE 1)
wchan_wakeall(c) == TakeFirst(c, Len(wc_threads))

\* A new thread on the caller's CPU; failures to allocate change nothing.
thread_fork(c) ==
  /\ At(c, "run")
  /\ \E t \in Threads :
       /\ t_state[t] = "none"
       /\ t_state' = [t_state EXCEPT ![t] = "S_READY"]
       /\ t_cpu' = [t_cpu EXCEPT ![t] = c]
       /\ list' = [list EXCEPT ![c] = <<t>>]
  /\ Goto(c, "deliver")
  /\ UNCHANGED <<c_curthread, c_isidle, queues, c_zombies, c_ipi, wchan, newstate, dest, mig>>

\* The next thread to make runnable: its CPU is read before that CPU's run
\* queue is locked.
make_runnable_cpu(c) ==
  /\ At(c, "deliver")
  /\ list[c] # << >>
  /\ dest' = [dest EXCEPT ![c] = t_cpu[Head(list[c])]]
  /\ Goto(c, "mkrun")
  /\ UNCHANGED <<c_curthread, c_isidle, queues, c_zombies, c_ipi, threads, wchan, newstate, list, mig>>

\* Mutant: the run queue is not locked.
make_runnable_unlocked(c) ==
  /\ At(c, "mkrun")
  /\ t_state' = [t_state EXCEPT ![Head(list[c])] = "S_READY"]
  /\ c_runqueue' = [c_runqueue EXCEPT ![dest[c]] = Append(@, Head(list[c]))]
  /\ c_ipi' = IF c_isidle[dest[c]] /\ dest[c] # c THEN [c_ipi EXCEPT ![dest[c]] = TRUE] ELSE c_ipi
  /\ list' = [list EXCEPT ![c] = Tail(@)]
  /\ dest' = [dest EXCEPT ![c] = c]
  /\ Goto(c, "deliver")
  /\ UNCHANGED <<c_curthread, c_isidle, c_runqueue_lock, c_zombies, t_cpu, wchan, newstate, mig>>

\* Mutant: no interrupt is sent to an idle CPU.
make_runnable_no_ipi(c) ==
  /\ At(c, "mkrun") /\ Free(dest[c])
  /\ t_state' = [t_state EXCEPT ![Head(list[c])] = "S_READY"]
  /\ c_runqueue' = [c_runqueue EXCEPT ![dest[c]] = Append(@, Head(list[c]))]
  /\ list' = [list EXCEPT ![c] = Tail(@)]
  /\ dest' = [dest EXCEPT ![c] = c]
  /\ Goto(c, "deliver")
  /\ UNCHANGED <<c_curthread, c_isidle, c_runqueue_lock, c_zombies, c_ipi, t_cpu, wchan, newstate, mig>>

\* thread_make_runnable under the target's run-queue lock.
make_runnable(c) ==
  /\ At(c, "mkrun") /\ Free(dest[c])
  /\ t_state' = [t_state EXCEPT ![Head(list[c])] = "S_READY"]
  /\ c_runqueue' = [c_runqueue EXCEPT ![dest[c]] = Append(@, Head(list[c]))]
  /\ c_ipi' = IF c_isidle[dest[c]] /\ dest[c] # c THEN [c_ipi EXCEPT ![dest[c]] = TRUE] ELSE c_ipi
  /\ list' = [list EXCEPT ![c] = Tail(@)]
  /\ dest' = [dest EXCEPT ![c] = c]
  /\ Goto(c, "deliver")
  /\ UNCHANGED <<c_curthread, c_isidle, c_runqueue_lock, c_zombies, t_cpu, wchan, newstate, mig>>

\* Done: release the channel's spinlock if this was a wakeup, and return.
deliver_done(c) ==
  /\ At(c, "deliver")
  /\ list[c] = << >>
  /\ wc_lock' = IF wc_lock = c THEN None ELSE wc_lock
  /\ Goto(c, Interrupted(c))
  /\ UNCHANGED <<c_curthread, c_isidle, queues, c_zombies, c_ipi, threads, wc_threads, locals>>

----------------------------------------------------------------------------
(* Interrupts *)

\* IPI_UNIDLE asks for nothing beyond having been delivered ...
ipi_take(c) ==
  /\ At(c, "run") \/ At(c, "idle")
  /\ c_ipi[c]
  /\ Goto(c, "ipi")
  /\ UNCHANGED <<c_curthread, c_isidle, queues, c_zombies, c_ipi, threads, wchan, locals>>

\* ... and only then is the interrupt line cleared.
ipi_clear(c) ==
  /\ At(c, "ipi")
  /\ c_ipi' = [c_ipi EXCEPT ![c] = FALSE]
  /\ Goto(c, Interrupted(c))
  /\ UNCHANGED <<c_curthread, c_isidle, queues, c_zombies, threads, wchan, locals>>

\* A timer tick that does not migrate; thread_yield returns at once if idle.
hardclock_idle(c) ==
  /\ At(c, "idle")
  /\ Goto(c, "idle_lock")
  /\ UNCHANGED <<c_curthread, c_isidle, queues, c_zombies, c_ipi, threads, wchan, locals>>

----------------------------------------------------------------------------
(* thread_consider_migration, from every 16th timer tick *)

migrate(c) ==
  /\ At(c, "run") \/ At(c, "idle")
  /\ mig' = [mig EXCEPT ![c] = [NoMig EXCEPT !.i = 1]]
  /\ Goto(c, "mig_count")
  /\ UNCHANGED <<c_curthread, c_isidle, queues, c_zombies, c_ipi, threads, wchan, newstate, list, dest>>

\* The queues are counted one at a time, each under its own lock.
mig_count(c) ==
  /\ At(c, "mig_count")
  /\ LET i == mig[c].i
         n == Len(c_runqueue[i])
     IN  /\ i <= NumCpus /\ Free(i)
         /\ mig' = [mig EXCEPT ![c].i = i + 1, ![c].total = @ + n,
                               ![c].my = IF i = c THEN n ELSE @]
  /\ UNCHANGED <<c_curthread, c_isidle, queues, c_zombies, c_ipi, threads, wchan, newstate, list, dest, pc>>

\* hardclock goes on to thread_yield.
AfterMigration(c) ==
  /\ mig' = [mig EXCEPT ![c] = NoMig]
  /\ IF c_isidle[c]
     THEN Goto(c, "idle_lock") /\ UNCHANGED newstate
     ELSE Enter(c, "S_READY")

DivRoundUp(a, b) == (a + b - 1) \div b

\* Mutant: one thread more than the surplus is sent away.
mig_decide_one_more(c) ==
  /\ At(c, "mig_count")
  /\ mig[c].i > NumCpus
  /\ LET share == DivRoundUp(mig[c].total, NumCpus)
     IN  IF mig[c].my < share
         THEN AfterMigration(c)
         ELSE /\ mig' = [mig EXCEPT ![c] = [NoMig EXCEPT !.i = 1, !.share = share,
                                                          !.send = mig[c].my - share + 1]]
              /\ Goto(c, "mig_take")
              /\ UNCHANGED newstate
  /\ UNCHANGED <<c_curthread, c_isidle, queues, c_zombies, c_ipi, threads, wchan, list, dest>>

mig_decide(c) ==
  /\ At(c, "mig_count")
  /\ mig[c].i > NumCpus
  /\ LET share == DivRoundUp(mig[c].total, NumCpus)
     IN  IF mig[c].my < share
         THEN AfterMigration(c)
         ELSE /\ mig' = [mig EXCEPT ![c] = [NoMig EXCEPT !.i = 1, !.share = share,
                                                          !.send = mig[c].my - share]]
              /\ Goto(c, "mig_take")
              /\ UNCHANGED newstate
  /\ UNCHANGED <<c_curthread, c_isidle, queues, c_zombies, c_ipi, threads, wchan, list, dest>>

\* Take the victims off the end of this CPU's queue, keeping their order.
mig_take(c) ==
  /\ At(c, "mig_take") /\ Free(c)
  /\ LET q == c_runqueue[c]
         k == Len(q) - mig[c].send
     IN  /\ k >= 0
         /\ list' = [list EXCEPT ![c] = SubSeq(q, k + 1, Len(q))]
         /\ c_runqueue' = [c_runqueue EXCEPT ![c] = SubSeq(q, 1, k)]
  /\ Goto(c, "mig_give")
  /\ UNCHANGED <<c_curthread, c_isidle, c_runqueue_lock, c_zombies, c_ipi, threads, wchan, newstate, dest, mig>>

More(c) == mig[c].i <= NumCpus /\ mig[c].send > 0

\* Lock the next other CPU's queue.
mig_lock(c) ==
  /\ At(c, "mig_give") /\ More(c)
  /\ IF mig[c].i = c
     THEN mig' = [mig EXCEPT ![c].i = @ + 1] /\ UNCHANGED <<c_runqueue_lock, pc>>
     ELSE /\ Free(mig[c].i)
          /\ c_runqueue_lock' = [c_runqueue_lock EXCEPT ![mig[c].i] = c]
          /\ Goto(c, "mig_move")
          /\ UNCHANGED mig
  /\ UNCHANGED <<c_curthread, c_isidle, c_runqueue, c_zombies, c_ipi, threads, wchan, newstate, list, dest>>

\* The locked queue is below its share.
Short(c) == Len(c_runqueue[mig[c].i]) < mig[c].share /\ mig[c].send > 0

\* Mutant: this CPU's current thread is migrated like any other.
mig_move_any(c) ==
  /\ At(c, "mig_move") /\ Short(c)
  /\ LET i == mig[c].i
         t == Head(list[c])
     IN  /\ list' = [list EXCEPT ![c] = Tail(@)]
         /\ t_cpu' = [t_cpu EXCEPT ![t] = i]
         /\ c_runqueue' = [c_runqueue EXCEPT ![i] = Append(@, t)]
         /\ c_ipi' = IF c_isidle[i] THEN [c_ipi EXCEPT ![i] = TRUE] ELSE c_ipi
  /\ mig' = [mig EXCEPT ![c].send = @ - 1]
  /\ UNCHANGED <<c_curthread, c_isidle, c_runqueue_lock, c_zombies, t_state, wchan, newstate, dest, pc>>

\* Move one victim; this CPU's current thread is kept and put last.
mig_move(c) ==
  /\ At(c, "mig_move") /\ Short(c)
  /\ LET i == mig[c].i
         t == Head(list[c])
     IN  IF t = cur(c)
         THEN /\ list' = [list EXCEPT ![c] = Append(Tail(@), t)]
              /\ UNCHANGED <<c_runqueue, t_cpu, c_ipi>>
         ELSE /\ list' = [list EXCEPT ![c] = Tail(@)]
              /\ t_cpu' = [t_cpu EXCEPT ![t] = i]
              /\ c_runqueue' = [c_runqueue EXCEPT ![i] = Append(@, t)]
              /\ c_ipi' = IF c_isidle[i] THEN [c_ipi EXCEPT ![i] = TRUE] ELSE c_ipi
  /\ mig' = [mig EXCEPT ![c].send = @ - 1]
  /\ UNCHANGED <<c_curthread, c_isidle, c_runqueue_lock, c_zombies, t_state, wchan, newstate, dest, pc>>

mig_unlock(c) ==
  /\ At(c, "mig_move") /\ ~Short(c)
  /\ c_runqueue_lock' = [c_runqueue_lock EXCEPT ![mig[c].i] = None]
  /\ mig' = [mig EXCEPT ![c].i = @ + 1]
  /\ Goto(c, "mig_give")
  /\ UNCHANGED <<c_curthread, c_isidle, c_runqueue, c_zombies, c_ipi, threads, wchan, newstate, list, dest>>

\* The leftovers go back on this CPU's own queue.
mig_back(c) ==
  /\ At(c, "mig_give") /\ ~More(c)
  /\ list[c] # << >> => Free(c)
  /\ c_runqueue' = [c_runqueue EXCEPT ![c] = @ \o list[c]]
  /\ list' = [list EXCEPT ![c] = << >>]
  /\ AfterMigration(c)
  /\ UNCHANGED <<c_curthread, c_isidle, c_runqueue_lock, c_zombies, c_ipi, threads, wchan, dest>>

----------------------------------------------------------------------------

thread_switch(c) ==
  \/ switch_nothing(c) \/ switch_place(c) \/ switch_mark(c) \/ switch_idle(c)
  \/ switch_relock(c) \/ switch_pick(c) \/ exorcise(c)

deliver(c) ==
  wchan_wakeone(c) \/ wchan_wakeall(c) \/ make_runnable_cpu(c) \/ make_runnable(c)
  \/ deliver_done(c)

thread_consider_migration(c) ==
  mig_count(c) \/ mig_decide(c) \/ mig_take(c) \/ mig_lock(c) \/ mig_move(c)
  \/ mig_unlock(c) \/ mig_back(c)

\* What a CPU does of its own accord once it is on its way ...
Proceed(c) == thread_switch(c) \/ deliver(c) \/ thread_consider_migration(c) \/ ipi_clear(c)

\* ... and what threads, devices and timers may start.
Start(c) ==
  thread_yield(c) \/ thread_exit(c) \/ wchan_sleep(c) \/ wchan_wake(c) \/ thread_fork(c)
  \/ ipi_take(c) \/ hardclock_idle(c) \/ migrate(c)

Next == \E c \in Cpus : Proceed(c) \/ Start(c)

(***************************************************************************)
(* Fairness: a CPU that is on its way goes on, and gets a spinlock that is *)
(* free again and again while it spins (no queue orders the spinners: that *)
(* is what the machine's bus arbitration is relied on for); an asserted    *)
(* interrupt line is taken by a CPU that lets interrupts in; the timer     *)
(* makes a running thread yield, its interrupt staying pending while they  *)
(* are off.  No timer or device is relied on to end an idle wait.          *)
(***************************************************************************)
Fairness ==
  \A c \in Cpus : SF_vars(Proceed(c)) /\ WF_vars(ipi_take(c)) /\ SF_vars(thread_yield(c))

Safe == Init /\ [][Next]_vars
Spec == Safe /\ Fairness

----------------------------------------------------------------------------

\* The lists thread t is on: a run queue, a list of zombies, a CPU's private
\* list, or the wait channel.
On(t) ==
  {<<"rq", c>> : c \in {d \in Cpus : t \in Range(c_runqueue[d])}}
  \cup {<<"zombies", c>> : c \in {d \in Cpus : t \in Range(c_zombies[d])}}
  \cup {<<"list", c>> : c \in {d \in Cpus : t \in Range(list[d])}}
  \cup {<<"wchan", c>> : c \in {d \in {None} : t \in Range(wc_threads)}}

\* A thread is linked into at most one list, at most once (it has a single
\* t_listnode), and a thread that exists is either on a list or the current
\* thread of some CPU: switching, waking, forking, exiting and migrating
\* neither lose nor duplicate a thread.
NoThreadLostOrDuplicated ==
  /\ \A t \in Threads :
       /\ \A k, l \in On(t) : k = l
       /\ t_state[t] = "none" => On(t) = {}
       /\ t_state[t] # "none" => On(t) # {} \/ \E c \in Cpus : cur(c) = t
  /\ IsInjective(wc_threads)
  /\ \A c \in Cpus : IsInjective(c_runqueue[c]) /\ IsInjective(c_zombies[c]) /\ IsInjective(list[c])

\* No two CPUs are on the same thread's stack; a thread whose stack a CPU is
\* still on (because it has not switched away yet, or idles on it) can be on no
\* other CPU's run queue, where that CPU could pick it up, and is not
\* destroyed by exorcise, there or elsewhere.
StackUsedByOneCpu ==
  \A c, d \in Cpus :
    /\ c # d => cur(c) # cur(d) /\ cur(c) \notin Range(c_runqueue[d])
    /\ t_state[cur(c)] # "none"
    /\ At(d, "exorcise") => cur(c) \notin Range(c_zombies[d])

\* A wakeup that arrives before the sleeper's CPU has finished switching away
\* is not overwritten: whatever is on a run queue is marked S_READY and
\* belongs to that CPU.
QueuedIsReady ==
  \A c \in Cpus : \A t \in Range(c_runqueue[c]) : t_state[t] = "S_READY" /\ t_cpu[t] = c

(***************************************************************************)
(* Threads are neither lost nor linked twice by switching, waking,         *)
(* forking, exiting and migrating, and whatever is on a run queue is       *)
(* S_READY and that CPU's: a wakeup that comes before the sleeper's CPU    *)
(* has finished switching away is not overwritten.                         *)
(***************************************************************************)
QueuesExact == NoThreadLostOrDuplicated /\ QueuedIsReady

\* A CPU that waits for an interrupt while its run queue holds a thread has
\* one on the way: the unlock before cpu_idle opens no window in which a
\* wakeup, or a migration, goes unnoticed.
IdleCpuIsPoked ==
  \A c \in Cpus : At(c, "idle") /\ c_runqueue[c] # << >> => c_ipi[c]

\* thread_consider_migration counts its queue, unlocks it and later takes
\* to_send threads off it without looking for NULL: they are still there.
VictimsStillThere ==
  \A c \in Cpus : At(c, "mig_take") => mig[c].send <= Len(c_runqueue[c])

(***************************************************************************)
(* What is read under a run queue's lock and used after it was dropped     *)
(* still holds: a CPU that waits for an interrupt with a thread in its     *)
(* queue has one on the way, and the threads that migration counted are    *)
(* still there when it takes them.                                         *)
(***************************************************************************)
UnlockedReadsHold == IdleCpuIsPoked /\ VictimsStillThere

\* A thread that has been made runnable runs, wherever wakeups and migration
\* have put it: the queues are served in order and nothing overtakes for ever.
ReadyThreadRuns ==
  \A t \in Threads : t_state[t] = "S_READY" ~> t_state[t] = "S_RUN"
=============================================================================
