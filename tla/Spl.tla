-------------------------------- MODULE Spl --------------------------------
(***************************************************************************)
(* Interrupt masking: spl.c, spinlock.c, the interrupt and exception paths *)
(* of mips_trap, cpu_idle, and what thread_switch, thread_fork and         *)
(* thread_startup do to it.  The processor has one enable bit; a thread    *)
(* records t_curspl, set by the spl calls, and t_iplhigh_count, the number *)
(* of reasons (spl calls and spinlocks) for which interrupts are off.      *)
(* Reasons need not nest, and one of them, the run-queue lock, is taken by *)
(* the thread that leaves a CPU and dropped by the thread that comes.      *)
(*                                                                         *)
(* Every order of calls that the rules for spinlocks allow is explored: a  *)
(* context (a thread, an exception in it, or an interrupt handler) takes   *)
(* spinlocks in increasing order, releases the ones it took, in any order, *)
(* and returns or is switched out with none left.  Run queues are one set: *)
(* a runnable thread may continue on any CPU (see Sched for the queues).   *)
(***************************************************************************)
EXTENDS Integers, Sequences, FiniteSets

CONSTANTS SplCpus, SplThreads,
          NumLocks,      \* spinlocks other than the run queues'
          SplBootThread,    \* the thread each CPU starts with
          MaxFrames,     \* bound: nested spl, exception and interrupt frames
          MaxAllFrames,  \* bound: those frames, of all threads together
          Nobody

Locks == 1 .. NumLocks

ASSUME SplAssumption ==
  /\ SplBootThread \in [SplCpus -> SplThreads]
  /\ \A c, d \in SplCpus : SplBootThread[c] = SplBootThread[d] => c = d
  /\ NumLocks \in Nat /\ MaxFrames \in Nat /\ MaxAllFrames \in Nat
  /\ Nobody \notin SplCpus /\ Nobody \notin SplThreads

IPL_NONE == 0
IPL_HIGH == 1

VARIABLES
  curthread,        \* the current thread of each CPU
  iec,              \* the interrupt enable bit of each CPU's status register
  c_spinlocks,      \* how many spinlocks each CPU holds or waits for
  spl_isidle,         \* the CPU is in the idle loop
  splk_holder,      \* the CPU that holds each spinlock
  taker,            \* the thread and exception depth that took it
  t_curspl, t_iplhigh_count, t_in_interrupt,   \* per thread
  frames,           \* the calls each thread is in, innermost last
  ready, asleep, unborn,   \* the threads in each of these states
  spl_pc,               \* run, spin, pick, idle, idle_irq
  want,             \* the spinlock a spinning CPU waits for
  panicked          \* an assertion or a panic in this code has fired

spl_vars == <<curthread, iec, c_spinlocks, spl_isidle, splk_holder, taker, t_curspl,
          t_iplhigh_count, t_in_interrupt, frames, ready, asleep, unborn, spl_pc, want, panicked>>

spl_cur(c) == curthread[c]
SplAt(c, l) == spl_pc[c] = l /\ ~panicked
SplGoto(c, l) == spl_pc' = [spl_pc EXCEPT ![c] = l]

----------------------------------------------------------------------------
(* spl.c: functions of a thread's interrupt state and its CPU's enable bit *)

splraise(s) == [s EXCEPT !.high = @ + 1, !.ie = @ /\ s.high # 0]

\* Mutant: interrupts are turned on by every lower.
spllower_each(s) == [s EXCEPT !.high = @ - 1, !.ie = TRUE]

spllower(s) == [s EXCEPT !.high = @ - 1, !.ie = @ \/ s.high = 1]

splx(s, spl) ==
  IF s.spl < spl THEN [splraise(s) EXCEPT !.spl = spl]
  ELSE IF s.spl > spl THEN spllower([s EXCEPT !.spl = spl])
  ELSE s

State(c, t) == [spl |-> t_curspl[t], high |-> t_iplhigh_count[t], ie |-> iec[c]]

SetState(c, t, s) ==
  /\ t_curspl' = [t_curspl EXCEPT ![t] = s.spl]
  /\ t_iplhigh_count' = [t_iplhigh_count EXCEPT ![t] = s.high]
  /\ iec' = [iec EXCEPT ![c] = s.ie]

ipl_vars == <<t_curspl, t_iplhigh_count, iec>>
sched_vars == <<curthread, spl_isidle, ready, asleep, unborn>>
lock_vars == <<c_spinlocks, splk_holder, taker, want>>

----------------------------------------------------------------------------
(* Frames and contexts *)

One(b) == IF b THEN 1 ELSE 0
Top(t) == frames[t][Len(frames[t])]
InFrame(t, kind) == frames[t] # << >> /\ Top(t).kind = kind
Push(t, f) == frames' = [frames EXCEPT ![t] = Append(@, f)]
Pop(t) == frames' = [frames EXCEPT ![t] = SubSeq(@, 1, Len(@) - 1)]

\* The bounds leave room for one more frame of thread t.
Room(t) ==
  /\ Len(frames[t]) < MaxFrames
  /\ Cardinality({f \in SplThreads \X (1 .. MaxFrames) :
                    f[2] <= Len(frames[f[1]]) /\ frames[f[1]][f[2]].kind # "switch"}) < MaxAllFrames

Depth(t) == Cardinality({i \in 1 .. Len(frames[t]) : frames[t][i].kind \in {"irq", "trap"}})

\* The spinlocks the innermost context of thread t has taken.
Held(t) == {l \in Locks : taker[l] = <<t, Depth(t)>>}

SplInit ==
  /\ curthread = SplBootThread
  /\ iec = [c \in SplCpus |-> TRUE]
  /\ c_spinlocks = [c \in SplCpus |-> 0]
  /\ spl_isidle = [c \in SplCpus |-> FALSE]
  /\ splk_holder = [l \in Locks |-> Nobody]
  /\ taker = [l \in Locks |-> <<Nobody, 0>>]
  /\ t_curspl = [t \in SplThreads |-> IPL_NONE]
  /\ t_iplhigh_count = [t \in SplThreads |-> 0]
  /\ t_in_interrupt = [t \in SplThreads |-> FALSE]
  /\ frames = [t \in SplThreads |-> << >>]
  /\ ready = {} /\ asleep = {}
  /\ unborn = SplThreads \ {SplBootThread[c] : c \in SplCpus}
  /\ spl_pc = [c \in SplCpus |-> "run"]
  /\ want = [c \in SplCpus |-> 0]
  /\ panicked = FALSE

----------------------------------------------------------------------------
(* Spl calls and spinlocks *)

\* s = splhigh()
splhigh(c) ==
  /\ SplAt(c, "run") /\ Room(spl_cur(c))
  /\ SetState(c, spl_cur(c), splx(State(c, spl_cur(c)), IPL_HIGH))
  /\ Push(spl_cur(c), [kind |-> "spl", spl |-> t_curspl[spl_cur(c)]])
  /\ UNCHANGED <<sched_vars, lock_vars, t_in_interrupt, spl_pc, panicked>>

\* splx(s)
splx_call(c) ==
  /\ SplAt(c, "run") /\ InFrame(spl_cur(c), "spl")
  /\ SetState(c, spl_cur(c), splx(State(c, spl_cur(c)), Top(spl_cur(c)).spl))
  /\ Pop(spl_cur(c))
  /\ UNCHANGED <<sched_vars, lock_vars, t_in_interrupt, spl_pc, panicked>>

\* Mutant: interrupts stay as they are.
spinlock_acquire_nospl(c) ==
  \E l \in Locks :
    /\ SplAt(c, "run") /\ \A k \in Held(spl_cur(c)) : k < l
    /\ c_spinlocks' = [c_spinlocks EXCEPT ![c] = @ + 1]
    /\ want' = [want EXCEPT ![c] = l]
    /\ panicked' = (splk_holder[l] = c)
    /\ SplGoto(c, "spin")
    /\ UNCHANGED <<sched_vars, ipl_vars, splk_holder, taker, t_in_interrupt, frames>>

spinlock_acquire(c) ==
  \E l \in Locks :
    /\ SplAt(c, "run") /\ \A k \in Held(spl_cur(c)) : k < l
    /\ SetState(c, spl_cur(c), splraise(State(c, spl_cur(c))))
    /\ c_spinlocks' = [c_spinlocks EXCEPT ![c] = @ + 1]
    /\ want' = [want EXCEPT ![c] = l]
    /\ panicked' = (splk_holder[l] = c)
    /\ SplGoto(c, "spin")
    /\ UNCHANGED <<sched_vars, splk_holder, taker, t_in_interrupt, frames>>

spinlock_got(c) ==
  /\ SplAt(c, "spin") /\ splk_holder[want[c]] = Nobody
  /\ splk_holder' = [splk_holder EXCEPT ![want[c]] = c]
  /\ taker' = [taker EXCEPT ![want[c]] = <<spl_cur(c), Depth(spl_cur(c))>>]
  /\ want' = [want EXCEPT ![c] = 0]
  /\ SplGoto(c, "run")
  /\ UNCHANGED <<sched_vars, ipl_vars, c_spinlocks, t_in_interrupt, frames, panicked>>

spinlock_release(c) ==
  \E l \in Held(spl_cur(c)) :
    /\ SplAt(c, "run")
    /\ panicked' = (splk_holder[l] # c \/ c_spinlocks[c] = 0)
    /\ c_spinlocks' = [c_spinlocks EXCEPT ![c] = @ - 1]
    /\ splk_holder' = [splk_holder EXCEPT ![l] = Nobody]
    /\ taker' = [taker EXCEPT ![l] = <<Nobody, 0>>]
    /\ SetState(c, spl_cur(c), spllower(State(c, spl_cur(c))))
    /\ UNCHANGED <<sched_vars, want, t_in_interrupt, frames, spl_pc>>

----------------------------------------------------------------------------
(* mips_trap *)

\* The processor has turned interrupts off; make the recorded state agree.
interrupt(c) ==
  LET t == spl_cur(c)
      doadjust == t_curspl[t] = IPL_NONE
  IN  /\ SplAt(c, "run") \/ SplAt(c, "idle_irq")
      /\ iec[c] /\ Room(t)
      /\ panicked' = (doadjust /\ t_iplhigh_count[t] # 0)
      /\ SetState(c, t, [spl |-> IPL_HIGH, ie |-> FALSE,
                         high |-> t_iplhigh_count[t] + (IF doadjust THEN 1 ELSE 0)])
      /\ Push(t, [kind |-> "irq", doadjust |-> doadjust, old_in |-> t_in_interrupt[t]])
      /\ t_in_interrupt' = [t_in_interrupt EXCEPT ![t] = TRUE]
      /\ SplGoto(c, "run")
      /\ UNCHANGED <<sched_vars, lock_vars>>

\* Back to the interrupted code, on whatever CPU the thread is by now.
interrupt_return(c) ==
  LET t == spl_cur(c)
      f == Top(t)
  IN  /\ SplAt(c, "run") /\ InFrame(t, "irq") /\ Held(t) = {}
      /\ panicked' = (f.doadjust /\ ~(t_curspl[t] = IPL_HIGH /\ t_iplhigh_count[t] = 1))
      /\ SetState(c, t, [ie |-> TRUE,
                         spl |-> IF f.doadjust THEN IPL_NONE ELSE t_curspl[t],
                         high |-> t_iplhigh_count[t] - (IF f.doadjust THEN 1 ELSE 0)])
      /\ t_in_interrupt' = [t_in_interrupt EXCEPT ![t] = f.old_in]
      /\ Pop(t)
      /\ SplGoto(c, IF spl_isidle[c] THEN "idle_irq" ELSE "run")
      /\ UNCHANGED <<sched_vars, lock_vars>>

\* A system call or a fault (in user mode or in copyin and copyout: not in a
\* handler and with no spinlock held): force the recorded state on the
\* processor.  A system call comes from user mode, with no call in progress.
trap(c) ==
  LET t == spl_cur(c)
      s == [State(c, t) EXCEPT !.ie = FALSE]
      resynced == splx(splx(s, IPL_HIGH), t_curspl[t])
  IN  /\ SplAt(c, "run") /\ Room(t)
      /\ Held(t) = {} /\ ~t_in_interrupt[t]
      /\ SetState(c, t, resynced)
      /\ panicked' = (frames[t] = << >> /\ (resynced.spl # IPL_NONE \/ resynced.high # 0))
      /\ Push(t, [kind |-> "trap", ie |-> iec[c]])
      /\ UNCHANGED <<sched_vars, lock_vars, t_in_interrupt, spl_pc>>

\* cpu_irqoff, and the return from exception restores the enable bit.
trap_return(c) ==
  LET t == spl_cur(c)
  IN  /\ SplAt(c, "run") /\ InFrame(t, "trap") /\ Held(t) = {}
      /\ iec' = [iec EXCEPT ![c] = Top(t).ie]
      /\ Pop(t)
      /\ UNCHANGED <<sched_vars, lock_vars, t_curspl, t_iplhigh_count, t_in_interrupt, spl_pc, panicked>>

----------------------------------------------------------------------------
(* Switching threads *)

\* thread_switch up to where the old thread is on its list: splhigh, lock the
\* run queue and, if it goes to sleep, release the spinlock lk (0: none).
Leave(c, lk) ==
  LET t == spl_cur(c)
      s == splraise(splx(State(c, t), IPL_HIGH))
  IN  /\ SetState(c, t, IF lk = 0 THEN s ELSE spllower(s))
      /\ c_spinlocks' = [c_spinlocks EXCEPT ![c] = IF lk = 0 THEN @ + 1 ELSE @]
      /\ splk_holder' = [l \in Locks |-> IF l = lk THEN Nobody ELSE splk_holder[l]]
      /\ taker' = [l \in Locks |-> IF l = lk THEN <<Nobody, 0>> ELSE taker[l]]
      /\ Push(t, [kind |-> "switch", spl |-> t_curspl[t], lk |-> lk])
      /\ spl_isidle' = [spl_isidle EXCEPT ![c] = TRUE]
      /\ SplGoto(c, "pick")
      /\ UNCHANGED <<curthread, unborn, want, t_in_interrupt>>

\* Called by a thread, or by hardclock in an interrupt.
spl_thread_yield(c) ==
  /\ SplAt(c, "run") /\ ~spl_isidle[c] /\ Held(spl_cur(c)) = {}
  /\ Leave(c, 0)
  /\ ready' = ready \cup {spl_cur(c)}
  /\ UNCHANGED <<asleep, panicked>>

\* Not called by interrupt handlers, and with the channel's spinlock only.
spl_wchan_sleep(c) ==
  \E lk \in Locks :
    /\ SplAt(c, "run") /\ ~t_in_interrupt[spl_cur(c)] /\ Held(spl_cur(c)) = {lk}
    /\ \A l \in Locks \ {lk} : taker[l][1] # spl_cur(c)
    /\ panicked' = (splk_holder[lk] # c \/ c_spinlocks[c] # 1)
    /\ Leave(c, lk)
    /\ asleep' = asleep \cup {spl_cur(c)}
    /\ UNCHANGED ready

spl_thread_exit(c) ==
  /\ SplAt(c, "run") /\ frames[spl_cur(c)] = << >> /\ Held(spl_cur(c)) = {}
  /\ Leave(c, 0)
  /\ UNCHANGED <<ready, asleep, panicked>>

\* The new thread releases this CPU's run-queue lock and goes back to the spl
\* its own thread_switch, or thread_startup, remembers; one that slept takes
\* its spinlock again.
spl_switch_pick(c) ==
  \E t \in ready :
    LET f == Top(t)
        s == splx(spllower(State(c, t)), f.spl)
    IN  /\ SplAt(c, "pick") /\ \A d \in SplCpus \ {c} : spl_cur(d) # t
        /\ curthread' = [curthread EXCEPT ![c] = t]
        /\ ready' = ready \ {t}
        /\ spl_isidle' = [spl_isidle EXCEPT ![c] = FALSE]
        /\ SetState(c, t, IF f.lk = 0 THEN s ELSE splraise(s))
        /\ c_spinlocks' = [c_spinlocks EXCEPT ![c] = IF f.lk = 0 THEN @ - 1 ELSE @]
        /\ want' = [want EXCEPT ![c] = f.lk]
        /\ panicked' = (f.lk # 0 /\ splk_holder[f.lk] = c)
        /\ SplGoto(c, IF f.lk = 0 THEN "run" ELSE "spin")
        /\ Pop(t)
        /\ UNCHANGED <<asleep, unborn, splk_holder, taker, t_in_interrupt>>

\* An empty run queue: a thread that has been made runnable again before its
\* CPU left it is on that CPU's queue.
spl_switch_idle(c) ==
  /\ SplAt(c, "pick") /\ spl_cur(c) \notin ready
  /\ SetState(c, spl_cur(c), spllower(State(c, spl_cur(c))))
  /\ c_spinlocks' = [c_spinlocks EXCEPT ![c] = @ - 1]
  /\ SplGoto(c, "idle")
  /\ UNCHANGED <<sched_vars, splk_holder, taker, want, t_in_interrupt, frames, panicked>>

\* cpu_idle flips interrupts on ...
cpu_irqon(c) ==
  /\ SplAt(c, "idle")
  /\ iec' = [iec EXCEPT ![c] = TRUE]
  /\ SplGoto(c, "idle_irq")
  /\ UNCHANGED <<sched_vars, lock_vars, t_curspl, t_iplhigh_count, t_in_interrupt, frames, panicked>>

\* ... and off, and the idle loop takes the run-queue lock again.
cpu_irqoff(c) ==
  /\ SplAt(c, "idle_irq")
  /\ SetState(c, spl_cur(c), splraise([State(c, spl_cur(c)) EXCEPT !.ie = FALSE]))
  /\ c_spinlocks' = [c_spinlocks EXCEPT ![c] = @ + 1]
  /\ SplGoto(c, "pick")
  /\ UNCHANGED <<sched_vars, splk_holder, taker, want, t_in_interrupt, frames, panicked>>

\* wchan_wakeone, by a thread or a handler; its spinlocks come and go.
spl_wchan_wakeone(c) ==
  \E t \in asleep :
    /\ SplAt(c, "run")
    /\ asleep' = asleep \ {t} /\ ready' = ready \cup {t}
    /\ UNCHANGED <<curthread, spl_isidle, unborn, lock_vars, ipl_vars, t_in_interrupt, frames, spl_pc, panicked>>

spl_thread_fork(c) ==
  \E t \in unborn :
    /\ SplAt(c, "run") /\ ~t_in_interrupt[spl_cur(c)] /\ Held(spl_cur(c)) = {}
    /\ unborn' = unborn \ {t} /\ ready' = ready \cup {t}
    /\ t_curspl' = [t_curspl EXCEPT ![t] = IPL_HIGH]
    /\ t_iplhigh_count' = [t_iplhigh_count EXCEPT ![t] = 2]
    /\ Push(t, [kind |-> "switch", spl |-> IPL_NONE, lk |-> 0])
    /\ UNCHANGED <<curthread, spl_isidle, asleep, iec, lock_vars, t_in_interrupt, spl_pc, panicked>>

Step(c) ==
  \/ splhigh(c) \/ splx_call(c) \/ spinlock_acquire(c) \/ spinlock_got(c) \/ spinlock_release(c)
  \/ interrupt(c) \/ interrupt_return(c) \/ trap(c) \/ trap_return(c)
  \/ spl_thread_yield(c) \/ spl_wchan_sleep(c) \/ spl_thread_exit(c) \/ spl_switch_pick(c) \/ spl_switch_idle(c)
  \/ cpu_irqon(c) \/ cpu_irqoff(c) \/ spl_wchan_wakeone(c) \/ spl_thread_fork(c)

SplNext == \E c \in SplCpus : Step(c)

SplSpec == SplInit /\ [][SplNext]_spl_vars

----------------------------------------------------------------------------

Running(t, labels) == \E c \in SplCpus : spl_cur(c) = t /\ spl_pc[c] \in labels
\* The number of reasons a thread has to keep interrupts off: a raised spl, each
\* spinlock it holds or spins on, and the run-queue lock it left a CPU with or
\* will release when it comes back.
Reasons(t) ==
  t_curspl[t] + Cardinality({l \in Locks : taker[l][1] = t}) + One(Running(t, {"spin"}))
    + One(InFrame(t, "switch") /\ ~Running(t, {"idle", "idle_irq"}))

\* t_iplhigh_count counts exactly those reasons.  A running thread has
\* interrupts on if and only if it has none, also after coming back from a
\* switch, an exception or an interrupt, possibly on another CPU; a CPU that
\* holds a spinlock, spins, switches or is about to wait has them off.
InterruptsMatchReasons ==
  /\ \A t \in SplThreads : t_iplhigh_count[t] = Reasons(t)
  /\ \A c \in SplCpus :
       /\ spl_pc[c] = "run" => (iec[c] <=> Reasons(spl_cur(c)) = 0)
       /\ spl_pc[c] \in {"spin", "pick", "idle"} => ~iec[c]
       /\ (\E l \in Locks : splk_holder[l] = c) => ~iec[c]

\* The assertions of mips_trap, spinlock_release and wchan_sleep hold, and a
\* CPU never spins on a spinlock it holds itself ("Deadlock on spinlock").
NoAssertionFails == ~panicked

(***************************************************************************)
(* A thread has interrupts on exactly when it has no reason for them to be *)
(* off, wherever switches, exceptions and interrupts take it, and so no    *)
(* assertion of mips_trap, spinlock_release and wchan_sleep fails and no   *)
(* CPU spins on a spinlock that it holds.                                  *)
(***************************************************************************)
MaskingExact == InterruptsMatchReasons /\ NoAssertionFails
=============================================================================
