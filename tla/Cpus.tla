-------------------------------- MODULE Cpus --------------------------------
(***************************************************************************)
(* Starting the secondary CPUs (thread_start_cpus, lamebus_start_cpus and  *)
(* cpu_hatch), composed with the semaphore cpu_startup_sem: the boot       *)
(* thread creates it, enables all CPUs at once, waits with one P for each, *)
(* and destroys it; every CPU that comes up calls V once.                  *)
(*                                                                         *)
(* Inter-processor interrupts: ipi_send, ipi_broadcast,                    *)
(* interprocessor_interrupt, and the dispatch in mainbus_interrupt with    *)
(* the interrupt line the bus keeps per CPU.  c_ipi_lock makes each of     *)
(* the first three atomic for one target; the line is cleared without it,  *)
(* after the requests have been handled.  Nobody calls ipi_tlbshootdown in *)
(* this tree (and dumbvm's vm_tlbshootdown would panic), so no CPU ever    *)
(* has IPI_TLBSHOOTDOWN pending.                                           *)
(***************************************************************************)
EXTENDS Sequences, FiniteSets, Integers

-----------------------------------------------------------------------------
(* Starting the CPUs                                                       *)

CONSTANTS Boot,         \* the boot thread
          Secondary,    \* the other CPUs
          UintMax, NoOne

ASSUME CpusAssumption ==
  /\ IsFiniteSet(Secondary) /\ Boot \notin Secondary
  /\ NoOne \notin {Boot} \cup Secondary
  /\ UintMax \in Nat \ {0}

VARIABLES sem_count, sem_wchan, sem_lock, pc, panicked,   \* cpu_startup_sem
          enabled,     \* the CPUs that have been started
          hatched,     \* the CPUs that have called V
          waits,       \* the P calls the boot thread has still to make
          phase        \* of thread_start_cpus: start, wait, done

sem == <<sem_count, sem_wchan, sem_lock, pc, panicked>>
vars == <<sem, enabled, hatched, waits, phase>>

S == INSTANCE Semaphore WITH Threads <- {Boot}, Handlers <- Secondary, InitialCount <- 0

\* Mutant: the boot CPU is counted too.
HowMany_all == Cardinality(Secondary) + 1

\* cpuarray_num(&allcpus) - 1: how many CPUs there are to wait for.
HowMany == Cardinality(Secondary)

Init ==
  /\ S!Init
  /\ enabled = {} /\ hatched = {}
  /\ waits = HowMany
  /\ phase = "start"

lamebus_start_cpus ==
  /\ phase = "start"
  /\ enabled' = Secondary
  /\ phase' = "wait"
  /\ UNCHANGED <<sem, hatched, waits>>

\* A new CPU is in cpu_hatch and calls V; afterwards its thread exits.
cpu_hatch(c) ==
  /\ c \in enabled \ hatched
  /\ S!V_call(c)
  /\ hatched' = hatched \cup {c}
  /\ UNCHANGED <<enabled, waits, phase>>

hatch_V(c) ==
  /\ S!V_lock(c) \/ S!V_post(c) \/ S!V_overflow(c)
  /\ UNCHANGED <<enabled, hatched, waits, phase>>

wait_P ==
  /\ phase = "wait" /\ waits > 0
  /\ S!P_call(Boot)
  /\ waits' = waits - 1
  /\ UNCHANGED <<enabled, hatched, phase>>

wait_P_step ==
  /\ S!P_lock(Boot) \/ S!P_sleep(Boot) \/ S!P_take(Boot)
  /\ UNCHANGED <<enabled, hatched, waits, phase>>

\* Mutant: the semaphore goes when all CPUs have been heard but one.
sem_destroy_early ==
  /\ phase = "wait" /\ waits <= 1 /\ pc[Boot] = "out"
  /\ phase' = "done"
  /\ UNCHANGED <<sem, enabled, hatched, waits>>

sem_destroy ==
  /\ phase = "wait" /\ waits = 0 /\ pc[Boot] = "out"
  /\ phase' = "done"
  /\ UNCHANGED <<sem, enabled, hatched, waits>>

Boots == lamebus_start_cpus \/ wait_P \/ wait_P_step \/ sem_destroy
Next == Boots \/ \E c \in Secondary : cpu_hatch(c) \/ hatch_V(c)

\* The boot thread and every CPU keep going, also past a contended spinlock.
Fairness == SF_vars(Boots) /\ \A c \in Secondary : SF_vars(cpu_hatch(c) \/ hatch_V(c))

Spec == Init /\ [][Next]_vars /\ Fairness

----------------------------------------------------------------------------

\* The semaphore is destroyed when no CPU is inside V, nor still to call it:
\* nothing uses its memory afterwards, and the assertions of spinlock_cleanup
\* and of wchan_destroy (nobody holds the lock, nobody sleeps) hold.
NobodyInsideDestroyed ==
  phase = "done" =>
    /\ hatched = Secondary
    /\ \A a \in {Boot} \cup Secondary : pc[a] = "out"
    /\ sem_lock = NoOne /\ sem_wchan = << >>

\* The boot thread goes on once every CPU is up.
BootContinues == <>(phase = "done")

-----------------------------------------------------------------------------
(* Interprocessor interrupts                                               *)

CONSTANTS Cpus,
          MaxSends      \* bound: IPIs sent in one behaviour

VARIABLES
  c_ipi_pending,   \* the requests recorded for each CPU
  cipi,            \* its interrupt line
  ipi_pc,          \* run, handle, clear, halted
  targets,         \* CPUs a broadcast has still to reach, with its code
  sends

ipi_vars == <<c_ipi_pending, cipi, ipi_pc, targets, sends>>

Codes == {"IPI_PANIC", "IPI_OFFLINE", "IPI_UNIDLE"}
NoBroadcast == [code |-> "IPI_PANIC", to |-> {}]

IpiInit ==
  /\ c_ipi_pending = [c \in Cpus |-> {}]
  /\ cipi = [c \in Cpus |-> FALSE]
  /\ ipi_pc = [c \in Cpus |-> "run"]
  /\ targets = [c \in Cpus |-> NoBroadcast]
  /\ sends = 0

IpiGoto(c, l) == ipi_pc' = [ipi_pc EXCEPT ![c] = l]

\* CPU c runs kernel code and may send.
Sending(c) == ipi_pc[c] = "run" /\ targets[c].to = {} /\ sends < MaxSends /\ sends' = sends + 1

\* Record a request and assert the target's line.
Poke(d, code) ==
  /\ c_ipi_pending' = [c_ipi_pending EXCEPT ![d] = @ \cup {code}]
  /\ cipi' = [cipi EXCEPT ![d] = TRUE]

\* The scheduler asks another CPU to stop idling.
ipi_send(c) ==
  /\ Sending(c)
  /\ \E d \in Cpus \ {c} : Poke(d, "IPI_UNIDLE")
  /\ UNCHANGED <<ipi_pc, targets>>

\* thread_panic and thread_shutdown poke the others one after the other.
ipi_broadcast(c) ==
  /\ Sending(c)
  /\ \E code \in {"IPI_PANIC", "IPI_OFFLINE"} :
       targets' = [targets EXCEPT ![c] = [code |-> code, to |-> Cpus \ {c}]]
  /\ UNCHANGED <<c_ipi_pending, cipi, ipi_pc>>

broadcast_next(c) ==
  /\ ipi_pc[c] = "run"
  /\ \E d \in targets[c].to :
       /\ Poke(d, targets[c].code)
       /\ targets' = [targets EXCEPT ![c].to = @ \ {d}]
  /\ UNCHANGED <<ipi_pc, sends>>

\* Mutant: the line is cleared and nothing else is done.
mainbus_interrupt_ack(c) ==
  /\ ipi_pc[c] = "run" /\ cipi[c]
  /\ cipi' = [cipi EXCEPT ![c] = FALSE]
  /\ UNCHANGED <<c_ipi_pending, ipi_pc, targets, sends>>

\* mainbus_interrupt finds the line asserted.
mainbus_interrupt(c) ==
  /\ ipi_pc[c] = "run" /\ cipi[c]
  /\ IpiGoto(c, "handle")
  /\ UNCHANGED <<c_ipi_pending, cipi, targets, sends>>

\* PANIC or OFFLINE: the CPU halts with interrupts off and what else is
\* pending is left where it is.
interprocessor_halt(c) ==
  /\ ipi_pc[c] = "handle"
  /\ c_ipi_pending[c] \cap {"IPI_PANIC", "IPI_OFFLINE"} # {}
  /\ IpiGoto(c, "halted")
  /\ UNCHANGED <<c_ipi_pending, cipi, targets, sends>>

\* Otherwise all requests are cleared: to leave cpu_idle is all that IPI_UNIDLE
\* asks for.
interprocessor_interrupt(c) ==
  /\ ipi_pc[c] = "handle"
  /\ c_ipi_pending[c] \cap {"IPI_PANIC", "IPI_OFFLINE"} = {}
  /\ c_ipi_pending' = [c_ipi_pending EXCEPT ![c] = {}]
  /\ IpiGoto(c, "clear")
  /\ UNCHANGED <<cipi, targets, sends>>

lamebus_clear_ipi(c) ==
  /\ ipi_pc[c] = "clear"
  /\ cipi' = [cipi EXCEPT ![c] = FALSE]
  /\ IpiGoto(c, "run")
  /\ UNCHANGED <<c_ipi_pending, targets, sends>>

Handle(c) ==
  mainbus_interrupt(c) \/ interprocessor_halt(c) \/ interprocessor_interrupt(c) \/ lamebus_clear_ipi(c)

IpiNext ==
  \E c \in Cpus : ipi_send(c) \/ ipi_broadcast(c) \/ broadcast_next(c) \/ Handle(c)

\* A CPU takes an asserted interrupt and handles it; nobody has to send.
IpiFairness == \A c \in Cpus : WF_ipi_vars(Handle(c))

IpiSpec == IpiInit /\ [][IpiNext]_ipi_vars /\ IpiFairness

----------------------------------------------------------------------------

\* A request whose target's line is asserted before the target has handled
\* what it found is handled, or the target halts: requests are lost in no
\* other place than between interprocessor_interrupt and lamebus_clear_ipi.
SignalledIpiHandled ==
  \A c \in Cpus : \A code \in Codes :
    (code \in c_ipi_pending[c] /\ cipi[c] /\ ipi_pc[c] # "clear")
      ~> (code \notin c_ipi_pending[c] \/ ipi_pc[c] = "halted")

\* An IPI that is sent is received: the target handles each request or halts.
EveryIpiHandled ==
  \A c \in Cpus : \A code \in Codes :
    code \in c_ipi_pending[c] ~> (code \notin c_ipi_pending[c] \/ ipi_pc[c] = "halted")

-----------------------------------------------------------------------------
(* Both: an IPI that is sent before thread_start_cpus is done can only be  *)
(* the one by which V wakes the boot thread, which the semaphore's wakeup  *)
(* stands for.                                                             *)

CpusNext ==
  \/ Next /\ UNCHANGED ipi_vars
  \/ phase = "done" /\ IpiNext /\ UNCHANGED vars
=============================================================================
