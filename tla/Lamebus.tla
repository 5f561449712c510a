------------------------------ MODULE Lamebus ------------------------------
(***************************************************************************)
(* The system bus (dev/lamebus/lamebus.c): finding and starting the CPUs,  *)
(* probing the slots and attaching the drivers with interrupts on, and the *)
(* interrupt handler, which looks at the slots one after the other and     *)
(* calls the drivers without its lock.  Lines are level-triggered: while   *)
(* one is on the CPU is interrupted again as soon as the handler returns.  *)
(* All interrupts go to the boot CPU.                                      *)
(***************************************************************************)
EXTENDS Integers, Sequences, FiniteSets

CONSTANTS LbSlots,     \* 0..n, the order in which they are looked at
          LbMachines,  \* the devices in the slots: kind and version
          LbCpus,      \* numbers of hardware CPUs
          LbDuds,      \* dud interrupts before a panic
          LbRaises,    \* interrupts the devices raise
          LbNoMem      \* allocations that fail

VARIABLES lbhw,        \* the devices of this machine
          cpumask, self, \* its CPUs and the one that runs
          hwnum,       \* the hardware number of each CPU created, by CPU number
          cirqe,       \* the CPUs that get the bus's interrupts
          cram,        \* the CPU number given to each CPU that is started
          line,        \* slots that assert their interrupt
          slotsinuse, irqfuncs, \* of the softc
          configured,  \* slots whose driver has enabled interrupts
          boot,        \* where the boot thread is: the driver, the slot
          intr,        \* where the interrupt handler is
          duds, lbleft, lbpanic

lbvars == <<lbhw, cpumask, self, hwnum, cirqe, cram, line, slotsinuse, irqfuncs, configured,
            boot, intr, duds, lbleft, lbpanic>>
cpuvars == <<cpumask, self, hwnum, cirqe, cram>>

Empty == [kind |-> "none", ver |-> 0]
Occupied == {s \in LbSlots : lbhw[s] # Empty}

----------------------------------------------------------------------------
(* CPUs                                                                    *)

\* The set in ascending order.
Ascending(S) == CHOOSE q \in [1..Cardinality(S) -> S] : \A i, j \in 1..Cardinality(S) : i < j => q[i] < q[j]

\* CPU number 0 is the boot CPU; cpu_create numbers the others as they come.
lamebus_find_cpus ==
  /\ boot.at = "find"
  /\ hwnum' = <<self>> \o Ascending(cpumask \ {self})
  /\ cirqe' = {self}
  /\ boot' = [boot EXCEPT !.at = "probe"]
  /\ UNCHANGED <<lbhw, cpumask, self, cram, line, slotsinuse, irqfuncs, configured, intr, duds, lbleft, lbpanic>>

\* Mutant: the CPUs are numbered by their place in the mask.
StartNumber_all(c) == Cardinality({d \in cpumask : d < c})

\* cpunum counts from 1 and leaves out the CPU that runs.
StartNumber(c) == 1 + Cardinality({d \in cpumask \ {self} : d < c})

lb_start_cpus ==
  /\ boot.at = "start"
  /\ cram' = [c \in cpumask \ {self} |-> StartNumber(c)]
  /\ boot' = [boot EXCEPT !.at = "started"]
  /\ UNCHANGED <<lbhw, cpumask, self, hwnum, cirqe, line, slotsinuse, irqfuncs, configured, intr, duds, lbleft, lbpanic>>

----------------------------------------------------------------------------
(* Drivers, in the order of the kernel configuration                       *)

attach_emu_to_lamebus == [kind |-> "emu", low |-> 1, irq |-> TRUE]
attach_ltrace_to_lamebus == [kind |-> "ltrace", low |-> 1, irq |-> FALSE]
attach_ltimer_to_lamebus == [kind |-> "ltimer", low |-> 1, irq |-> TRUE]
attach_lrandom_to_lamebus == [kind |-> "lrandom", low |-> 1, irq |-> FALSE]
attach_lhd_to_lamebus == [kind |-> "lhd", low |-> 2, irq |-> TRUE]
attach_lser_to_lamebus == [kind |-> "lser", low |-> 1, irq |-> TRUE]

Drivers == <<attach_emu_to_lamebus, attach_ltrace_to_lamebus, attach_ltimer_to_lamebus,
             attach_lrandom_to_lamebus, attach_lhd_to_lamebus, attach_lser_to_lamebus>>
Driver == Drivers[boot.drv]

Matches(s, drv) == lbhw[s].kind = drv.kind /\ lbhw[s].ver >= drv.low

\* Mutant: slots in use are not skipped.
lamebus_probe_all(drv) ==
  LET found == {s \in LbSlots : Matches(s, drv)}
  IN  IF found = {} THEN -1 ELSE CHOOSE s \in found : \A x \in found : s <= x

lamebus_probe(drv) ==
  LET found == {s \in LbSlots \ slotsinuse : Matches(s, drv)}
  IN  IF found = {} THEN -1 ELSE CHOOSE s \in found : \A x \in found : s <= x

\* The boot thread runs when no line is on and no handler is running.
BootRuns(where) == boot.at = where /\ intr.at = "none" /\ line = {} /\ ~lbpanic

NextDriver == IF boot.drv = Len(Drivers) THEN [boot EXCEPT !.at = "start"]
              ELSE [boot EXCEPT !.drv = @ + 1, !.at = "probe"]

\* No device, or none for which there is memory, ends the search for a driver.
BootProbe ==
  /\ BootRuns("probe")
  /\ LET slot == lamebus_probe(Driver)
     IN  IF slot = -1 THEN boot' = NextDriver /\ UNCHANGED lbleft
         ELSE \/ boot' = [boot EXCEPT !.at = "mark", !.slot = slot] /\ UNCHANGED lbleft
              \/ /\ lbleft.nomem > 0
                 /\ boot' = NextDriver /\ lbleft' = [lbleft EXCEPT !.nomem = @ - 1]
  /\ UNCHANGED <<lbhw, cpuvars, line, slotsinuse, irqfuncs, configured, intr, duds, lbpanic>>

lamebus_mark ==
  /\ BootRuns("mark")
  /\ lbpanic' = (boot.slot \in slotsinuse)
  /\ slotsinuse' = slotsinuse \cup {boot.slot}
  /\ boot' = [boot EXCEPT !.at = IF Driver.irq THEN "attach" ELSE "config"]
  /\ UNCHANGED <<lbhw, cpuvars, line, irqfuncs, configured, intr, duds, lbleft>>

lamebus_attach_interrupt ==
  /\ BootRuns("attach")
  /\ lbpanic' = (boot.slot \notin slotsinuse \/ irqfuncs[boot.slot] # "none")
  /\ irqfuncs' = [irqfuncs EXCEPT ![boot.slot] = Driver.kind]
  /\ boot' = [boot EXCEPT !.at = "config"]
  /\ UNCHANGED <<lbhw, cpuvars, line, slotsinuse, configured, intr, duds, lbleft>>

\* config_emu and the others, which enable interrupts; then the next unit.
BootConfig ==
  /\ BootRuns("config")
  /\ configured' = configured \cup {boot.slot}
  /\ boot' = [boot EXCEPT !.at = "probe"]
  /\ UNCHANGED <<lbhw, cpuvars, line, slotsinuse, irqfuncs, intr, duds, lbleft, lbpanic>>

----------------------------------------------------------------------------
(* Interrupts                                                              *)

\* A device with interrupts enabled, or one that no driver knows.
Raise ==
  /\ lbleft.raises > 0 /\ lbleft' = [lbleft EXCEPT !.raises = @ - 1]
  /\ \E s \in Occupied \ line :
       /\ s \in configured \/ \A i \in 1..Len(Drivers) : ~Matches(s, Drivers[i])
       /\ line' = line \cup {s}
  /\ UNCHANGED <<lbhw, cpuvars, slotsinuse, irqfuncs, configured, boot, intr, duds, lbpanic>>

\* A line that no driver serves goes off again.
Transient ==
  /\ \E s \in line : irqfuncs[s] = "none" /\ line' = line \ {s}
  /\ lbleft.raises > 0 /\ lbleft' = [lbleft EXCEPT !.raises = @ - 1]
  /\ UNCHANGED <<lbhw, cpuvars, slotsinuse, irqfuncs, configured, boot, intr, duds, lbpanic>>

IntrOn == boot.at \notin {"find"} /\ ~lbpanic

\* mainbus_interrupt finds the bus's bit in the cause register, which may be
\* off again when the lines are read.
lb_mainbus_interrupt ==
  /\ IntrOn /\ intr.at = "none" /\ line # {}
  /\ intr' = [intr EXCEPT !.at = "begin"]
  /\ UNCHANGED <<lbhw, cpuvars, line, slotsinuse, irqfuncs, configured, boot, duds, lbleft, lbpanic>>

Dud == duds' = duds + 1

lamebus_interrupt_begin ==
  /\ intr.at = "begin"
  /\ intr' = [at |-> "loop", irqs |-> line, slot |-> 0, seen |-> line = {}]
  /\ IF line = {} THEN Dud ELSE UNCHANGED duds
  /\ UNCHANGED <<lbhw, cpuvars, line, slotsinuse, irqfuncs, configured, boot, lbleft, lbpanic>>

\* One turn of the loop: the next slot that has its bit in irqs.
lamebus_interrupt_loop ==
  /\ intr.at = "loop" /\ intr.slot \in LbSlots
  /\ IF intr.slot \notin intr.irqs
     THEN intr' = [intr EXCEPT !.slot = @ + 1] /\ UNCHANGED duds
     ELSE IF intr.slot \notin slotsinuse \/ irqfuncs[intr.slot] = "none"
     THEN intr' = [intr EXCEPT !.slot = @ + 1, !.seen = TRUE] /\ Dud
     ELSE intr' = [intr EXCEPT !.at = "handler"] /\ UNCHANGED duds
  /\ UNCHANGED <<lbhw, cpuvars, line, slotsinuse, irqfuncs, configured, boot, lbleft, lbpanic>>

\* The driver's handler, called without ls_lock, turns its line off.
Handler ==
  /\ intr.at = "handler"
  /\ line' = line \ {intr.slot}
  /\ intr' = [intr EXCEPT !.at = "reload"]
  /\ UNCHANGED <<lbhw, cpuvars, slotsinuse, irqfuncs, configured, boot, duds, lbleft, lbpanic>>

lamebus_interrupt_reload ==
  /\ intr.at = "reload"
  /\ intr' = [intr EXCEPT !.at = "loop", !.irqs = line, !.slot = @ + 1]
  /\ UNCHANGED <<lbhw, cpuvars, line, slotsinuse, irqfuncs, configured, boot, duds, lbleft, lbpanic>>

\* Mutant: the count starts again whatever happened this time.
lamebus_interrupt_end_forget ==
  /\ intr.at = "loop" /\ intr.slot \notin LbSlots
  /\ duds' = 0
  /\ lbpanic' = (duds' > LbDuds)
  /\ intr' = [intr EXCEPT !.at = "none", !.irqs = {}, !.slot = 0, !.seen = FALSE]
  /\ UNCHANGED <<lbhw, cpuvars, line, slotsinuse, irqfuncs, configured, boot, lbleft>>

lamebus_interrupt_end ==
  /\ intr.at = "loop" /\ intr.slot \notin LbSlots
  /\ duds' = IF intr.seen THEN duds ELSE 0
  /\ lbpanic' = (duds' > LbDuds)
  /\ intr' = [intr EXCEPT !.at = "none", !.irqs = {}, !.slot = 0, !.seen = FALSE]
  /\ UNCHANGED <<lbhw, cpuvars, line, slotsinuse, irqfuncs, configured, boot, lbleft>>

----------------------------------------------------------------------------

lamebus_init ==
  /\ lbhw \in LbMachines
  /\ cpumask \in SUBSET LbCpus /\ self \in cpumask
  /\ hwnum = <<>> /\ cirqe = {} /\ cram = <<>> /\ line = {}
  /\ slotsinuse = {} /\ configured = {}
  /\ irqfuncs = [s \in LbSlots |-> "none"]
  /\ boot = [at |-> "find", drv |-> 1, slot |-> 0]
  /\ intr = [at |-> "none", irqs |-> {}, slot |-> 0, seen |-> FALSE]
  /\ duds = 0 /\ lbpanic = FALSE
  /\ lbleft = [raises |-> LbRaises, nomem |-> LbNoMem]

BootStep == lamebus_find_cpus \/ BootProbe \/ lamebus_mark \/ lamebus_attach_interrupt \/ BootConfig
              \/ (BootRuns("start") /\ lb_start_cpus)

IntrStep ==
  \/ lb_mainbus_interrupt \/ lamebus_interrupt_begin \/ lamebus_interrupt_loop \/ Handler
  \/ lamebus_interrupt_reload \/ lamebus_interrupt_end

LbNext == ~lbpanic /\ (BootStep \/ IntrStep \/ Raise \/ Transient)

\* The CPU goes on with the boot thread when no interrupt keeps it, and with the handler.
LbFairness == WF_lbvars(~lbpanic /\ BootStep) /\ WF_lbvars(~lbpanic /\ IntrStep)

LbSpec == lamebus_init /\ [][LbNext]_lbvars /\ LbFairness

----------------------------------------------------------------------------

\* A CPU that is started is told the number under which lamebus_find_cpus
\* created it, so that c_hardware_number leads lamebus_assert_ipi to it:
\* lamebus_start_cpus "assumes the boot CPU is CPU 0 and the others are 1-N".
CpuNumbersAgree == boot.at = "started" => \A c \in DOMAIN cram : cram[c] + 1 \in DOMAIN hwnum /\ hwnum[cram[c] + 1] = c

\* Once probing is done every slot whose device a driver supports is in use,
\* with that driver's handler, unless memory ran out; no slot is given to two
\* drivers and no handler is installed twice (the panics of lamebus_mark and
\* lamebus_attach_interrupt), although interrupts arrive all the time; and the
\* CPUs that were started have the numbers they were created under.
AttachedRight ==
  /\ CpuNumbersAgree
  /\ lbpanic => duds > LbDuds
  /\ boot.at \in {"start", "started"} /\ lbleft.nomem = LbNoMem =>
       \A s \in LbSlots : \A i \in 1..Len(Drivers) :
         Matches(s, Drivers[i]) =>
           /\ s \in slotsinuse \cap configured
           /\ irqfuncs[s] = IF Drivers[i].irq THEN Drivers[i].kind ELSE "none"

\* The boot thread gets on, or the kernel panics: a line that no driver can
\* turn off does not keep the CPU in lamebus_interrupt for ever ("better to
\* panic and reset than to hang").
BootsOrPanics == <>(boot.at = "started" \/ lbpanic)

============================================================================
