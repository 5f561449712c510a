------------------------------ MODULE MC_Cpus ------------------------------
(***************************************************************************)
(* The bus is probed (module Lamebus), the CPUs come up and, once          *)
(* thread_start_cpus is done, send each other IPIs (both in module Cpus).  *)
(* half says which half of booting a behaviour follows; the other half is  *)
(* done.                                                                   *)
(*                                                                         *)
(* Machines of one to three CPUs and three slots: two disks; an old disk   *)
(* and a serial port; the emulator; and cards without a driver.            *)
(* Three secondary CPUs hatch in every order.  Two of them then send up to *)
(* four IPIs of every kind to each other.                                  *)
(***************************************************************************)
EXTENDS Cpus, Lamebus, TLC

VARIABLE half

mc_vars == <<vars, ipi_vars, lbvars, half>>

Dev(k, v) == [kind |-> k, ver |-> v]
MCMachines == {
  0 :> Dev("lhd", 2) @@ 1 :> Dev("lnet", 1) @@ 2 :> Dev("lhd", 2),
  0 :> Dev("lhd", 1) @@ 1 :> Dev("lser", 1) @@ 2 :> Dev("ltrace", 3),
  0 :> Dev("lnet", 1) @@ 1 :> Dev("emu", 1) @@ 2 :> Empty}

\* The state at the end of thread_start_cpus.
CpusUp ==
  /\ S!Init
  /\ enabled = Secondary /\ hatched = Secondary
  /\ waits = 0 /\ phase = "done"

\* The state at the end of mainbus_bootstrap, on a machine with one CPU and no device.
BusUp ==
  /\ lbhw = [s \in LbSlots |-> Empty] /\ cpumask = {0} /\ self = 0
  /\ hwnum = <<0>> /\ cirqe = {0} /\ cram = <<>> /\ line = {}
  /\ slotsinuse = {} /\ configured = {} /\ irqfuncs = [s \in LbSlots |-> "none"]
  /\ boot = [at |-> "started", drv |-> Len(Drivers), slot |-> 0]
  /\ intr = [at |-> "none", irqs |-> {}, slot |-> 0, seen |-> FALSE]
  /\ duds = 0 /\ lbpanic = FALSE /\ lbleft = [raises |-> 0, nomem |-> LbNoMem]

MCInit ==
  /\ IpiInit
  /\ \/ half = "bus" /\ lamebus_init /\ CpusUp
     \/ half = "cpus" /\ BusUp /\ Init

MCNext ==
  /\ UNCHANGED half
  /\ \/ half = "bus" /\ LbNext /\ UNCHANGED <<vars, ipi_vars>>
     \/ half = "cpus" /\ CpusNext /\ UNCHANGED lbvars

MCSpec == MCInit /\ [][MCNext]_mc_vars /\ Fairness /\ IpiFairness /\ LbFairness
=============================================================================
