----------------------------- MODULE CpusProofs -----------------------------
(***************************************************************************)
(* Starting the CPUs, for any number of them: the startup semaphore is     *)
(* destroyed when nobody uses it any more.                                 *)
(***************************************************************************)
EXTENDS Cpus, FiniteSetTheorems, TLAPS

\* The CPUs that have returned from V, and whether the boot thread is in P.
Posted == {c \in Secondary : c \in hatched /\ pc[c] = "out"}
Waiting == IF pc[Boot] = "out" THEN 0 ELSE 1

\* The units of the semaphore: one for every V that has returned, less one for
\* every P.  A machine that has stopped had units to take.
Units ==
  IF panicked THEN waits > 0
  ELSE sem_count + Cardinality(Secondary) = Cardinality(Posted) + waits + Waiting

StartTypeOK ==
  /\ sem_count \in 0 .. UintMax /\ waits \in Nat
  /\ pc \in [{Boot} \cup Secondary -> {"out", "P_spin", "P_test", "asleep", "woken", "V_spin", "V_post"}]
  /\ pc[Boot] \notin {"V_spin", "V_post"}
  /\ panicked \in BOOLEAN /\ phase \in {"start", "wait", "done"}
  /\ enabled \subseteq Secondary /\ hatched \subseteq Secondary

Starting ==
  /\ \A c \in Secondary : /\ pc[c] \in {"out", "V_spin", "V_post"}
                          /\ c \notin hatched => pc[c] = "out"
  /\ sem_lock \in {NoOne} \cup {a \in {Boot} \cup Secondary : pc[a] \in {"P_test", "V_post"}}
  /\ sem_wchan = IF pc[Boot] = "asleep" THEN <<Boot>> ELSE << >>
  /\ phase = "done" => waits = 0 /\ pc[Boot] = "out"

StartIInv == StartTypeOK /\ Starting /\ Units

----------------------------------------------------------------------------

\* Unsigned arithmetic: the count goes up by one, or wraps from UintMax to 0.
LEMMA StartWraps ==
  ASSUME StartTypeOK
  PROVE  /\ S!Incremented > 0 => S!Incremented = sem_count + 1 /\ sem_count + 1 \in 0 .. UintMax
         /\ S!Incremented = 0 => sem_count = UintMax /\ UintMax > 0
         /\ S!Incremented \in 0 .. UintMax
<1>1. PICK n \in 0 .. UintMax : n = sem_count
  BY DEF StartTypeOK
<1>2. UintMax \in Nat /\ UintMax > 0
  BY CpusAssumption
<1>3. CASE n < UintMax
  <2>1. (n + 1) % (UintMax + 1) = n + 1
    BY <1>2, <1>3
  <2> QED BY <1>1, <1>2, <1>3, <2>1 DEF S!Incremented
<1>4. CASE n = UintMax
  <2>1. (n + 1) % (UintMax + 1) = 0
    BY <1>2, <1>4
  <2> QED BY <1>1, <1>2, <1>4, <2>1 DEF S!Incremented
<1> QED BY <1>1, <1>2, <1>3, <1>4

\* How many CPUs there are, and how many have returned from V.
LEMMA PostedCount ==
  ASSUME StartTypeOK
  PROVE  /\ IsFiniteSet(Posted) /\ Posted \subseteq Secondary
         /\ Cardinality(Posted) \in Nat /\ Cardinality(Secondary) \in Nat
         /\ Cardinality(Posted) <= Cardinality(Secondary)
         /\ Cardinality(Posted) = Cardinality(Secondary) => Posted = Secondary
<1>1. Posted \subseteq Secondary /\ IsFiniteSet(Secondary)
  BY CpusAssumption DEF Posted
<1> QED BY <1>1, FS_Subset, FS_CardinalityType

\* The boot thread has called no P and no CPU has been started.
LEMMA StartInit == ASSUME Init PROVE StartTypeOK /\ Starting /\ Units
<1>1. Cardinality(Secondary) \in Nat
  BY CpusAssumption, FS_CardinalityType
<1> USE CpusAssumption DEF Init, HowMany, S!Init, S!Actors
<1>2. pc = [a \in {Boot} \cup Secondary |-> "out"] /\ pc[Boot] = "out"
  OBVIOUS
<1>3. StartTypeOK
  <2>1. sem_count \in 0 .. UintMax /\ waits \in Nat
    BY <1>1
  <2>2. pc \in [{Boot} \cup Secondary -> {"out", "P_spin", "P_test", "asleep", "woken", "V_spin", "V_post"}]
    BY <1>2
  <2>3. /\ panicked \in BOOLEAN /\ phase \in {"start", "wait", "done"}
        /\ enabled \subseteq Secondary /\ hatched \subseteq Secondary
    BY Zenon
  <2> HIDE DEF Init, S!Init
  <2> QED BY <1>2, <2>1, <2>2, <2>3 DEF StartTypeOK
<1>4. Starting
  BY <1>2 DEF Starting
<1>5. Posted = {} /\ Cardinality(Posted) = 0
  BY FS_EmptySet, Zenon DEF Posted
<1>6. Units
  BY <1>1, <1>2, <1>5 DEF Units, Waiting
<1> QED BY <1>3, <1>4, <1>6

\* A step of the boot thread inside P.
LEMMA BootStep ==
  ASSUME StartTypeOK, Starting, Units, wait_P \/ wait_P_step
  PROVE  (StartTypeOK /\ Starting /\ Units)'
<1> USE CpusAssumption
<1>1. ~panicked /\ UNCHANGED <<enabled, hatched, phase, panicked>>
  BY DEF wait_P, wait_P_step, S!P_call, S!P_lock, S!P_sleep, S!P_take
<1>2. PICK l \in {"out", "P_spin", "P_test", "asleep"} : pc' = [pc EXCEPT ![Boot] = l]
  BY DEF wait_P, wait_P_step, S!P_call, S!P_lock, S!P_sleep, S!P_take, S!Goto
<1>3. pc'[Boot] = l /\ \A c \in Secondary : pc'[c] = pc[c]
  BY <1>2 DEF StartTypeOK
<1>4. Posted' = Posted
  BY <1>1, <1>3 DEF Posted
<1>5. sem_count \in Nat /\ waits \in Nat /\ Cardinality(Secondary) \in Nat /\ Cardinality(Posted) \in Nat
  BY PostedCount DEF StartTypeOK
<1>6. CASE wait_P
  <2>1. phase = "wait" /\ waits > 0 /\ pc[Boot] = "out" /\ l = "P_spin" /\ waits' = waits - 1
        /\ UNCHANGED <<sem_count, sem_wchan, sem_lock>>
    <3>1. phase = "wait" /\ waits > 0 /\ pc[Boot] = "out" /\ waits' = waits - 1
          /\ UNCHANGED <<sem_count, sem_wchan, sem_lock>> /\ pc' = [pc EXCEPT ![Boot] = "P_spin"]
      BY <1>6 DEF wait_P, S!P_call, S!At, S!Goto
    <3> QED BY <1>3, <3>1 DEF StartTypeOK
  <2>2. StartTypeOK'
    BY <1>1, <1>2, <1>3, <1>5, <2>1 DEF StartTypeOK
  <2>3. Starting'
    BY <1>1, <1>3, <2>1 DEF Starting
  <2>4. Units'
    BY <1>1, <1>3, <1>4, <1>5, <2>1 DEF Units, Waiting
  <2> QED BY <2>2, <2>3, <2>4
<1>7. CASE wait_P_step
  <2>1. pc[Boot] \in {"P_spin", "woken", "P_test"} /\ waits' = waits /\ phase # "done"
    BY <1>7 DEF wait_P_step, S!P_lock, S!P_sleep, S!P_take, S!At, Starting
  <2>2. \/ S!P_lock(Boot) /\ l = "P_test"
        \/ S!P_sleep(Boot) /\ l = "asleep"
        \/ S!P_take(Boot) /\ l = "out"
    <3>1. CASE S!P_lock(Boot)
      BY <1>3, <3>1 DEF S!P_lock, S!Goto, StartTypeOK
    <3>2. CASE S!P_sleep(Boot)
      BY <1>3, <3>2 DEF S!P_sleep, S!Goto, StartTypeOK
    <3>3. CASE S!P_take(Boot)
      BY <1>3, <3>3 DEF S!P_take, S!Goto, StartTypeOK
    <3> QED BY <1>7, <3>1, <3>2, <3>3 DEF wait_P_step
  <2>3. CASE S!P_lock(Boot) /\ l = "P_test"
    <3>1. sem_lock = NoOne /\ sem_lock' = Boot /\ UNCHANGED <<sem_count, sem_wchan>> /\ pc[Boot] # "asleep" /\ pc[Boot] # "out"
      BY <2>1, <2>3 DEF S!P_lock
    <3>2. StartTypeOK'
      BY <1>1, <1>2, <1>3, <2>1, <2>3, <3>1 DEF StartTypeOK
    <3>3. Starting'
      BY <1>1, <1>3, <2>1, <2>3, <3>1 DEF Starting
    <3>4. Units'
      BY <1>1, <1>3, <1>4, <1>5, <2>1, <2>3, <3>1 DEF Units, Waiting
    <3> QED BY <3>2, <3>3, <3>4
  <2>4. CASE S!P_sleep(Boot) /\ l = "asleep"
    <3>1. sem_lock' = NoOne /\ sem_wchan' = Append(sem_wchan, Boot) /\ sem_count' = sem_count /\ pc[Boot] = "P_test"
      BY <2>4 DEF S!P_sleep, S!At
    <3>2. StartTypeOK'
      BY <1>1, <1>2, <1>3, <2>1, <2>4, <3>1 DEF StartTypeOK
    <3>3. sem_wchan' = <<Boot>>
      BY <3>1 DEF Starting
    <3>4. Starting'
      BY <1>1, <1>3, <2>1, <2>4, <3>1, <3>3 DEF Starting
    <3>5. Units'
      BY <1>1, <1>3, <1>4, <1>5, <2>1, <2>4, <3>1 DEF Units, Waiting
    <3> QED BY <3>2, <3>4, <3>5
  <2>5. CASE S!P_take(Boot) /\ l = "out"
    <3>1. sem_lock' = NoOne /\ sem_wchan' = sem_wchan /\ sem_count # 0 /\ sem_count' = sem_count - 1 /\ pc[Boot] = "P_test"
      BY <2>5 DEF S!P_take, S!At
    <3>2. StartTypeOK'
      <4>1. sem_count' \in 0 .. UintMax
        BY <1>5, <3>1 DEF StartTypeOK
      <4> QED BY <1>1, <1>2, <1>3, <2>1, <2>5, <4>1 DEF StartTypeOK
    <3>3. Starting'
      BY <1>1, <1>3, <2>1, <2>5, <3>1 DEF Starting
    <3>4. Units'
      BY <1>1, <1>3, <1>4, <1>5, <2>1, <2>5, <3>1 DEF Units, Waiting
    <3> QED BY <3>2, <3>3, <3>4
  <2> QED BY <2>2, <2>3, <2>4, <2>5
<1> QED BY <1>6, <1>7

\* A step of a CPU that comes up.
LEMMA HatchStep ==
  ASSUME StartTypeOK, Starting, Units, NEW c \in Secondary, cpu_hatch(c) \/ hatch_V(c)
  PROVE  (StartTypeOK /\ Starting /\ Units)'
<1> USE CpusAssumption
<1>1. ~panicked /\ UNCHANGED <<enabled, waits, phase>> /\ c # Boot
  BY DEF cpu_hatch, hatch_V, S!V_call, S!V_lock, S!V_post, S!V_overflow
<1>2. /\ sem_count \in 0 .. UintMax /\ sem_count \in Nat /\ waits \in Nat /\ UintMax \in Nat
      /\ Cardinality(Secondary) \in Nat /\ Cardinality(Posted) \in Nat
      /\ sem_count + Cardinality(Secondary) = Cardinality(Posted) + waits + Waiting /\ Waiting \in {0, 1}
  BY <1>1, PostedCount DEF StartTypeOK, Units, Waiting
<1>3. phase # "done"
  <2>1. pc[c] # "out" \/ c \notin hatched
    BY DEF cpu_hatch, hatch_V, S!V_call, S!V_lock, S!V_post, S!V_overflow, S!At
  <2>2. c \notin Posted
    BY <2>1 DEF Posted
  <2>3. Cardinality(Posted) # Cardinality(Secondary) /\ Cardinality(Posted) <= Cardinality(Secondary)
    BY <2>2, PostedCount
  <2>4. ASSUME phase = "done" PROVE FALSE
    <3>1. waits = 0 /\ Waiting = 0
      BY <2>4 DEF Starting, Waiting
    <3> QED BY <1>2, <2>3, <3>1
  <2> QED BY <2>4
<1>4. CASE cpu_hatch(c) \/ S!V_lock(c)
  <2>1. PICK l \in {"V_spin", "V_post"} :
          /\ pc' = [pc EXCEPT ![c] = l] /\ UNCHANGED <<sem_count, sem_wchan, panicked>>
          /\ hatched' \in {hatched, hatched \cup {c}} /\ c \in hatched'
          /\ sem_lock' = IF l = "V_post" THEN c ELSE sem_lock
          /\ l = "V_post" => sem_lock = NoOne
          /\ pc[c] # "out" \/ c \notin hatched
          /\ pc[c] # "V_post"
    <3>1. CASE cpu_hatch(c)
      BY <3>1 DEF cpu_hatch, S!V_call, S!Goto, S!At
    <3>2. CASE S!V_lock(c)
      <4>1. hatched' = hatched /\ c \in hatched
        BY <1>1, <3>2 DEF cpu_hatch, hatch_V, S!V_call, S!V_lock, S!At, Starting
      <4> QED BY <3>2, <4>1 DEF S!V_lock, S!Goto, S!At
    <3> QED BY <1>4, <3>1, <3>2
  <2>2. pc'[c] = l /\ \A a \in {Boot} \cup Secondary : a # c => pc'[a] = pc[a]
    BY <2>1 DEF StartTypeOK
  <2>3. Posted' = Posted
    BY <2>1, <2>2 DEF Posted
  <2>4. StartTypeOK'
    BY <1>1, <2>1, <2>2 DEF StartTypeOK
  <2>5. Starting'
    BY <1>1, <1>3, <2>1, <2>2 DEF Starting
  <2>6. Waiting' = Waiting
    BY <1>1, <2>2 DEF Waiting
  <2>7. Units'
    BY <1>1, <1>2, <2>1, <2>3, <2>6 DEF Units
  <2> QED BY <2>4, <2>5, <2>7
<1>5. CASE S!V_post(c)
  <2>1. /\ pc[c] = "V_post" /\ sem_lock' = NoOne /\ panicked' = panicked /\ S!WakeOne(c)
        /\ sem_count' = sem_count + 1 /\ sem_count + 1 \in 0 .. UintMax /\ c \in hatched
    BY <1>5, StartWraps DEF S!V_post, S!At, Starting
  <2>0. hatched' = hatched
    BY <2>1 DEF cpu_hatch, hatch_V, S!V_call, S!At
  <2>2. /\ pc'[c] = "out" /\ (\A a \in Secondary : a # c => pc'[a] = pc[a])
        /\ pc'[Boot] = (IF pc[Boot] = "asleep" THEN "woken" ELSE pc[Boot])
        /\ sem_wchan' = << >>
        /\ pc' \in [{Boot} \cup Secondary -> {"out", "P_spin", "P_test", "asleep", "woken", "V_spin", "V_post"}]
    <3>1. CASE pc[Boot] = "asleep"
      <4>1. sem_wchan = <<Boot>>
        BY <3>1 DEF Starting
      <4>2. sem_wchan # << >> /\ Head(sem_wchan) = Boot /\ Tail(sem_wchan) = << >>
        BY <4>1
      <4>3. pc' = [pc EXCEPT ![c] = "out", ![Boot] = "woken"] /\ sem_wchan' = << >>
        BY <2>1, <4>2, Zenon DEF S!WakeOne
      <4> QED BY <1>1, <3>1, <4>3 DEF StartTypeOK
    <3>2. CASE pc[Boot] # "asleep"
      <4>1. pc' = [pc EXCEPT ![c] = "out"] /\ sem_wchan' = << >>
        BY <2>1, <3>2 DEF S!WakeOne, S!Goto, Starting
      <4> QED BY <1>1, <3>2, <4>1 DEF StartTypeOK
    <3> QED BY <3>1, <3>2
  <2>3. Posted' = Posted \cup {c} /\ c \notin Posted
    BY <2>0, <2>1, <2>2 DEF Posted
  <2>4. Cardinality(Posted') = Cardinality(Posted) + 1
    BY <2>3, PostedCount, FS_AddElement, Zenon
  <2>5. Waiting' = Waiting
    BY <2>2 DEF Waiting
  <2>6. StartTypeOK'
    BY <1>1, <2>0, <2>1, <2>2 DEF StartTypeOK
  <2>7. Starting'
    BY <1>1, <1>3, <2>0, <2>1, <2>2 DEF Starting
  <2>8. Units'
    BY <1>1, <1>2, <2>1, <2>4, <2>5 DEF Units
  <2> QED BY <2>6, <2>7, <2>8
<1>6. CASE S!V_overflow(c)
  <2>1. /\ pc[c] = "V_post" /\ panicked' = TRUE /\ UNCHANGED <<sem_wchan, sem_lock, pc>>
        /\ sem_count' \in 0 .. UintMax /\ sem_count = UintMax /\ UintMax > 0
    BY <1>6, StartWraps DEF S!V_overflow, S!At
  <2>2. hatched' = hatched
    BY <2>1 DEF cpu_hatch, hatch_V, S!V_call, S!At
  <2>3. c \notin Posted
    BY <2>1 DEF Posted
  <2>4. Cardinality(Posted) # Cardinality(Secondary) /\ Cardinality(Posted) <= Cardinality(Secondary)
    BY <2>3, PostedCount
  <2>5. waits > 0
    BY <1>2, <2>1, <2>4
  <2>6. StartTypeOK' /\ Starting'
    BY <1>1, <2>1, <2>2 DEF StartTypeOK, Starting
  <2> QED BY <1>1, <2>1, <2>5, <2>6 DEF Units
<1> QED BY <1>4, <1>5, <1>6 DEF hatch_V

\* lamebus_start_cpus and sem_destroy.
LEMMA PhaseStep ==
  ASSUME StartTypeOK, Starting, Units, lamebus_start_cpus \/ sem_destroy
  PROVE  (StartTypeOK /\ Starting /\ Units)'
<1>1. /\ UNCHANGED <<sem_count, sem_wchan, sem_lock, pc, panicked, hatched, waits>>
      /\ enabled' \in {enabled, Secondary} /\ phase' \in {"wait", "done"}
      /\ phase' = "done" => waits = 0 /\ pc[Boot] = "out"
  BY DEF lamebus_start_cpus, sem_destroy, sem
<1>2. StartTypeOK'
  BY <1>1 DEF StartTypeOK
<1>3. Starting'
  BY <1>1 DEF Starting
<1>4. Units'
  BY <1>1 DEF Units, Posted, Waiting
<1> QED BY <1>2, <1>3, <1>4

----------------------------------------------------------------------------

\* Every step of a machine that starts its CPUs keeps the invariant.
LEMMA StartNextIInv == StartIInv /\ [Next]_vars => StartIInv'
<1> SUFFICES ASSUME StartIInv, [Next]_vars PROVE StartIInv'
  OBVIOUS
<1>1. CASE UNCHANGED vars
  BY <1>1 DEF StartIInv, vars, sem, StartTypeOK, Starting, Units, Posted, Waiting
<1>2. CASE Next
  BY <1>2, BootStep, HatchStep, PhaseStep, Zenon DEF StartIInv, Next, Boots
<1> QED BY <1>1, <1>2

\* thread_start_cpus destroys the startup semaphore when every CPU has called V
\* and left it.
THEOREM StartupSemaphoreSafe == Spec => []NobodyInsideDestroyed
<1>1. Init => StartIInv
  BY StartInit DEF StartIInv
<1>2. StartIInv => NobodyInsideDestroyed
  <2> SUFFICES ASSUME StartIInv, phase = "done"
               PROVE  /\ hatched = Secondary
                      /\ \A a \in {Boot} \cup Secondary : pc[a] = "out"
                      /\ sem_lock = NoOne /\ sem_wchan = << >>
    BY DEF NobodyInsideDestroyed, StartIInv
  <2>1. waits = 0 /\ pc[Boot] = "out" /\ Waiting = 0 /\ ~panicked
    BY DEF StartIInv, Starting, Units, Waiting, StartTypeOK
  <2>2. sem_count \in Nat /\ sem_count + Cardinality(Secondary) = Cardinality(Posted)
    <3>1. sem_count + Cardinality(Secondary) = Cardinality(Posted) + 0 + 0 /\ Cardinality(Posted) \in Nat
      BY <2>1, PostedCount DEF StartIInv, Units
    <3> QED BY <3>1, CpusAssumption DEF StartIInv, StartTypeOK
  <2>3. Posted = Secondary
    <3>1. Cardinality(Posted) = Cardinality(Secondary)
      BY <2>2, PostedCount DEF StartIInv
    <3> QED BY <3>1, PostedCount DEF StartIInv
  <2> QED BY <2>1, <2>3, Zenon DEF Posted, StartIInv, StartTypeOK, Starting
<1> QED BY <1>1, <1>2, StartNextIInv, PTL DEF Spec

============================================================================
