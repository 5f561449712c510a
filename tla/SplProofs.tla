----------------------------- MODULE SplProofs ------------------------------
(***************************************************************************)
(* For any number of CPUs, threads and spinlocks, and any depth of nested  *)
(* exceptions and interrupts: interrupts are on exactly when a thread has  *)
(* no reason for them to be off.                                           *)
(*                                                                         *)
(* The steps a thread takes by itself are splhigh and splx, spinlocks,     *)
(* interrupts and exceptions, and leaving the CPU in thread_switch; the    *)
(* others switch threads.                                                  *)
(***************************************************************************)
EXTENDS SplLemmas

-----------------------------------------------------------------------------
(* The steps a thread takes by itself                                      *)

\* s = splhigh()
LEMMA SplhighIInv == ASSUME Counting, SplIInv, NEW c \in SplCpus, splhigh(c) PROVE SplIInv'
<1> DEFINE t == curthread[c]
           f == [kind |-> "spl", spl |-> t_curspl[t]]
           g == splx(State(c, t), 1)
<1>1. /\ t \in SplThreads /\ t_curspl[t] \in {0, 1} /\ t_iplhigh_count[t] \in Int
      /\ c_spinlocks[c] \in Nat /\ iec[c] \in BOOLEAN /\ Counts(c) /\ Records(t) /\ SplTypeOK
  BY Now, Zenon DEF SplIInv
<1>2. /\ spl_pc[c] = "run" /\ ~panicked /\ SetState(c, t, g)
      /\ frames' = [frames EXCEPT ![t] = Append(@, f)]
      /\ UNCHANGED <<sched_vars, lock_vars, t_in_interrupt, spl_pc, panicked>>
  BY DEF splhigh, SplAt, spl_cur, IPL_HIGH, Push
<1>3. Reads(g, 1, t_iplhigh_count[t] + 1 - t_curspl[t], iec[c] /\ (t_curspl[t] = 1 \/ t_iplhigh_count[t] # 0))
  BY <1>1, StateSays, SplxSays
<1>4. f \in Frame /\ f.kind = "spl" /\ Enters(frames[t], f) /\ After(f) = 1
  BY <1>1, Zenon DEF Frame, Before, After, Enters, Records
<1> HIDE DEF f, g
<1>5. /\ frames' \in [SplThreads -> Seq(Frame)] /\ (\A u \in SplThreads \ {t} : frames'[u] = frames[u])
      /\ frames'[t] = Append(frames[t], f) /\ Stacked(frames'[t]) /\ Level(frames'[t]) = 1
      /\ (Has(frames'[t], "irq") <=> Has(frames[t], "irq")) /\ Depth(t)' = Depth(t)
  BY <1>1, <1>2, <1>4, PushesOwn, Zenon DEF sched_vars
<1>6. OthersKept(c)
  BY <1>1, <1>2, <1>5 DEF OthersKept, SetState, sched_vars, lock_vars, SplTypeOK
<1>7. SplTypeOK'
  BY <1>1, <1>2, <1>3, <1>5 DEF SplTypeOK, SetState, Reads, SplState, sched_vars, lock_vars
<1>8. LocksRight' /\ \A d \in SplCpus : LocksOf(d)' = LocksOf(d)
  BY <1>2, <1>5, <1>6, LocksKept DEF sched_vars, lock_vars
<1>9. t_curspl'[t] = 1 /\ t_iplhigh_count'[t] = g.high /\ iec'[c] = g.ie
  BY <1>1, <1>2, <1>3 DEF SetState, Reads, SplTypeOK
<1>10. Counts(c)'
  <2>1. t_iplhigh_count[t] = t_curspl[t] + c_spinlocks[c] /\ (iec[c] <=> t_iplhigh_count[t] = 0)
    BY <1>1, <1>2, Zenon DEF Counts
  <2>2. t_iplhigh_count'[t] = t_curspl'[t] + c_spinlocks[c] /\ t_iplhigh_count'[t] # 0
    BY <1>1, <1>3, <1>9, <2>1 DEF Reads
  <2>3. ~(iec[c] /\ (t_curspl[t] = 1 \/ t_iplhigh_count[t] # 0))
    BY <1>1, <2>1
  <2>4. ~iec'[c]
    BY <1>3, <1>9, <2>3 DEF Reads
  <2> QED BY <1>1, <1>2, <1>8, <2>2, <2>4 DEF Counts, sched_vars, lock_vars
<1>11. Place(c, frames[curthread[c]])'
  BY <1>2, <1>4, <1>5, PlacePushed, Zenon DEF sched_vars
<1>12. Records(curthread[c])'
  BY <1>1, <1>2, <1>5, <1>9, Zenon DEF Records, sched_vars
<1> QED BY <1>2, <1>6, <1>7, <1>8, <1>10, <1>11, <1>12, Local, Zenon DEF sched_vars, SplIInv, Apart

\* splx(s)
LEMMA SplxCallIInv == ASSUME Counting, SplIInv, NEW c \in SplCpus, splx_call(c) PROVE SplIInv'
<1> DEFINE t == curthread[c]
           f == Top(t)
           g == splx(State(c, t), f.spl)
<1>1. /\ t \in SplThreads /\ t_curspl[t] \in {0, 1} /\ t_iplhigh_count[t] \in Int
      /\ c_spinlocks[c] \in Nat /\ iec[c] \in BOOLEAN /\ Counts(c) /\ Records(t) /\ SplTypeOK
  BY Now, Zenon DEF SplIInv
<1>2. /\ spl_pc[c] = "run" /\ ~panicked /\ frames[t] # << >> /\ f.kind = "spl" /\ SetState(c, t, g)
      /\ frames' = [frames EXCEPT ![t] = SubSeq(@, 1, Len(@) - 1)]
      /\ UNCHANGED <<sched_vars, lock_vars, t_in_interrupt, spl_pc, panicked>>
  BY DEF splx_call, SplAt, spl_cur, InFrame, Pop
<1>3. /\ frames' \in [SplThreads -> Seq(Frame)] /\ f \in Frame
      /\ (\A u \in SplThreads \ {t} : frames'[u] = frames[u])
      /\ frames'[t] = SubSeq(frames[t], 1, Len(frames[t]) - 1) /\ Stacked(frames'[t])
      /\ Level(frames[t]) = After(f) /\ Level(frames'[t]) = Before(f)
      /\ (Has(frames'[t], "irq") <=> Has(frames[t], "irq")) /\ Depth(t)' = Depth(t)
  <2>1. /\ \A k : Has(frames[t], k) <=> Has(frames'[t], k) \/ f.kind = k
        /\ f.kind \notin {"irq", "trap"} => Depth(t)' = Depth(t)
    BY <1>1, <1>2, PopsOwn, Zenon DEF sched_vars
  <2>2. (Has(frames'[t], "irq") <=> Has(frames[t], "irq")) /\ Depth(t)' = Depth(t)
    BY <1>2, <2>1, Zenon
  <2> QED BY <1>1, <1>2, <2>2, PopsOwn, Zenon
<1>4. f.spl \in {0, 1} /\ t_curspl[t] = 1 /\ Level(frames'[t]) = f.spl
  BY <1>1, <1>2, <1>3, FrameSays, Zenon DEF Records, After, Before
<1>5. Reads(g, f.spl, t_iplhigh_count[t] - 1 + f.spl, iec[c] \/ (f.spl = 0 /\ t_iplhigh_count[t] = 1))
  <2>1. /\ State(c, t) \in SplState /\ State(c, t).spl = 1
        /\ State(c, t).high = t_iplhigh_count[t] /\ State(c, t).ie = iec[c]
    BY <1>1, <1>4, StateSays
  <2>2. CASE f.spl = 1
    <3>1. Reads(splx(State(c, t), 1), 1, t_iplhigh_count[t] + 1 - 1, iec[c] /\ (1 = 1 \/ t_iplhigh_count[t] # 0))
      BY <2>1, SplxSays, Zenon
    <3> QED BY <1>1, <2>2, <3>1 DEF Reads
  <2>3. CASE f.spl = 0
    <3>1. Reads(splx(State(c, t), 0), 0, t_iplhigh_count[t] - 1, iec[c] \/ (1 = 1 /\ t_iplhigh_count[t] = 1))
      BY <2>1, SplxSays
    <3> QED BY <1>1, <2>3, <3>1 DEF Reads
  <2> QED BY <1>4, <2>2, <2>3, Zenon
<1> HIDE DEF f, g
<1>6. OthersKept(c)
  BY <1>1, <1>2, <1>3 DEF OthersKept, SetState, sched_vars, lock_vars, SplTypeOK
<1>7. SplTypeOK'
  BY <1>1, <1>2, <1>3, <1>5 DEF SplTypeOK, SetState, Reads, SplState, sched_vars, lock_vars
<1>8. LocksRight' /\ \A d \in SplCpus : LocksOf(d)' = LocksOf(d)
  BY <1>2, <1>3, <1>6, LocksKept, Zenon DEF sched_vars, lock_vars
<1>9. t_curspl'[t] = f.spl /\ t_iplhigh_count'[t] = g.high /\ iec'[c] = g.ie
  BY <1>1, <1>2, <1>5 DEF SetState, Reads, SplTypeOK
<1>10. Counts(c)'
  <2>1. t_iplhigh_count[t] = 1 + c_spinlocks[c] /\ ~iec[c]
    BY <1>1, <1>2, <1>4 DEF Counts
  <2>2. t_iplhigh_count'[t] = t_curspl'[t] + c_spinlocks[c]
    BY <1>1, <1>4, <1>5, <1>9, <2>1 DEF Reads
  <2>3. f.spl = 0 /\ t_iplhigh_count[t] = 1 <=> t_iplhigh_count'[t] = 0
    BY <1>1, <1>4, <1>9, <2>1, <2>2
  <2>4. iec'[c] <=> t_iplhigh_count'[t] = 0
    BY <1>5, <1>9, <2>1, <2>3 DEF Reads
  <2> QED BY <1>1, <1>2, <1>8, <2>2, <2>4, Zenon DEF Counts, sched_vars, lock_vars
<1>11. Place(c, frames[curthread[c]])'
  BY <1>2, <1>3, PlacePopped, Zenon DEF sched_vars, lock_vars, f
<1>12. Records(curthread[c])'
  BY <1>1, <1>2, <1>3, <1>4, <1>9, Zenon DEF Records, sched_vars
<1> QED BY <1>2, <1>6, <1>7, <1>8, <1>10, <1>11, <1>12, Local, Zenon DEF sched_vars, SplIInv, Apart

\* spinlock_acquire, until it spins: the CPU does not hold the spinlock.
LEMMA AcquireIInv == ASSUME Counting, SplIInv, NEW c \in SplCpus, spinlock_acquire(c) PROVE SplIInv'
<1> DEFINE t == curthread[c]
           g == splraise(State(c, t))
<1>1. /\ t \in SplThreads /\ t_curspl[t] \in {0, 1} /\ t_iplhigh_count[t] \in Int /\ Place(c, frames[t])
      /\ c_spinlocks[c] \in Nat /\ iec[c] \in BOOLEAN /\ Counts(c) /\ Records(t) /\ SplTypeOK
      /\ Held(t) = LocksOf(c)
  BY Now, Zenon DEF SplIInv
<1>2. PICK l \in Locks :
         /\ spl_pc[c] = "run" /\ ~panicked /\ (\A k \in Held(t) : k < l) /\ SetState(c, t, g)
         /\ c_spinlocks' = [c_spinlocks EXCEPT ![c] = @ + 1]
         /\ want' = [want EXCEPT ![c] = l]
         /\ panicked' = (splk_holder[l] = c)
         /\ spl_pc' = [spl_pc EXCEPT ![c] = "spin"]
         /\ UNCHANGED <<sched_vars, splk_holder, taker, t_in_interrupt, frames>>
  BY Zenon DEF spinlock_acquire, SplAt, spl_cur, SplGoto
<1>3. Reads(g, t_curspl[t], t_iplhigh_count[t] + 1, iec[c] /\ t_iplhigh_count[t] # 0)
  BY <1>1, StateSays, RaiseLower
<1> HIDE DEF g
<1>4. ~panicked'
  <2>1. l \in Int
    BY SplAssumption DEF Locks
  <2>2. l \notin Held(t)
    BY <1>2, <2>1
  <2> QED BY <1>1, <1>2, <2>2, Zenon DEF LocksOf
<1>5. OthersKept(c)
  BY <1>1, <1>2 DEF OthersKept, SetState, sched_vars, SplTypeOK
<1>6. SplTypeOK'
  <2>1. l \in 0 .. NumLocks /\ c_spinlocks[c] + 1 \in Int
    BY <1>1, SplAssumption DEF Locks
  <2> QED BY <1>1, <1>2, <1>3, <2>1 DEF SplTypeOK, SetState, Reads, SplState, sched_vars, Pcs
<1>7. Depth(t)' = Depth(t)
  BY <1>2 DEF Depth, sched_vars
<1>8. LocksRight' /\ \A d \in SplCpus : LocksOf(d)' = LocksOf(d)
  BY <1>2, <1>5, <1>7, LocksKept DEF sched_vars
<1>9. /\ t_curspl'[t] = t_curspl[t] /\ t_iplhigh_count'[t] = t_iplhigh_count[t] + 1 /\ iec'[c] = g.ie
      /\ c_spinlocks'[c] = c_spinlocks[c] + 1 /\ want'[c] = l /\ spl_pc'[c] = "spin" /\ t' = t
  BY <1>1, <1>2, <1>3 DEF SetState, Reads, SplTypeOK, sched_vars
<1>10. Counts(c)'
  <2>1. /\ t_iplhigh_count[t] = t_curspl[t] + c_spinlocks[c] /\ (iec[c] <=> t_iplhigh_count[t] = 0)
        /\ c_spinlocks[c] = Cardinality(LocksOf(c)) + 0
    BY <1>1, <1>2 DEF Counts, One
  <2>2. ~iec'[c]
    BY <1>3, <1>9, <2>1, Zenon DEF Reads
  <2>3. c_spinlocks'[c] = Cardinality(LocksOf(c)) + 1 /\ t_iplhigh_count'[t] = t_curspl'[t] + c_spinlocks'[c]
    BY <1>1, <1>9, <2>1, LocksCounted
  <2> QED BY <1>8, <1>9, <2>2, <2>3, Zenon DEF Counts, One
<1>11. Place(c, frames[curthread[c]])'
  BY <1>1, <1>2, <1>9, Zenon DEF Place, sched_vars, Switching
<1>12. Records(curthread[c])'
  BY <1>1, <1>2, <1>9, Zenon DEF Records
<1> QED BY <1>2, <1>4, <1>5, <1>6, <1>8, <1>10, <1>11, <1>12, Local, Zenon DEF sched_vars, SplIInv, Apart

\* spinlock_acquire gets its spinlock.
LEMMA GotIInv == ASSUME Counting, SplIInv, NEW c \in SplCpus, spinlock_got(c) PROVE SplIInv'
<1> DEFINE t == curthread[c]
<1>1. /\ t \in SplThreads /\ t_curspl[t] \in {0, 1} /\ t_iplhigh_count[t] \in Int /\ Place(c, frames[t])
      /\ c_spinlocks[c] \in Nat /\ iec[c] \in BOOLEAN /\ Counts(c) /\ Records(t) /\ SplTypeOK
      /\ Len(frames[t]) \in Nat /\ c # Nobody /\ Nobody \notin SplCpus
  BY Now, SplAssumption, Zenon DEF SplIInv
<1>2. PICK w \in Locks : w = want[c]
  BY <1>1 DEF Counts, spinlock_got, SplAt
<1>3. /\ spl_pc[c] = "spin" /\ ~panicked /\ splk_holder[w] = Nobody
      /\ splk_holder' = [splk_holder EXCEPT ![w] = c]
      /\ taker' = [taker EXCEPT ![w] = <<t, Depth(t)>>]
      /\ want' = [want EXCEPT ![c] = 0]
      /\ spl_pc' = [spl_pc EXCEPT ![c] = "run"]
      /\ UNCHANGED <<sched_vars, ipl_vars, c_spinlocks, t_in_interrupt, frames, panicked>>
  BY <1>2 DEF spinlock_got, SplAt, spl_cur, SplGoto
<1>4. /\ splk_holder'[w] = c /\ taker'[w] = <<t, Depth(t)>> /\ spl_pc'[c] = "run"
      /\ \A l \in Locks \ {w} : splk_holder'[l] = splk_holder[l] /\ taker'[l] = taker[l]
      /\ t' = t
  BY <1>1, <1>2, <1>3 DEF SplTypeOK, sched_vars
<1>5. OthersKept(c)
  BY <1>1, <1>3 DEF OthersKept, ipl_vars, sched_vars, SplTypeOK
<1>6. SplTypeOK'
  <2>1. <<t, Depth(t)>> \in (SplThreads \cup {Nobody}) \X Nat
    BY <1>1, DepthType
  <2>2. 0 \in 0 .. NumLocks /\ "run" \in Pcs
    BY SplAssumption DEF Pcs
  <2>3. taker' \in [Locks -> (SplThreads \cup {Nobody}) \X Nat]
    BY <1>1, <1>3, <2>1, Zenon DEF SplTypeOK
  <2>4. splk_holder' \in [Locks -> SplCpus \cup {Nobody}]
    BY <1>1, <1>3 DEF SplTypeOK
  <2> QED BY <1>1, <1>3, <2>2, <2>3, <2>4 DEF SplTypeOK, ipl_vars, sched_vars
<1>7. LocksRight'
  <2>1. \A u : Depth(u)' = Depth(u)
    BY <1>3, Zenon DEF Depth
  <2>2. \A l \in Locks \ {w} : taker'[l] = IF splk_holder'[l] = Nobody THEN <<Nobody, 0>>
                                           ELSE <<curthread'[splk_holder'[l]], Depth(curthread[splk_holder[l]])'>>
    BY <1>3, <1>4, <2>1, Zenon DEF SplIInv, LocksRight, sched_vars
  <2>3. taker'[w] = <<curthread'[splk_holder'[w]], Depth(curthread[splk_holder[w]])'>>
    BY <1>1, <1>3, <1>4, <2>1, Zenon DEF sched_vars
  <2> QED BY <1>1, <1>4, <2>2, <2>3, Zenon DEF LocksRight
<1>8. \A d \in SplCpus \ {c} : LocksOf(d)' = LocksOf(d)
  BY <1>1, <1>2, <1>3, <1>4, Zenon DEF LocksOf
<1>9. LocksOf(c)' = LocksOf(c) \cup {w} /\ w \notin LocksOf(c)
  BY <1>1, <1>2, <1>3, <1>4, Zenon DEF LocksOf
<1>10. Counts(c)'
  <2>1. Cardinality(LocksOf(c)') = Cardinality(LocksOf(c)) + 1 /\ Cardinality(LocksOf(c)) \in Nat
    BY <1>1, <1>9, LocksCounted, LockCounted, Zenon
  <2>2. /\ t_iplhigh_count[t] = t_curspl[t] + c_spinlocks[c] /\ ~iec[c]
        /\ c_spinlocks[c] = Cardinality(LocksOf(c)) + 1
    BY <1>1, <1>3, Zenon DEF Counts, One
  <2>3. c_spinlocks[c] = Cardinality(LocksOf(c)') + 0 /\ t_iplhigh_count[t] # 0
    BY <1>1, <2>1, <2>2
  <2> QED BY <1>1, <1>3, <1>4, <2>2, <2>3, Zenon DEF Counts, One, ipl_vars, sched_vars
<1>11. Place(c, frames[curthread[c]])'
  BY <1>1, <1>3, <1>4, Zenon DEF Place, sched_vars, Switching
<1>12. Records(curthread[c])'
  BY <1>1, <1>3, <1>4, Zenon DEF Records, ipl_vars
<1> QED BY <1>3, <1>5, <1>6, <1>7, <1>8, <1>10, <1>11, <1>12, Local, Zenon DEF sched_vars, SplIInv, Apart

\* spinlock_release: the CPU holds the spinlock.
LEMMA ReleaseIInv == ASSUME Counting, SplIInv, NEW c \in SplCpus, spinlock_release(c) PROVE SplIInv'
<1> DEFINE t == curthread[c]
           g == spllower(State(c, t))
<1>1. /\ t \in SplThreads /\ t_curspl[t] \in {0, 1} /\ t_iplhigh_count[t] \in Int /\ Place(c, frames[t])
      /\ c_spinlocks[c] \in Nat /\ iec[c] \in BOOLEAN /\ Counts(c) /\ Records(t) /\ SplTypeOK
      /\ Held(t) = LocksOf(c) /\ c # Nobody /\ Nobody \notin SplCpus
  BY Now, SplAssumption, Zenon DEF SplIInv
<1>2. PICK w \in LocksOf(c) :
         /\ spl_pc[c] = "run"
         /\ panicked' = (splk_holder[w] # c \/ c_spinlocks[c] = 0)
         /\ c_spinlocks' = [c_spinlocks EXCEPT ![c] = @ - 1]
         /\ splk_holder' = [splk_holder EXCEPT ![w] = Nobody]
         /\ taker' = [taker EXCEPT ![w] = <<Nobody, 0>>]
         /\ SetState(c, t, g)
         /\ UNCHANGED <<sched_vars, want, t_in_interrupt, frames, spl_pc>>
  BY <1>1, Zenon DEF spinlock_release, SplAt, spl_cur
<1>3. Reads(g, t_curspl[t], t_iplhigh_count[t] - 1, iec[c] \/ t_iplhigh_count[t] = 1)
  BY <1>1, StateSays, RaiseLower
<1> HIDE DEF g
<1>4. w \in Locks /\ splk_holder[w] = c
  BY <1>2, Zenon DEF LocksOf
<1>5. /\ splk_holder'[w] = Nobody /\ taker'[w] = <<Nobody, 0>> /\ c_spinlocks'[c] = c_spinlocks[c] - 1
      /\ \A l \in Locks \ {w} : splk_holder'[l] = splk_holder[l] /\ taker'[l] = taker[l]
      /\ t' = t /\ t_curspl'[t] = t_curspl[t] /\ t_iplhigh_count'[t] = t_iplhigh_count[t] - 1 /\ iec'[c] = g.ie
  BY <1>1, <1>2, <1>3, <1>4 DEF SplTypeOK, sched_vars, SetState, Reads
<1>6. OthersKept(c)
  BY <1>1, <1>2 DEF OthersKept, sched_vars, SplTypeOK, SetState
<1>7. SplTypeOK'
  <2>1. <<Nobody, 0>> \in (SplThreads \cup {Nobody}) \X Nat /\ c_spinlocks[c] - 1 \in Int
    BY <1>1
  <2>2. taker' \in [Locks -> (SplThreads \cup {Nobody}) \X Nat]
    BY <1>1, <1>2, <2>1, Zenon DEF SplTypeOK
  <2>3. splk_holder' \in [Locks -> SplCpus \cup {Nobody}]
    BY <1>1, <1>2, Zenon DEF SplTypeOK
  <2> QED BY <1>1, <1>2, <1>3, <2>1, <2>2, <2>3 DEF SplTypeOK, sched_vars, SetState, Reads, SplState
<1>8. LocksRight'
  <2>1. \A u : Depth(u)' = Depth(u)
    BY <1>2, Zenon DEF Depth
  <2>2. \A l \in Locks \ {w} : taker'[l] = IF splk_holder'[l] = Nobody THEN <<Nobody, 0>>
                                           ELSE <<curthread'[splk_holder'[l]], Depth(curthread[splk_holder[l]])'>>
    BY <1>2, <1>5, <2>1, Zenon DEF SplIInv, LocksRight, sched_vars
  <2> QED BY <1>5, <2>2, Zenon DEF LocksRight
<1>9. \A d \in SplCpus \ {c} : LocksOf(d)' = LocksOf(d)
  BY <1>1, <1>4, <1>5, Zenon DEF LocksOf
<1>10. LocksOf(c)' = LocksOf(c) \ {w}
  BY <1>1, <1>4, <1>5, Zenon DEF LocksOf
<1>11. Counts(c)' /\ ~panicked'
  <2>1. Cardinality(LocksOf(c)') = Cardinality(LocksOf(c)) - 1 /\ Cardinality(LocksOf(c)) \in Nat \ {0}
    BY <1>2, <1>10, LocksCounted, LockCounted, Zenon
  <2>2. /\ t_iplhigh_count[t] = t_curspl[t] + c_spinlocks[c] /\ (iec[c] <=> t_iplhigh_count[t] = 0)
        /\ c_spinlocks[c] = Cardinality(LocksOf(c)) + 0
    BY <1>1, <1>2, Zenon DEF Counts, One
  <2>3. /\ c_spinlocks'[c] = Cardinality(LocksOf(c)') + 0 /\ t_iplhigh_count[t] # 0 /\ c_spinlocks[c] # 0
        /\ t_iplhigh_count'[t] = t_curspl'[t] + c_spinlocks'[c]
        /\ (t_iplhigh_count[t] = 1 <=> t_iplhigh_count'[t] = 0)
    <3>1. t_curspl[t] \in {0, 1} /\ c_spinlocks'[c] = c_spinlocks[c] - 1 /\ t_curspl'[t] = t_curspl[t]
          /\ t_iplhigh_count'[t] = t_iplhigh_count[t] - 1
      BY <1>1, <1>5, Zenon
    <3> QED BY <2>1, <2>2, <3>1
  <2>4. iec'[c] <=> t_iplhigh_count'[t] = 0
    BY <1>3, <1>5, <2>2, <2>3 DEF Reads
  <2> QED BY <1>2, <1>4, <1>5, <2>3, <2>4, Zenon DEF Counts, One
<1>12. Place(c, frames[curthread[c]])'
  BY <1>1, <1>2, <1>5, Zenon DEF Place, sched_vars, Switching
<1>13. Records(curthread[c])'
  BY <1>1, <1>2, <1>5, Zenon DEF Records
<1> QED BY <1>2, <1>6, <1>7, <1>8, <1>9, <1>11, <1>12, <1>13, Local, Zenon DEF sched_vars, SplIInv, Apart

\* mips_trap, for an interrupt: none comes while there is a reason against it.
LEMMA InterruptIInv == ASSUME Counting, SplIInv, NEW c \in SplCpus, interrupt(c) PROVE SplIInv'
<1> DEFINE t == curthread[c]
           adj == (t_curspl[t] = 0)
           f == [kind |-> "irq", doadjust |-> adj, old_in |-> t_in_interrupt[t]]
<1>1. /\ t \in SplThreads /\ t_curspl[t] \in {0, 1} /\ t_iplhigh_count[t] \in Int /\ Place(c, frames[t])
      /\ c_spinlocks[c] \in Nat /\ iec[c] \in BOOLEAN /\ Counts(c) /\ Records(t) /\ SplTypeOK
      /\ frames[t] \in Seq(Frame) /\ t_in_interrupt[t] \in BOOLEAN /\ Len(frames[t]) \in Nat
  BY Now, Zenon DEF SplIInv, SplTypeOK
<1>2. /\ spl_pc[c] \in {"run", "idle_irq"} /\ ~panicked /\ iec[c]
      /\ panicked' = (adj /\ t_iplhigh_count[t] # 0)
      /\ t_curspl' = [t_curspl EXCEPT ![t] = 1]
      /\ t_iplhigh_count' = [t_iplhigh_count EXCEPT ![t] = t_iplhigh_count[t] + (IF adj THEN 1 ELSE 0)]
      /\ iec' = [iec EXCEPT ![c] = FALSE]
      /\ frames' = [frames EXCEPT ![t] = Append(@, f)]
      /\ t_in_interrupt' = [t_in_interrupt EXCEPT ![t] = TRUE]
      /\ spl_pc' = [spl_pc EXCEPT ![c] = "run"]
      /\ UNCHANGED <<sched_vars, lock_vars>>
  BY Zenon DEF interrupt, SplAt, spl_cur, SplGoto, Push, SetState, IPL_NONE, IPL_HIGH
<1>3. /\ c_spinlocks[c] = 0 /\ LocksOf(c) = {} /\ t_iplhigh_count[t] = t_curspl[t]
      /\ spl_pc[c] = "run" => t_curspl[t] = 0
      /\ spl_pc[c] = "idle_irq" => t_curspl[t] = 1 /\ SwitchAt(frames[t], Len(frames[t]))
  <2>1. c_spinlocks[c] = Cardinality(LocksOf(c)) + 0 /\ t_iplhigh_count[t] = t_curspl[t] + c_spinlocks[c]
    BY <1>1, <1>2, Zenon DEF Counts, One
  <2>2. CASE spl_pc[c] = "run"
    <3>1. t_iplhigh_count[t] = 0
      BY <1>1, <1>2, <2>2, Zenon DEF Counts
    <3>2. Cardinality(LocksOf(c)) \in Nat /\ (Cardinality(LocksOf(c)) = 0 => LocksOf(c) = {})
      BY LocksCounted, Zenon
    <3> QED BY <1>1, <2>1, <2>2, <3>1, <3>2
  <2>3. CASE spl_pc[c] = "idle_irq"
    <3>1. LocksOf(c) = {} /\ SwitchAt(frames[t], Len(frames[t]))
      BY <1>1, <2>3, Zenon DEF Place, Switching
    <3>2. t_curspl[t] = 1
      <4>1. t_curspl[t] = Level(frames[t]) /\ Len(frames[t]) \in Nat /\ frames[t] \in Seq(Frame)
        BY <1>1, Zenon DEF Records
      <4> QED BY <3>1, <4>1 DEF Level, After, SwitchAt
    <3>3. Cardinality(LocksOf(c)) = 0
      BY <3>1, LocksCounted, Zenon
    <3> QED BY <1>1, <2>1, <2>3, <3>1, <3>2, <3>3
  <2> QED BY <1>2, <2>2, <2>3, Zenon
<1>4. f \in Frame /\ f.kind = "irq" /\ (f.doadjust <=> adj) /\ (f.old_in <=> t_in_interrupt[t])
  BY <1>1, Zenon DEF Frame
<1> HIDE DEF f
<1>5. Enters(frames[t], f) /\ After(f) = 1
  <2>1. adj <=> (frames[t] = << >> \/ frames[t][Len(frames[t])].kind # "switch")
    <3>1. CASE spl_pc[c] = "run"
      <4>1. adj /\ Level(frames[t]) = 0
        BY <1>1, <1>3, <3>1, Zenon DEF Records
      <4> QED BY <4>1 DEF Level, After
    <3>2. CASE spl_pc[c] = "idle_irq"
      <4>1. frames[t] # << >> /\ frames[t][Len(frames[t])].kind = "switch"
        BY <1>1, <1>3, <3>2 DEF SwitchAt
      <4> QED BY <1>3, <3>2, <4>1
    <3> QED BY <1>2, <3>1, <3>2
  <2>2. Before(f) = Level(frames[t]) /\ After(f) = 1
    BY <1>1, <1>4, Zenon DEF Before, After, Records
  <2> QED BY <1>1, <1>4, <2>1, <2>2, Zenon DEF Enters, Records
<1>6. /\ frames' \in [SplThreads -> Seq(Frame)] /\ (\A u \in SplThreads \ {t} : frames'[u] = frames[u])
      /\ frames'[t] = Append(frames[t], f) /\ Stacked(frames'[t]) /\ Level(frames'[t]) = 1 /\ Has(frames'[t], "irq")
  <2>1. /\ t \in SplThreads /\ Records(t) /\ f \in Frame /\ Enters(frames[t], f)
        /\ frames' = [frames EXCEPT ![t] = Append(@, f)]
    BY <1>1, <1>2, <1>4, <1>5, Zenon
  <2>2. \A k : Has(frames'[t], k) <=> Has(frames[t], k) \/ f.kind = k
    BY <2>1, PushesOwn, Zenon
  <2>3. Has(frames'[t], "irq")
    BY <1>4, <2>2
  <2>4. /\ frames' \in [SplThreads -> Seq(Frame)] /\ (\A u \in SplThreads \ {t} : frames'[u] = frames[u])
        /\ frames'[t] = Append(frames[t], f) /\ Stacked(frames'[t]) /\ Level(frames'[t]) = After(f)
    BY <2>1, PushesOwn, Zenon
  <2> QED BY <1>5, <2>3, <2>4, Zenon
<1>7. /\ t_curspl'[t] = 1 /\ t_iplhigh_count'[t] = 1 /\ ~iec'[c] /\ t_in_interrupt'[t] /\ spl_pc'[c] = "run" /\ t' = t
      /\ ~panicked'
  <2>1. t_iplhigh_count'[t] = 1
    BY <1>1, <1>2, <1>3 DEF SplTypeOK
  <2>2. ~panicked'
    BY <1>1, <1>2, <1>3, Zenon
  <2> QED BY <1>1, <1>2, <2>1, <2>2 DEF SplTypeOK, sched_vars
<1>8. OthersKept(c)
  BY <1>1, <1>2, <1>6, Zenon DEF OthersKept, sched_vars, lock_vars, SplTypeOK
<1>9. SplTypeOK'
  BY <1>1, <1>2, <1>6, SMTT(20) DEF SplTypeOK, sched_vars, lock_vars, Pcs
<1>10. LocksRight' /\ \A d \in SplCpus : LocksOf(d)' = LocksOf(d)
  BY <1>2, <1>3, <1>8, LocksKept, Zenon DEF sched_vars, lock_vars
<1>11. Counts(c)'
  <2>1. c_spinlocks'[c] = 0 /\ Cardinality(LocksOf(c)') = 0
    BY <1>2, <1>3, <1>10, LocksCounted, Zenon DEF lock_vars
  <2>2. 0 = 0 + One(spl_pc'[c] \in {"spin", "pick"}) /\ 1 = 1 + 0 /\ 1 # 0
    BY <1>7 DEF One
  <2> QED BY <1>7, <2>1, <2>2, Zenon DEF Counts
<1>12. Place(c, frames[curthread[c]])'
  BY <1>2, <1>4, <1>6, <1>7, PlacePushed, Zenon DEF sched_vars
<1>13. Records(curthread[c])'
  BY <1>6, <1>7, Zenon DEF Records
<1> QED BY <1>2, <1>7, <1>8, <1>9, <1>10, <1>11, <1>12, <1>13, Local, Zenon DEF sched_vars, SplIInv, Apart

\* The end of mips_trap for an interrupt.
LEMMA InterruptReturnIInv == ASSUME Counting, SplIInv, NEW c \in SplCpus, interrupt_return(c) PROVE SplIInv'
<1> DEFINE t == curthread[c]
           f == Top(t)
<1>1. /\ t \in SplThreads /\ t_curspl[t] \in {0, 1} /\ t_iplhigh_count[t] \in Int /\ Place(c, frames[t])
      /\ c_spinlocks[c] \in Nat /\ iec[c] \in BOOLEAN /\ Counts(c) /\ Records(t) /\ SplTypeOK
      /\ spl_isidle[c] \in BOOLEAN /\ Held(t) = LocksOf(c)
  BY Now, Zenon DEF SplIInv
<1>2. /\ spl_pc[c] = "run" /\ frames[t] # << >> /\ f.kind = "irq" /\ LocksOf(c) = {}
      /\ panicked' = (f.doadjust /\ ~(t_curspl[t] = 1 /\ t_iplhigh_count[t] = 1))
      /\ t_curspl' = [t_curspl EXCEPT ![t] = IF f.doadjust THEN 0 ELSE t_curspl[t]]
      /\ t_iplhigh_count' = [t_iplhigh_count EXCEPT ![t] = t_iplhigh_count[t] - (IF f.doadjust THEN 1 ELSE 0)]
      /\ iec' = [iec EXCEPT ![c] = TRUE]
      /\ t_in_interrupt' = [t_in_interrupt EXCEPT ![t] = f.old_in]
      /\ frames' = [frames EXCEPT ![t] = SubSeq(@, 1, Len(@) - 1)]
      /\ spl_pc' = [spl_pc EXCEPT ![c] = IF spl_isidle[c] THEN "idle_irq" ELSE "run"]
      /\ UNCHANGED <<sched_vars, lock_vars>>
  BY <1>1, Zenon DEF interrupt_return, SplAt, spl_cur, SplGoto, Pop, SetState, IPL_NONE, IPL_HIGH, InFrame
<1>3. /\ frames' \in [SplThreads -> Seq(Frame)] /\ f \in Frame
      /\ (\A u \in SplThreads \ {t} : frames'[u] = frames[u])
      /\ frames'[t] = SubSeq(frames[t], 1, Len(frames[t]) - 1) /\ Stacked(frames'[t])
      /\ Level(frames[t]) = After(f) /\ Level(frames'[t]) = Before(f) /\ Enters(frames'[t], f)
      /\ Has(frames'[t], "switch") => Has(frames[t], "switch")
  <2>1. \A k : Has(frames[t], k) <=> Has(frames'[t], k) \/ f.kind = k
    BY <1>1, <1>2, PopsOwn, Zenon DEF sched_vars
  <2> QED BY <1>1, <1>2, <2>1, PopsOwn, Zenon DEF sched_vars
<1>4. t_curspl[t] = 1 /\ c_spinlocks[c] = 0 /\ Cardinality(LocksOf(c)) = 0 /\ t_iplhigh_count[t] = 1
  <2>1. Cardinality(LocksOf(c)) = 0
    BY <1>2, LocksCounted, Zenon
  <2>2. t_curspl[t] = 1
    BY <1>1, <1>2, <1>3, Zenon DEF Records, After
  <2>3. c_spinlocks[c] = Cardinality(LocksOf(c)) + 0 /\ t_iplhigh_count[t] = t_curspl[t] + c_spinlocks[c]
    BY <1>1, <1>2, Zenon DEF Counts, One
  <2> QED BY <2>1, <2>2, <2>3
<1>5. f.doadjust \in BOOLEAN /\ f.old_in \in BOOLEAN /\ (f.old_in <=> Has(frames'[t], "irq"))
      /\ Level(frames'[t]) = IF f.doadjust THEN 0 ELSE 1
  BY <1>2, <1>3, FrameSays, Zenon DEF Enters, Before
<1>6. ~spl_isidle[c] => f.doadjust
  <2>1. ASSUME ~spl_isidle[c] PROVE ~Has(frames'[t], "switch")
    BY <1>1, <1>3, <2>1, Zenon DEF Place
  <2>2. ASSUME ~Has(frames'[t], "switch"), frames'[t] # << >> PROVE frames'[t][Len(frames'[t])].kind # "switch"
    <3>1. frames'[t] \in Seq(Frame)
      BY <1>1, <1>3, Zenon
    <3>2. Len(frames'[t]) \in 1 .. Len(frames'[t])
      BY <2>2, <3>1
    <3> QED BY <2>2, <3>2, Zenon DEF Has
  <2> QED BY <1>2, <1>3, <2>1, <2>2, Zenon DEF Enters
<1> HIDE DEF f
<1>7. /\ t_curspl'[t] = (IF f.doadjust THEN 0 ELSE 1) /\ t_iplhigh_count'[t] = (IF f.doadjust THEN 0 ELSE 1)
      /\ iec'[c] /\ t_in_interrupt'[t] = f.old_in /\ t' = t /\ ~panicked'
      /\ spl_pc'[c] = IF spl_isidle[c] THEN "idle_irq" ELSE "run"
  <2>1. /\ t_curspl'[t] = (IF f.doadjust THEN 0 ELSE 1) /\ t_iplhigh_count'[t] = (IF f.doadjust THEN 0 ELSE 1)
    BY <1>1, <1>2, <1>4 DEF SplTypeOK
  <2>2. ~panicked'
    BY <1>2, <1>4, Zenon
  <2> QED BY <1>1, <1>2, <2>1, <2>2, Zenon DEF SplTypeOK, sched_vars
<1>8. OthersKept(c)
  BY <1>1, <1>2, <1>3, ZenonT(30) DEF OthersKept, sched_vars, lock_vars, SplTypeOK
<1>9. SplTypeOK'
  <2>1. /\ t_curspl' \in [SplThreads -> {0, 1}] /\ t_iplhigh_count' \in [SplThreads -> Int]
    BY <1>1, <1>2 DEF SplTypeOK
  <2>2. /\ iec' \in [SplCpus -> BOOLEAN] /\ spl_pc' \in [SplCpus -> Pcs]
    BY <1>1, <1>2, Zenon DEF SplTypeOK, Pcs
  <2>3. t_in_interrupt' \in [SplThreads -> BOOLEAN]
    BY <1>1, <1>2, <1>5, Zenon DEF SplTypeOK
  <2> QED BY <1>1, <1>2, <1>3, <2>1, <2>2, <2>3, Zenon DEF SplTypeOK, sched_vars, lock_vars
<1>10. LocksRight' /\ \A d \in SplCpus : LocksOf(d)' = LocksOf(d)
  BY <1>2, <1>8, LocksKept, Zenon DEF sched_vars, lock_vars
<1>11. Counts(c)'
  <2>1. c_spinlocks'[c] = 0 /\ Cardinality(LocksOf(c)') = 0
    BY <1>2, <1>4, <1>10, Zenon DEF lock_vars
  <2> QED BY <1>1, <1>6, <1>7, <2>1 DEF Counts, One
<1>12. Place(c, frames[curthread[c]])'
  <2>1. spl_pc'[c] = IF Top(t).kind = "irq" /\ spl_isidle[c] THEN "idle_irq" ELSE "run"
    BY <1>1, <1>2, <1>7, Zenon DEF f
  <2> QED BY <1>2, <1>3, <2>1, PlacePopped, Zenon DEF sched_vars, lock_vars, f
<1>13. Records(curthread[c])'
  BY <1>3, <1>5, <1>7, Zenon DEF Records
<1> QED BY <1>2, <1>7, <1>8, <1>9, <1>10, <1>11, <1>12, <1>13, Local, Zenon DEF sched_vars, SplIInv, Apart

\* mips_trap, for anything else: the processor is made to agree with the record.
LEMMA TrapIInv == ASSUME Counting, SplIInv, NEW c \in SplCpus, trap(c) PROVE SplIInv'
<1> DEFINE t == curthread[c]
           q == [State(c, t) EXCEPT !.ie = FALSE]
           g == splx(splx(q, 1), t_curspl[t])
           f == [kind |-> "trap", ie |-> iec[c]]
<1>1. /\ t \in SplThreads /\ t_curspl[t] \in {0, 1} /\ t_iplhigh_count[t] \in Int /\ Place(c, frames[t])
      /\ c_spinlocks[c] \in Nat /\ iec[c] \in BOOLEAN /\ Counts(c) /\ Records(t) /\ SplTypeOK
      /\ Held(t) = LocksOf(c)
  BY Now, Zenon DEF SplIInv
<1>2. /\ spl_pc[c] = "run" /\ LocksOf(c) = {} /\ ~t_in_interrupt[t] /\ SetState(c, t, g)
      /\ panicked' = (frames[t] = << >> /\ (g.spl # 0 \/ g.high # 0))
      /\ frames' = [frames EXCEPT ![t] = Append(@, f)]
      /\ UNCHANGED <<sched_vars, lock_vars, t_in_interrupt, spl_pc>>
  BY <1>1, Zenon DEF trap, SplAt, spl_cur, Push, IPL_NONE, IPL_HIGH
<1>3. /\ c_spinlocks[c] = 0 /\ Cardinality(LocksOf(c)) = 0 /\ t_iplhigh_count[t] = t_curspl[t]
      /\ (iec[c] <=> t_iplhigh_count[t] = 0)
  <2>1. Cardinality(LocksOf(c)) = 0
    BY <1>2, LocksCounted, Zenon
  <2>2. c_spinlocks[c] = Cardinality(LocksOf(c)) + 0 /\ t_iplhigh_count[t] = t_curspl[t] + c_spinlocks[c]
    BY <1>1, <1>2 DEF Counts, One
  <2>3. iec[c] <=> t_iplhigh_count[t] = 0
    BY <1>1, <1>2 DEF Counts
  <2> QED BY <1>1, <2>1, <2>2, <2>3
<1>4. Reads(g, t_curspl[t], t_iplhigh_count[t], t_iplhigh_count[t] = 0)
  <2>1. /\ State(c, t) \in SplState /\ State(c, t).spl = t_curspl[t] /\ State(c, t).high = t_iplhigh_count[t]
    BY <1>1, StateSays, Zenon
  <2>2. Reads(q, t_curspl[t], t_iplhigh_count[t], FALSE)
    BY <2>1, IeAssigned, Zenon
  <2> DEFINE a == splx(q, 1)
  <2> HIDE DEF q
  <2>3. Reads(a, 1, t_iplhigh_count[t] + 1 - t_curspl[t], FALSE)
    <3>1. q \in SplState /\ q.spl = t_curspl[t] /\ q.high = t_iplhigh_count[t] /\ ~q.ie
      BY <2>2, Zenon DEF Reads
    <3>2. Reads(a, 1, q.high + 1 - q.spl, q.ie /\ (q.spl = 1 \/ q.high # 0))
      BY <3>1, SplxSays, Zenon
    <3> QED BY <3>1, <3>2, Zenon DEF Reads
  <2> HIDE DEF a
  <2>4. a \in SplState /\ a.spl = 1 /\ a.high = 1 /\ ~a.ie
    BY <1>1, <1>3, <2>3, SMTT(20) DEF Reads
  <2>5. CASE t_curspl[t] = 1
    <3>1. Reads(splx(a, 1), 1, a.high + 1 - a.spl, a.ie /\ (a.spl = 1 \/ a.high # 0))
      BY <2>4, SplxSays, Zenon
    <3> QED BY <1>3, <2>4, <2>5, <3>1 DEF Reads, a
  <2>6. CASE t_curspl[t] = 0
    <3>1. Reads(splx(a, 0), 0, a.high - a.spl, a.ie \/ (a.spl = 1 /\ a.high = 1))
      BY <2>4, SplxSays
    <3> QED BY <1>3, <2>4, <2>6, <3>1, SMTT(20) DEF Reads, a
  <2> QED BY <1>1, <2>5, <2>6, Zenon
<1>5. f \in Frame /\ f.kind = "trap" /\ Before(f) = t_curspl[t] /\ After(f) = t_curspl[t]
  BY <1>1, <1>3, Zenon DEF Frame, Before, After
<1> HIDE DEF f, g
<1>6. Enters(frames[t], f)
  BY <1>1, <1>2, <1>5, Zenon DEF Enters, Records
<1>7. /\ frames' \in [SplThreads -> Seq(Frame)] /\ (\A u \in SplThreads \ {t} : frames'[u] = frames[u])
      /\ frames'[t] = Append(frames[t], f) /\ Stacked(frames'[t]) /\ Level(frames'[t]) = t_curspl[t]
      /\ Has(frames'[t], "irq") <=> Has(frames[t], "irq")
  <2>1. /\ t \in SplThreads /\ Records(t) /\ f \in Frame /\ Enters(frames[t], f)
        /\ frames' = [frames EXCEPT ![t] = Append(@, f)]
    BY <1>1, <1>2, <1>5, <1>6, Zenon
  <2>2. \A k : Has(frames'[t], k) <=> Has(frames[t], k) \/ f.kind = k
    BY <2>1, PushesOwn, Zenon
  <2>3. Has(frames'[t], "irq") <=> Has(frames[t], "irq")
    BY <1>5, <2>2, Zenon
  <2>4. /\ frames' \in [SplThreads -> Seq(Frame)] /\ (\A u \in SplThreads \ {t} : frames'[u] = frames[u])
        /\ frames'[t] = Append(frames[t], f) /\ Stacked(frames'[t]) /\ Level(frames'[t]) = After(f)
    BY <2>1, PushesOwn, Zenon
  <2> QED BY <1>5, <2>3, <2>4, Zenon
<1>8. /\ t_curspl'[t] = t_curspl[t] /\ t_iplhigh_count'[t] = t_iplhigh_count[t]
      /\ (iec'[c] <=> t_iplhigh_count[t] = 0) /\ t' = t
  BY <1>1, <1>2, <1>4 DEF SplTypeOK, SetState, Reads, sched_vars
<1>9. ~panicked'
  <2>1. frames[t] = << >> => t_curspl[t] = 0
    BY <1>1, Zenon DEF Records, Level
  <2> QED BY <1>2, <1>3, <1>4, <2>1, Zenon DEF Reads
<1>10. OthersKept(c)
  BY <1>1, <1>2, <1>7, SMTT(20) DEF OthersKept, SetState, sched_vars, lock_vars, SplTypeOK
<1>11. SplTypeOK'
  BY <1>1, <1>2, <1>4, <1>7, Zenon DEF SplTypeOK, SetState, Reads, SplState, sched_vars, lock_vars
<1>12. LocksRight' /\ \A d \in SplCpus : LocksOf(d)' = LocksOf(d)
  BY <1>2, <1>10, LocksKept, Zenon DEF sched_vars, lock_vars
<1>13. Counts(c)'
  BY <1>1, <1>2, <1>3, <1>8, <1>12, Zenon DEF Counts, lock_vars
<1>14. Place(c, frames[curthread[c]])'
  BY <1>2, <1>5, <1>7, PlacePushed, Zenon DEF sched_vars
<1>15. Records(curthread[c])'
  BY <1>1, <1>2, <1>7, <1>8, Zenon DEF Records
<1> QED BY <1>2, <1>9, <1>10, <1>11, <1>12, <1>13, <1>14, <1>15, Local, Zenon DEF sched_vars, SplIInv, Apart

\* The end of mips_trap for anything else.
LEMMA TrapReturnIInv == ASSUME Counting, SplIInv, NEW c \in SplCpus, trap_return(c) PROVE SplIInv'
<1> DEFINE t == curthread[c]
           f == Top(t)
<1>1. /\ t \in SplThreads /\ t_curspl[t] \in {0, 1} /\ t_iplhigh_count[t] \in Int /\ Place(c, frames[t])
      /\ c_spinlocks[c] \in Nat /\ iec[c] \in BOOLEAN /\ Counts(c) /\ Records(t) /\ SplTypeOK
      /\ Held(t) = LocksOf(c)
  BY Now, Zenon DEF SplIInv
<1>2. /\ spl_pc[c] = "run" /\ ~panicked /\ frames[t] # << >> /\ f.kind = "trap" /\ LocksOf(c) = {}
      /\ iec' = [iec EXCEPT ![c] = f.ie]
      /\ frames' = [frames EXCEPT ![t] = SubSeq(@, 1, Len(@) - 1)]
      /\ UNCHANGED <<sched_vars, lock_vars, t_curspl, t_iplhigh_count, t_in_interrupt, spl_pc, panicked>>
  BY <1>1, Zenon DEF trap_return, SplAt, spl_cur, Pop, InFrame
<1>3. /\ frames' \in [SplThreads -> Seq(Frame)] /\ f \in Frame
      /\ (\A u \in SplThreads \ {t} : frames'[u] = frames[u])
      /\ frames'[t] = SubSeq(frames[t], 1, Len(frames[t]) - 1) /\ Stacked(frames'[t])
      /\ Level(frames[t]) = After(f) /\ Level(frames'[t]) = Before(f)
      /\ (Has(frames[t], "irq") <=> Has(frames'[t], "irq"))
  <2>1. \A k : Has(frames[t], k) <=> Has(frames'[t], k) \/ f.kind = k
    BY <1>1, <1>2, PopsOwn, Zenon DEF sched_vars
  <2>2. Has(frames[t], "irq") <=> Has(frames'[t], "irq")
    BY <1>2, <2>1, Zenon
  <2> QED BY <1>1, <1>2, <2>2, PopsOwn, Zenon DEF sched_vars
<1>4. f.ie \in BOOLEAN /\ (t_curspl[t] = IF f.ie THEN 0 ELSE 1) /\ t_curspl[t] = Level(frames'[t])
  BY <1>1, <1>2, <1>3, FrameSays, Zenon DEF Records, After, Before
<1>5. c_spinlocks[c] = 0 /\ Cardinality(LocksOf(c)) = 0 /\ t_iplhigh_count[t] = t_curspl[t]
  <2>1. Cardinality(LocksOf(c)) = 0
    BY <1>2, LocksCounted, Zenon
  <2>2. c_spinlocks[c] = Cardinality(LocksOf(c)) + 0 /\ t_iplhigh_count[t] = t_curspl[t] + c_spinlocks[c]
    BY <1>1, <1>2, Zenon DEF Counts, One
  <2>3. t_curspl[t] \in {0, 1}
    BY <1>1, Zenon
  <2> QED BY <2>1, <2>2, <2>3
<1> HIDE DEF f
<1>6. iec'[c] = f.ie /\ t' = t /\ (f.ie <=> t_iplhigh_count[t] = 0)
  BY <1>1, <1>2, <1>4, <1>5 DEF SplTypeOK, sched_vars
<1>7. OthersKept(c)
  BY <1>1, <1>2, <1>3 DEF OthersKept, sched_vars, lock_vars, SplTypeOK
<1>8. SplTypeOK'
  BY <1>1, <1>2, <1>3, <1>4, Zenon DEF SplTypeOK, sched_vars, lock_vars
<1>9. LocksRight' /\ \A d \in SplCpus : LocksOf(d)' = LocksOf(d)
  BY <1>2, <1>7, LocksKept, Zenon DEF sched_vars, lock_vars
<1>10. Counts(c)'
  BY <1>1, <1>2, <1>5, <1>6, <1>9, Zenon DEF Counts, lock_vars
<1>11. Place(c, frames[curthread[c]])'
  BY <1>2, <1>3, PlacePopped, Zenon DEF sched_vars, lock_vars, f
<1>12. Records(curthread[c])'
  BY <1>1, <1>2, <1>3, <1>4, <1>6, Zenon DEF Records
<1> QED BY <1>2, <1>7, <1>8, <1>9, <1>10, <1>11, <1>12, Local, Zenon DEF sched_vars, SplIInv, Apart

\* thread_switch, as far as the old thread's place on a list: with its own
\* spinlock alone, which it gives up, or without any.
LEMMA LeaveIInv ==
  ASSUME Counting, SplIInv, NEW c \in SplCpus, NEW lk \in 0 .. NumLocks, Leave(c, lk), spl_pc[c] = "run", ~spl_isidle[c],
         LocksOf(c) = IF lk = 0 THEN {} ELSE {lk}, ~panicked',
         ready' \in SUBSET SplThreads, asleep' \in SUBSET SplThreads,
         \A u \in unborn : u \notin ready' /\ u \notin asleep'
  PROVE  SplIInv'
<1> DEFINE t == curthread[c]
           a == splx(State(c, t), 1)
           b == splraise(a)
           g == IF lk = 0 THEN b ELSE spllower(b)
           f == [kind |-> "switch", spl |-> t_curspl[t], lk |-> lk]
<1>1. /\ t \in SplThreads /\ t_curspl[t] \in {0, 1} /\ t_iplhigh_count[t] \in Int /\ Place(c, frames[t])
      /\ c_spinlocks[c] \in Nat /\ iec[c] \in BOOLEAN /\ Counts(c) /\ Records(t) /\ SplTypeOK
      /\ frames[t] \in Seq(Frame) /\ c # Nobody /\ Nobody \notin SplCpus
      /\ \A d \in SplCpus \ {c} : curthread[d] # t
  BY Now, SplAssumption, Zenon DEF SplIInv
<1>2. /\ SetState(c, t, g)
      /\ c_spinlocks' = [c_spinlocks EXCEPT ![c] = IF lk = 0 THEN @ + 1 ELSE @]
      /\ splk_holder' = [l \in Locks |-> IF l = lk THEN Nobody ELSE splk_holder[l]]
      /\ taker' = [l \in Locks |-> IF l = lk THEN <<Nobody, 0>> ELSE taker[l]]
      /\ frames' = [frames EXCEPT ![t] = Append(@, f)]
      /\ spl_isidle' = [spl_isidle EXCEPT ![c] = TRUE]
      /\ spl_pc' = [spl_pc EXCEPT ![c] = "pick"]
      /\ UNCHANGED <<curthread, unborn, want, t_in_interrupt>>
  BY Zenon DEF Leave, spl_cur, Push, SplGoto, IPL_HIGH
<1>3. c_spinlocks[c] = (IF lk = 0 THEN 0 ELSE 1) /\ t_iplhigh_count[t] = t_curspl[t] + c_spinlocks[c]
      /\ (iec[c] <=> t_iplhigh_count[t] = 0)
  <2>1. Cardinality(LocksOf(c)) = IF lk = 0 THEN 0 ELSE 1
    BY LocksCounted, LockCounted, Zenon DEF Locks
  <2>2. c_spinlocks[c] = Cardinality(LocksOf(c)) + 0
    BY <1>1, Zenon DEF Counts, One
  <2>3. c_spinlocks[c] = IF lk = 0 THEN 0 ELSE 1
    BY <2>1, <2>2
  <2> QED BY <1>1, <2>3, Zenon DEF Counts
<1>4. Reads(g, 1, 2, FALSE)
  <2>1. /\ State(c, t) \in SplState /\ State(c, t).spl = t_curspl[t] /\ State(c, t).high = t_iplhigh_count[t]
        /\ State(c, t).ie = iec[c]
    BY <1>1, StateSays, Zenon
  <2>2. Reads(a, 1, t_iplhigh_count[t] + 1 - t_curspl[t], iec[c] /\ (t_curspl[t] = 1 \/ t_iplhigh_count[t] # 0))
    BY <2>1, SplxSays, Zenon
  <2>3. ~(iec[c] /\ (t_curspl[t] = 1 \/ t_iplhigh_count[t] # 0))
    <3>1. t_curspl[t] \in {0, 1}
      BY <1>1, Zenon
    <3>2. t_curspl[t] = 1 => t_iplhigh_count[t] # 0
      BY <1>3, <3>1
    <3> QED BY <1>3, <3>2, Zenon
  <2> HIDE DEF a
  <2>4. a \in SplState /\ a.spl = 1 /\ a.high = 1 + c_spinlocks[c] /\ ~a.ie
    BY <1>1, <1>3, <2>2, <2>3 DEF Reads
  <2>5. Reads(b, a.spl, a.high + 1, a.ie /\ a.high # 0)
    BY <2>4, RaiseLower, Zenon
  <2> HIDE DEF b
  <2>6. b \in SplState /\ b.spl = 1 /\ b.high = 2 + c_spinlocks[c] /\ ~b.ie
    BY <1>1, <2>4, <2>5 DEF Reads
  <2>7. CASE lk = 0
    BY <1>3, <2>6, <2>7 DEF Reads
  <2>8. CASE lk # 0
    <3>1. Reads(spllower(b), b.spl, b.high - 1, b.ie \/ b.high = 1)
      BY <2>6, RaiseLower
    <3> QED BY <1>3, <2>6, <2>8, <3>1 DEF Reads
  <2> QED BY <2>7, <2>8, Zenon
<1>5. f \in Frame /\ f.kind = "switch" /\ Enters(frames[t], f) /\ After(f) = 1
  BY <1>1, Zenon DEF Frame, Before, After, Enters, Records
<1> HIDE DEF f, g
<1>6. /\ frames' \in [SplThreads -> Seq(Frame)] /\ (\A u \in SplThreads \ {t} : frames'[u] = frames[u])
      /\ frames'[t] = Append(frames[t], f) /\ Stacked(frames'[t]) /\ Level(frames'[t]) = 1
      /\ (Has(frames'[t], "irq") <=> Has(frames[t], "irq"))
  <2>1. /\ t \in SplThreads /\ Records(t) /\ f \in Frame /\ Enters(frames[t], f)
        /\ frames' = [frames EXCEPT ![t] = Append(@, f)]
    BY <1>1, <1>2, <1>5, Zenon
  <2>2. \A k : Has(frames'[t], k) <=> Has(frames[t], k) \/ f.kind = k
    BY <2>1, PushesOwn, Zenon
  <2>3. Has(frames'[t], "irq") <=> Has(frames[t], "irq")
    BY <1>5, <2>2
  <2>4. /\ frames' \in [SplThreads -> Seq(Frame)] /\ (\A u \in SplThreads \ {t} : frames'[u] = frames[u])
        /\ frames'[t] = Append(frames[t], f) /\ Stacked(frames'[t]) /\ Level(frames'[t]) = After(f)
    BY <2>1, PushesOwn, Zenon
  <2> QED BY <1>5, <2>3, <2>4, Zenon
<1>7. /\ t_curspl'[t] = 1 /\ t_iplhigh_count'[t] = 2 /\ ~iec'[c] /\ c_spinlocks'[c] = 1 /\ spl_pc'[c] = "pick"
      /\ spl_isidle'[c] /\ t' = t
  BY <1>1, <1>2, <1>3, <1>4 DEF SplTypeOK, SetState, Reads
<1>8. OthersKept(c)
  BY <1>1, <1>2, <1>6, SMTT(20) DEF OthersKept, SetState, SplTypeOK
<1>9. SplTypeOK'
  <2>1. <<Nobody, 0>> \in (SplThreads \cup {Nobody}) \X Nat /\ c_spinlocks' \in [SplCpus -> Int]
    BY <1>1, <1>2 DEF SplTypeOK
  <2>2. taker' \in [Locks -> (SplThreads \cup {Nobody}) \X Nat]
    BY <1>1, <1>2, <2>1, Zenon DEF SplTypeOK
  <2>3. splk_holder' \in [Locks -> SplCpus \cup {Nobody}]
    BY <1>1, <1>2 DEF SplTypeOK
  <2> QED BY <1>1, <1>2, <1>4, <1>6, <2>1, <2>2, <2>3, Zenon DEF SplTypeOK, SetState, Reads, SplState, Pcs
<1>10. \A l \in Locks : (l = lk \/ splk_holder[l] # c) /\ (l = lk /\ lk # 0 => splk_holder[l] = c) /\ l # 0
  BY DEF LocksOf, Locks
<1>11. LocksRight'
  <2>1. ASSUME NEW l \in Locks
        PROVE  taker'[l] = IF splk_holder'[l] = Nobody THEN <<Nobody, 0>>
                           ELSE <<curthread'[splk_holder'[l]], Depth(curthread[splk_holder[l]])'>>
    <3>1. CASE l = lk
      BY <1>2, <3>1
    <3>2. CASE l # lk
      <4>1. splk_holder'[l] = splk_holder[l] /\ taker'[l] = taker[l] /\ splk_holder[l] \in (SplCpus \cup {Nobody}) \ {c}
        BY <1>1, <1>2, <1>10, <3>2 DEF SplTypeOK
      <4>2. CASE splk_holder[l] = Nobody
        BY <4>1, <4>2, Zenon DEF SplIInv, LocksRight
      <4>3. CASE splk_holder[l] \in SplCpus \ {c}
        <5> DEFINE u == curthread[splk_holder[l]]
        <5>1. u \in SplThreads \ {t}
          BY <1>1, <4>3 DEF SplTypeOK
        <5>2. taker[l] = <<u, Depth(u)>>
          BY <1>1, <4>3, Zenon DEF SplIInv, LocksRight
        <5>3. frames'[u] = frames[u] /\ curthread'[splk_holder'[l]] = u
          BY <1>2, <1>6, <4>1, <5>1, Zenon
        <5>4. Depth(u)' = Depth(u)
          BY <5>3, Zenon DEF Depth
        <5> QED BY <1>1, <4>1, <4>3, <5>2, <5>3, <5>4, Zenon
      <4> QED BY <4>1, <4>2, <4>3, Zenon
    <3> QED BY <3>1, <3>2, Zenon
  <2> QED BY <2>1, Zenon DEF LocksRight
<1>12. LocksOf(c)' = {} /\ \A d \in SplCpus \ {c} : LocksOf(d)' = LocksOf(d)
  BY <1>1, <1>2, <1>10, Zenon DEF LocksOf
<1>13. Counts(c)'
  <2>1. Cardinality(LocksOf(c)') = 0
    BY <1>12 DEF Counting
  <2> QED BY <1>7, <2>1 DEF Counts, One
<1>14. Place(c, frames[curthread[c]])'
  <2>1. ~Has(frames[t], "switch")
    BY <1>1, Zenon DEF Place
  <2>2. SwitchAt(frames'[t], Len(frames'[t]))
    <3>1. frames[t] \in Seq(Frame) /\ f \in Frame /\ f.kind = "switch" /\ frames'[t] = Append(frames[t], f)
      BY <1>1, <1>5, <1>6, Zenon
    <3>2. Len(frames'[t]) = Len(frames[t]) + 1
      BY <3>1
    <3> QED BY <2>1, <3>1, <3>2, PushSwitch
  <2> QED BY <1>7, <1>12, <2>2, Zenon DEF Place, Switching
<1>15. Records(curthread[c])'
  BY <1>1, <1>2, <1>6, <1>7, Zenon DEF Records
<1> QED BY <1>2, <1>8, <1>9, <1>11, <1>12, <1>13, <1>14, <1>15, Local, Zenon

\* thread_yield, wchan_sleep and thread_exit.
LEMMA SwitchesIInv ==
  ASSUME Counting, SplIInv, NEW c \in SplCpus, spl_thread_yield(c) \/ spl_wchan_sleep(c) \/ spl_thread_exit(c)
  PROVE  SplIInv'
<1> DEFINE t == curthread[c]
<1>1. /\ t \in SplThreads /\ Place(c, frames[t]) /\ Records(t) /\ Held(t) = LocksOf(c) /\ t \notin unborn
      /\ spl_isidle[c] \in BOOLEAN /\ Counts(c) /\ frames[t] \in Seq(Frame)
      /\ ready \in SUBSET SplThreads /\ asleep \in SUBSET SplThreads
      /\ \A u \in unborn : u \notin ready /\ u \notin asleep
  BY Now DEF SplIInv, SplTypeOK, Apart
<1>2. 0 \in 0 .. NumLocks /\ \A l \in Locks : l \in 0 .. NumLocks /\ l # 0
  BY SplAssumption DEF Locks
<1>3. ASSUME spl_pc[c] = "run", spl_isidle[c] PROVE frames[t] # << >> /\ t_in_interrupt[t]
  <2>1. PICK p \in 1 .. Len(frames[t]) : SwitchAt(frames[t], p) /\ p < Len(frames[t]) /\ frames[t][p + 1].kind = "irq"
    BY <1>1, <1>3, Zenon DEF Place, Switching
  <2>2. frames[t] # << >> /\ Has(frames[t], "irq")
    BY <1>1, <2>1, AboveSwitch, Zenon DEF Records
  <2> QED BY <1>1, <2>2, Zenon DEF Records
<1>4. CASE spl_thread_yield(c)
  <2>1. /\ spl_pc[c] = "run" /\ ~panicked' /\ ~spl_isidle[c] /\ LocksOf(c) = {} /\ Leave(c, 0)
        /\ ready' = ready \cup {t} /\ asleep' = asleep
    BY <1>1, <1>4, Zenon DEF spl_thread_yield, SplAt, spl_cur
  <2> QED BY <1>1, <1>2, <2>1, LeaveIInv, Zenon
<1>5. CASE spl_wchan_sleep(c)
  <2>1. PICK lk \in Locks :
          /\ spl_pc[c] = "run" /\ ~t_in_interrupt[t] /\ LocksOf(c) = {lk} /\ Leave(c, lk)
          /\ panicked' = (splk_holder[lk] # c \/ c_spinlocks[c] # 1)
          /\ ready' = ready /\ asleep' = asleep \cup {t}
    BY <1>1, <1>5, Zenon DEF spl_wchan_sleep, SplAt, spl_cur
  <2>2. ~panicked'
    <3>1. Cardinality(LocksOf(c)) = 1
      BY <2>1, LockCounted, Zenon
    <3>2. c_spinlocks[c] = Cardinality(LocksOf(c)) + 0
      BY <1>1, <2>1, Zenon DEF Counts, One
    <3>3. c_spinlocks[c] = 1
      BY <3>1, <3>2
    <3>4. splk_holder[lk] = c
      BY <2>1, Zenon DEF LocksOf
    <3> QED BY <2>1, <3>3, <3>4, Zenon
  <2>3. ~spl_isidle[c]
    BY <1>1, <1>3, <2>1, Zenon
  <2>4. lk \in 0 .. NumLocks /\ LocksOf(c) = IF lk = 0 THEN {} ELSE {lk}
    BY <1>2, <2>1, Zenon
  <2>5. \A u \in unborn : u \notin ready' /\ u \notin asleep'
    BY <1>1, <2>1, Zenon
  <2> QED BY <1>1, <2>1, <2>2, <2>3, <2>4, <2>5, LeaveIInv, Zenon
<1>6. CASE spl_thread_exit(c)
  <2>1. /\ spl_pc[c] = "run" /\ ~panicked' /\ frames[t] = << >> /\ LocksOf(c) = {} /\ Leave(c, 0)
        /\ ready' = ready /\ asleep' = asleep
    BY <1>1, <1>6, Zenon DEF spl_thread_exit, SplAt, spl_cur
  <2>2. ~spl_isidle[c]
    BY <1>1, <1>3, <2>1, Zenon
  <2> QED BY <1>1, <1>2, <2>1, <2>2, LeaveIInv, Zenon
<1> QED BY <1>4, <1>5, <1>6, Zenon

-----------------------------------------------------------------------------
(* Switching, and the theorem                                              *)

\* A CPU between switches has no spinlock but the run queue's.
LEMMA AtSwitch ==
  ASSUME Counting, SplIInv, NEW c \in SplCpus, NEW t, t = curthread[c], spl_pc[c] \in Switching
  PROVE  /\ t \in SplThreads /\ LocksOf(c) = {} /\ Cardinality(LocksOf(c)) = 0 /\ SplTypeOK /\ spl_isidle[c]
         /\ c_spinlocks[c] = (IF spl_pc[c] = "pick" THEN 1 ELSE 0) /\ t_curspl[t] = 1
         /\ t_iplhigh_count[t] = 1 + c_spinlocks[c] /\ SwitchAt(frames[t], Len(frames[t])) /\ Records(t)
         /\ frames[t] \in Seq(Frame) /\ t \notin unborn
<1>1. /\ t \in SplThreads /\ Counts(c) /\ Place(c, frames[t]) /\ Records(t) /\ SplTypeOK /\ t \notin unborn
      /\ frames[t] \in Seq(Frame) /\ Len(frames[t]) \in Nat
  BY Now, Zenon DEF SplIInv
<1>2. LocksOf(c) = {} /\ SwitchAt(frames[t], Len(frames[t])) /\ spl_isidle[c]
  BY <1>1 DEF Place
<1>3. Cardinality(LocksOf(c)) = 0
  BY <1>2, LocksCounted, Zenon
<1>4. t_curspl[t] = 1
  BY <1>1, <1>2 DEF Records, Level, After, SwitchAt
<1>5. c_spinlocks[c] = IF spl_pc[c] = "pick" THEN 1 ELSE 0
  BY <1>1, <1>3 DEF Counts, One, Switching
<1>6. t_iplhigh_count[t] = 1 + c_spinlocks[c]
  BY <1>1, <1>4 DEF Counts
<1> QED BY <1>1, <1>2, <1>3, <1>4, <1>5, <1>6, Zenon

\* The run queue is empty: its spinlock is released.
LEMMA SwitchIdleIInv == ASSUME Counting, SplIInv, NEW c \in SplCpus, spl_switch_idle(c) PROVE SplIInv'
<1> DEFINE t == curthread[c]
           g == spllower(State(c, t))
<1>1. /\ spl_pc[c] = "pick" /\ ~panicked /\ SetState(c, t, g)
      /\ c_spinlocks' = [c_spinlocks EXCEPT ![c] = @ - 1] /\ spl_pc' = [spl_pc EXCEPT ![c] = "idle"]
      /\ UNCHANGED <<sched_vars, splk_holder, taker, want, t_in_interrupt, frames, panicked>>
  BY DEF spl_switch_idle, SplAt, spl_cur, SplGoto
<1>2. /\ t \in SplThreads /\ LocksOf(c) = {} /\ Cardinality(LocksOf(c)) = 0 /\ SplTypeOK
      /\ c_spinlocks[c] = 1 /\ t_curspl[t] = 1 /\ t_iplhigh_count[t] = 1 + c_spinlocks[c] /\ Records(t)
  BY <1>1, AtSwitch, Zenon DEF Switching
<1>3. Place(c, frames[t]) /\ ~iec[c]
  BY <1>1, Now, Zenon DEF Counts
<1>4. Reads(g, t_curspl[t], t_iplhigh_count[t] - 1, iec[c] \/ t_iplhigh_count[t] = 1)
  BY <1>2, StateSays, RaiseLower
<1> HIDE DEF g
<1>5. /\ t_curspl'[t] = 1 /\ t_iplhigh_count'[t] = 1 /\ ~iec'[c] /\ c_spinlocks'[c] = 0 /\ spl_pc'[c] = "idle" /\ t' = t
  <2>1. g.spl = 1 /\ g.high = 1 /\ ~g.ie
    <3>1. g.spl = t_curspl[t] /\ g.high = t_iplhigh_count[t] - 1 /\ (g.ie <=> iec[c] \/ t_iplhigh_count[t] = 1)
      BY <1>4, Zenon DEF Reads
    <3>2. t_iplhigh_count[t] = 1 + 1
      BY <1>2, Zenon
    <3>3. (1 + 1) - 1 = 1 /\ 1 + 1 # 1
      OBVIOUS
    <3> QED BY <1>2, <1>3, <3>1, <3>2, <3>3, Zenon
  <2> QED BY <1>1, <1>2, <2>1 DEF SetState, SplTypeOK, sched_vars
<1>6. OthersKept(c)
  BY <1>1, <1>2, Zenon DEF OthersKept, SetState, SplTypeOK, sched_vars
<1>7. SplTypeOK'
  <2>1. c_spinlocks' \in [SplCpus -> Int]
    BY <1>1, <1>2 DEF SplTypeOK
  <2> QED BY <1>1, <1>2, <1>4, <2>1 DEF SplTypeOK, SetState, Reads, SplState, Pcs, sched_vars
<1>8. LocksRight' /\ \A d \in SplCpus : LocksOf(d)' = LocksOf(d)
  BY <1>1, <1>2, <1>6, LocksKept, Zenon DEF sched_vars
<1>9. Counts(c)'
  BY <1>2, <1>5, <1>8 DEF Counts, One
<1>10. Place(c, frames[curthread[c]])'
  BY <1>1, <1>3, <1>5, <1>8, Zenon DEF Place, Switching, sched_vars
<1>11. Records(curthread[c])'
  BY <1>1, <1>2, <1>5, Zenon DEF Records
<1> QED BY <1>1, <1>6, <1>7, <1>8, <1>9, <1>10, <1>11, Local, Zenon DEF sched_vars, SplIInv, Apart

\* cpu_idle turns interrupts on.
LEMMA IrqonIInv == ASSUME Counting, SplIInv, NEW c \in SplCpus, cpu_irqon(c) PROVE SplIInv'
<1> DEFINE t == curthread[c]
<1>1. /\ spl_pc[c] = "idle" /\ ~panicked /\ iec' = [iec EXCEPT ![c] = TRUE] /\ spl_pc' = [spl_pc EXCEPT ![c] = "idle_irq"]
      /\ UNCHANGED <<sched_vars, lock_vars, t_curspl, t_iplhigh_count, t_in_interrupt, frames, panicked>>
  BY DEF cpu_irqon, SplAt, SplGoto
<1>2. /\ t \in SplThreads /\ LocksOf(c) = {} /\ Cardinality(LocksOf(c)) = 0 /\ SplTypeOK
      /\ c_spinlocks[c] = 0 /\ t_curspl[t] = 1 /\ t_iplhigh_count[t] = 1 + c_spinlocks[c] /\ Records(t)
  BY <1>1, AtSwitch, Zenon DEF Switching
<1>3. Place(c, frames[t])
  BY Now, Zenon
<1>4. spl_pc'[c] = "idle_irq" /\ t' = t
  BY <1>1, <1>2 DEF SplTypeOK, sched_vars
<1>5. OthersKept(c)
  BY <1>1, <1>2 DEF OthersKept, SplTypeOK, sched_vars, lock_vars
<1>6. SplTypeOK'
  BY <1>1, <1>2, Zenon DEF SplTypeOK, Pcs, sched_vars, lock_vars
<1>7. LocksRight' /\ \A d \in SplCpus : LocksOf(d)' = LocksOf(d)
  BY <1>1, <1>2, <1>5, LocksKept, Zenon DEF sched_vars, lock_vars
<1>8. Counts(c)'
  <2>1. /\ c_spinlocks'[c] = 0 /\ t_iplhigh_count'[t] = 1 + c_spinlocks'[c] /\ t_curspl'[t] = 1
        /\ curthread'[c] = t /\ Cardinality(LocksOf(c)') = 0
    BY <1>1, <1>2, <1>4, <1>7, Zenon DEF lock_vars, sched_vars
  <2>2. One("idle_irq" \in {"spin", "pick"}) = 0
    BY DEF One
  <2>3. 0 + 0 = 0 /\ "idle_irq" \notin {"run", "spin", "pick", "idle"}
    OBVIOUS
  <2> QED BY <1>4, <2>1, <2>2, <2>3, Zenon DEF Counts
<1>9. Place(c, frames[curthread[c]])'
  BY <1>1, <1>3, <1>4, <1>7, Zenon DEF Place, Switching, sched_vars
<1>10. Records(curthread[c])'
  BY <1>1, <1>2, <1>4, Zenon DEF Records
<1> QED BY <1>1, <1>5, <1>6, <1>7, <1>8, <1>9, <1>10, Local, Zenon DEF sched_vars, SplIInv, Apart

\* cpu_idle turns interrupts off, and the run queue is locked again.
LEMMA IrqoffIInv == ASSUME Counting, SplIInv, NEW c \in SplCpus, cpu_irqoff(c) PROVE SplIInv'
<1> DEFINE t == curthread[c]
           q == [State(c, t) EXCEPT !.ie = FALSE]
           g == splraise(q)
<1>1. /\ spl_pc[c] = "idle_irq" /\ ~panicked /\ SetState(c, t, g)
      /\ c_spinlocks' = [c_spinlocks EXCEPT ![c] = @ + 1] /\ spl_pc' = [spl_pc EXCEPT ![c] = "pick"]
      /\ UNCHANGED <<sched_vars, splk_holder, taker, want, t_in_interrupt, frames, panicked>>
  BY DEF cpu_irqoff, SplAt, spl_cur, SplGoto
<1>2. /\ t \in SplThreads /\ LocksOf(c) = {} /\ Cardinality(LocksOf(c)) = 0 /\ SplTypeOK
      /\ c_spinlocks[c] = 0 /\ t_curspl[t] = 1 /\ t_iplhigh_count[t] = 1 + c_spinlocks[c] /\ Records(t)
  BY <1>1, AtSwitch DEF Switching
<1>3. Place(c, frames[t])
  BY Now, Zenon
<1>4. Reads(g, 1, 2, FALSE)
  <2>1. /\ State(c, t) \in SplState /\ State(c, t).spl = t_curspl[t] /\ State(c, t).high = t_iplhigh_count[t]
    BY <1>2, StateSays
  <2>2. Reads(q, t_curspl[t], t_iplhigh_count[t], FALSE)
    BY <2>1, IeAssigned, Zenon
  <2> HIDE DEF q
  <2>3. q \in SplState /\ q.spl = 1 /\ q.high = 1 /\ ~q.ie
    BY <1>2, <2>2 DEF Reads
  <2>4. Reads(g, q.spl, q.high + 1, q.ie /\ q.high # 0)
    BY <2>3, RaiseLower, Zenon
  <2> QED BY <2>3, <2>4 DEF Reads
<1> HIDE DEF g
<1>5. /\ t_curspl'[t] = 1 /\ t_iplhigh_count'[t] = 2 /\ ~iec'[c] /\ c_spinlocks'[c] = 1 /\ spl_pc'[c] = "pick" /\ t' = t
  BY <1>1, <1>2, <1>4 DEF SetState, SplTypeOK, sched_vars, Reads
<1>6. OthersKept(c)
  BY <1>1, <1>2, Zenon DEF OthersKept, SetState, SplTypeOK, sched_vars
<1>7. SplTypeOK'
  <2>1. c_spinlocks' \in [SplCpus -> Int]
    BY <1>1, <1>2 DEF SplTypeOK
  <2> QED BY <1>1, <1>2, <1>4, <2>1 DEF SplTypeOK, SetState, Reads, SplState, Pcs, sched_vars
<1>8. LocksRight' /\ \A d \in SplCpus : LocksOf(d)' = LocksOf(d)
  BY <1>1, <1>2, <1>6, LocksKept, Zenon DEF sched_vars
<1>9. Counts(c)'
  BY <1>2, <1>5, <1>8 DEF Counts, One
<1>10. Place(c, frames[curthread[c]])'
  BY <1>1, <1>3, <1>5, <1>8, Zenon DEF Place, Switching, sched_vars
<1>11. Records(curthread[c])'
  BY <1>1, <1>2, <1>5, Zenon DEF Records
<1> QED BY <1>1, <1>6, <1>7, <1>8, <1>9, <1>10, <1>11, Local, Zenon DEF sched_vars, SplIInv, Apart

\* wchan_wakeone.
LEMMA WakeoneIInv == ASSUME Counting, SplIInv, NEW c \in SplCpus, spl_wchan_wakeone(c) PROVE SplIInv'
<1> DEFINE t == curthread[c]
<1>1. PICK u \in asleep :
        /\ ~panicked /\ asleep' = asleep \ {u} /\ ready' = ready \cup {u}
        /\ UNCHANGED <<curthread, spl_isidle, unborn, lock_vars, ipl_vars, t_in_interrupt, frames, spl_pc, panicked>>
  BY DEF spl_wchan_wakeone, SplAt
<1>2. t \in SplThreads /\ Counts(c) /\ Place(c, frames[t]) /\ Records(t) /\ SplTypeOK
  BY Now, Zenon DEF SplIInv
<1>3. OthersKept(c)
  BY <1>1, Zenon DEF OthersKept, lock_vars, ipl_vars
<1>4. SplTypeOK'
  BY <1>1, <1>2 DEF SplTypeOK, lock_vars, ipl_vars
<1>5. Depth(t)' = Depth(t)
  BY <1>1, Zenon DEF Depth
<1>6. LocksRight' /\ \A d \in SplCpus : LocksOf(d)' = LocksOf(d)
  BY <1>1, <1>3, <1>5, LocksKept DEF lock_vars
<1>7. Counts(c)'
  BY <1>1, <1>2, <1>6, Zenon DEF Counts, lock_vars, ipl_vars
<1>8. Place(c, frames[curthread[c]])'
  BY <1>1, <1>2, <1>6, Zenon DEF Place
<1>9. Records(curthread[c])'
  BY <1>1, <1>2, Zenon DEF Records, ipl_vars
<1>10. \A v \in unborn : v \notin ready' /\ v \notin asleep'
  BY <1>1, Zenon DEF SplIInv, Apart
<1> QED BY <1>1, <1>3, <1>4, <1>6, <1>7, <1>8, <1>9, <1>10, Local, Zenon

\* A thread that can be switched to is in its thread_switch, with two reasons.
LEMMA Switchable ==
  ASSUME Counting, SplIInv, NEW c \in SplCpus, spl_pc[c] = "pick", NEW t \in ready,
         \A d \in SplCpus \ {c} : curthread[d] # t
  PROVE  /\ t \in SplThreads /\ t \notin unborn /\ frames[t] \in Seq(Frame) /\ frames[t] # << >>
         /\ SwitchAt(frames[t], Len(frames[t])) /\ Top(t).kind = "switch"
         /\ t_iplhigh_count[t] = 2 /\ t_curspl[t] = 1 /\ Records(t)
<1>1. t \in SplThreads /\ t \notin unborn /\ Records(t) /\ frames[t] \in Seq(Frame) /\ Len(frames[t]) \in Nat
  BY DEF SplIInv, SplTypeOK, Apart
<1>2. SwitchAt(frames[t], Len(frames[t])) /\ t_iplhigh_count[t] = 2
  <2>1. CASE t = curthread[c]
    <3>1. spl_pc[c] \in Switching
      BY Zenon DEF Switching
    <3>2. SwitchAt(frames[t], Len(frames[t])) /\ c_spinlocks[c] = 1 /\ t_iplhigh_count[t] = 1 + c_spinlocks[c]
      BY <2>1, <3>1, AtSwitch, Zenon
    <3>3. 1 + 1 = 2
      OBVIOUS
    <3> QED BY <3>2, <3>3, Zenon
  <2>2. CASE t # curthread[c]
    <3>1. ~Current(t)
      BY <2>2, Zenon DEF Current
    <3> QED BY <1>1, <3>1, Zenon DEF SplIInv, Out
  <2> QED BY <2>1, <2>2, Zenon
<1>3. frames[t] # << >> /\ Top(t).kind = "switch"
  BY <1>1, <1>2 DEF SwitchAt, Top
<1>4. t_curspl[t] = 1
  BY <1>1, <1>3 DEF Records, Level, After, Top
<1> QED BY <1>1, <1>2, <1>3, <1>4

\* thread_switch takes a thread from the run queue, which goes back to its own
\* spl and spinlock.
LEMMA SwitchPickIInv == ASSUME Counting, SplIInv, NEW c \in SplCpus, spl_switch_pick(c) PROVE SplIInv'
<1>1. PICK t \in ready :
        LET f == Top(t)
            s == splx(spllower(State(c, t)), f.spl)
        IN  /\ spl_pc[c] = "pick" /\ \A d \in SplCpus \ {c} : curthread[d] # t
            /\ curthread' = [curthread EXCEPT ![c] = t]
            /\ ready' = ready \ {t}
            /\ spl_isidle' = [spl_isidle EXCEPT ![c] = FALSE]
            /\ SetState(c, t, IF f.lk = 0 THEN s ELSE splraise(s))
            /\ c_spinlocks' = [c_spinlocks EXCEPT ![c] = IF f.lk = 0 THEN @ - 1 ELSE @]
            /\ want' = [want EXCEPT ![c] = f.lk]
            /\ panicked' = (f.lk # 0 /\ splk_holder[f.lk] = c)
            /\ spl_pc' = [spl_pc EXCEPT ![c] = IF f.lk = 0 THEN "run" ELSE "spin"]
            /\ frames' = [frames EXCEPT ![t] = SubSeq(@, 1, Len(@) - 1)]
            /\ UNCHANGED <<asleep, unborn, splk_holder, taker, t_in_interrupt>>
  BY Zenon DEF spl_switch_pick, SplAt, spl_cur, SplGoto, Pop
<1> DEFINE u == curthread[c]
           f == Top(t)
           lk == f.lk
           a == spllower(State(c, t))
           s == splx(a, f.spl)
           g == IF lk = 0 THEN s ELSE splraise(s)
           one == IF lk = 0 THEN 0 ELSE 1
<1>2. /\ t \in SplThreads /\ t \notin unborn /\ frames[t] \in Seq(Frame) /\ frames[t] # << >>
      /\ SwitchAt(frames[t], Len(frames[t])) /\ f.kind = "switch"
      /\ t_iplhigh_count[t] = 2 /\ t_curspl[t] = 1 /\ Records(t)
  BY <1>1, Switchable, Zenon
<1>3. /\ u \in SplThreads /\ LocksOf(c) = {} /\ Cardinality(LocksOf(c)) = 0 /\ SplTypeOK /\ c_spinlocks[c] = 1
      /\ t_iplhigh_count[u] = 2 /\ SwitchAt(frames[u], Len(frames[u])) /\ u \notin unborn
  <2>1. spl_pc[c] = "pick" /\ spl_pc[c] \in Switching
    BY <1>1, Zenon DEF Switching
  <2>2. /\ u \in SplThreads /\ LocksOf(c) = {} /\ Cardinality(LocksOf(c)) = 0 /\ SplTypeOK /\ u \notin unborn
        /\ SwitchAt(frames[u], Len(frames[u])) /\ c_spinlocks[c] = 1 /\ t_iplhigh_count[u] = 1 + c_spinlocks[c]
    BY <2>1, AtSwitch, Zenon
  <2>3. 1 + 1 = 2
    OBVIOUS
  <2> QED BY <2>2, <2>3, Zenon
<1>4. ~iec[c] /\ iec[c] \in BOOLEAN /\ c # Nobody /\ Nobody \notin SplCpus
  BY <1>1, Now, SplAssumption, Zenon DEF Counts
<1>5. /\ frames' \in [SplThreads -> Seq(Frame)] /\ f \in Frame
      /\ (\A v \in SplThreads \ {t} : frames'[v] = frames[v])
      /\ frames'[t] = SubSeq(frames[t], 1, Len(frames[t]) - 1) /\ Stacked(frames'[t])
      /\ Level(frames'[t]) = Before(f) /\ (Has(frames[t], "irq") <=> Has(frames'[t], "irq"))
  <2>1. frames' = [frames EXCEPT ![t] = SubSeq(@, 1, Len(@) - 1)]
    BY <1>1
  <2>2. \A k : Has(frames[t], k) <=> Has(frames'[t], k) \/ f.kind = k
    BY <1>2, <2>1, PopsOwn, Zenon
  <2>3. Has(frames[t], "irq") <=> Has(frames'[t], "irq")
    BY <1>2, <2>2, Zenon
  <2> QED BY <1>2, <2>1, <2>3, PopsOwn, Zenon
<1>6. f.spl \in {0, 1} /\ lk \in 0 .. NumLocks /\ Before(f) = f.spl
  BY <1>2, <1>5, FrameSays, Zenon DEF Before
<1>7. Reads(g, f.spl, f.spl + one, lk = 0 /\ f.spl = 0)
  <2>1. /\ State(c, t) \in SplState /\ State(c, t).spl = 1 /\ State(c, t).high = 2 /\ ~State(c, t).ie
    BY <1>2, <1>3, <1>4, StateSays, Zenon
  <2>2. Reads(a, State(c, t).spl, State(c, t).high - 1, State(c, t).ie \/ State(c, t).high = 1)
    BY <2>1, RaiseLower, Zenon
  <2> HIDE DEF a
  <2>3. a \in SplState /\ a.spl = 1 /\ a.high = 1 /\ ~a.ie
    BY <2>1, <2>2 DEF Reads
  <2>4. s \in SplState /\ s.spl = f.spl /\ s.high = f.spl /\ (s.ie <=> f.spl = 0)
    <3>1. CASE f.spl = 0
      <4>1. Reads(splx(a, 0), 0, a.high - a.spl, a.ie \/ (a.spl = 1 /\ a.high = 1))
        BY <2>3, SplxSays
      <4> QED BY <2>3, <3>1, <4>1 DEF Reads
    <3>2. CASE f.spl = 1
      <4>1. Reads(splx(a, 1), 1, a.high + 1 - a.spl, a.ie /\ (a.spl = 1 \/ a.high # 0))
        BY <2>3, SplxSays, Zenon
      <4> QED BY <2>3, <3>2, <4>1 DEF Reads
    <3> QED BY <1>6, <3>1, <3>2
  <2> HIDE DEF s
  <2>5. CASE lk = 0
    BY <1>6, <2>4, <2>5 DEF Reads
  <2>6. CASE lk # 0
    <3>1. Reads(splraise(s), s.spl, s.high + 1, s.ie /\ s.high # 0)
      BY <2>4, RaiseLower
    <3>2. ~(s.ie /\ s.high # 0)
      BY <1>6, <2>4
    <3> QED BY <1>6, <2>4, <2>6, <3>1, <3>2 DEF Reads
  <2> QED BY <2>5, <2>6
<1>8. PICK k : k = lk
  OBVIOUS
<1>9. /\ SetState(c, t, g) /\ curthread' = [curthread EXCEPT ![c] = t] /\ spl_isidle' = [spl_isidle EXCEPT ![c] = FALSE]
      /\ c_spinlocks' = [c_spinlocks EXCEPT ![c] = IF k = 0 THEN @ - 1 ELSE @] /\ want' = [want EXCEPT ![c] = k]
      /\ panicked' = (k # 0 /\ splk_holder[k] = c)
      /\ spl_pc' = [spl_pc EXCEPT ![c] = IF k = 0 THEN "run" ELSE "spin"]
      /\ UNCHANGED <<asleep, unborn, splk_holder, taker, t_in_interrupt>>
  BY <1>1, <1>8, Zenon
<1>10. k \in 0 .. NumLocks /\ (k # 0 => k \in Locks)
  BY <1>6, <1>8 DEF Locks
<1>11. /\ g \in SplState /\ g.spl = f.spl /\ g.high = f.spl + (IF k = 0 THEN 0 ELSE 1)
       /\ (g.ie <=> k = 0 /\ f.spl = 0)
  BY <1>7, <1>8, Zenon DEF Reads
<1> HIDE DEF f, g, lk
<1>12. /\ curthread'[c] = t /\ (\A d \in SplCpus \ {c} : curthread'[d] = curthread[d])
       /\ t_curspl'[t] = f.spl /\ t_iplhigh_count'[t] = g.high /\ iec'[c] = g.ie /\ ~spl_isidle'[c]
       /\ c_spinlocks'[c] = (IF k = 0 THEN 0 ELSE 1) /\ want'[c] = k
       /\ spl_pc'[c] = (IF k = 0 THEN "run" ELSE "spin") /\ t_in_interrupt'[t] = t_in_interrupt[t]
  BY <1>2, <1>3, <1>9, <1>11 DEF SetState, SplTypeOK
<1>13. /\ \A d \in SplCpus \ {c} : /\ iec'[d] = iec[d] /\ c_spinlocks'[d] = c_spinlocks[d]
                                    /\ spl_isidle'[d] = spl_isidle[d]
                                    /\ spl_pc'[d] = spl_pc[d] /\ want'[d] = want[d]
       /\ \A v \in SplThreads \ {t} : /\ t_curspl'[v] = t_curspl[v] /\ t_iplhigh_count'[v] = t_iplhigh_count[v]
                                       /\ t_in_interrupt'[v] = t_in_interrupt[v] /\ frames'[v] = frames[v]
       /\ \A d \in SplCpus : LocksOf(d)' = LocksOf(d)
  BY <1>2, <1>3, <1>5, <1>9, Zenon DEF SetState, SplTypeOK, LocksOf
<1>14. SplTypeOK'
  <2>1. c_spinlocks' \in [SplCpus -> Int] /\ spl_pc' \in [SplCpus -> Pcs] /\ want' \in [SplCpus -> 0 .. NumLocks]
    BY <1>3, <1>9, <1>10 DEF SplTypeOK, Pcs
  <2>2. ready' \in SUBSET SplThreads
    BY <1>1, <1>3, Zenon DEF SplTypeOK
  <2> QED BY <1>2, <1>3, <1>5, <1>9, <1>11, <2>1, <2>2, Zenon DEF SplTypeOK, SetState, SplState
<1>15. \A d \in SplCpus \ {c} : curthread[d] # t
  BY <1>1
<1>16. Apart'
  <2>1. \A d, e \in SplCpus : curthread'[d] = curthread'[e] => d = e
    <3>1. \A d, e \in SplCpus : curthread[d] = curthread[e] => d = e
      BY Zenon DEF SplIInv, Apart
    <3>2. curthread'[c] = t /\ \A d \in SplCpus \ {c} : curthread'[d] = curthread[d]
      BY <1>12, Zenon
    <3> QED BY <1>15, <3>1, <3>2, Zenon
  <2>2. \A v \in unborn : v # t /\ (\A d \in SplCpus : curthread[d] # v) /\ v \notin ready /\ v \notin asleep
    BY <1>2, Zenon DEF SplIInv, Apart, Current
  <2>3. unborn' = unborn /\ asleep' = asleep /\ ready' \subseteq ready
    BY <1>1
  <2> QED BY <1>12, <2>1, <2>2, <2>3, Zenon DEF Apart, Current
<1>17. LocksRight'
  <2>1. ASSUME NEW l \in Locks
        PROVE  taker'[l] = IF splk_holder'[l] = Nobody THEN <<Nobody, 0>>
                           ELSE <<curthread'[splk_holder'[l]], Depth(curthread[splk_holder[l]])'>>
    <3>1. splk_holder'[l] = splk_holder[l] /\ taker'[l] = taker[l] /\ splk_holder[l] \in (SplCpus \cup {Nobody}) \ {c}
      BY <1>3, <1>9 DEF SplTypeOK, LocksOf
    <3>2. CASE splk_holder[l] = Nobody
      BY <3>1, <3>2, Zenon DEF SplIInv, LocksRight
    <3>3. CASE splk_holder[l] \in SplCpus \ {c}
      <4>1. PICK v : v = curthread[splk_holder[l]]
        BY Zenon
      <4>2. v \in SplThreads \ {t}
        BY <1>3, <1>15, <3>3, <4>1 DEF SplTypeOK
      <4>3. taker[l] = <<v, Depth(v)>>
        BY <1>4, <3>3, <4>1, Zenon DEF SplIInv, LocksRight
      <4>4. frames'[v] = frames[v] /\ curthread'[splk_holder'[l]] = v
        BY <1>12, <1>13, <3>1, <3>3, <4>1, <4>2, Zenon
      <4>5. Depth(v)' = Depth(v)
        BY <4>4 DEF Depth
      <4> QED BY <1>4, <3>1, <3>3, <4>3, <4>4, <4>5
    <3> QED BY <3>1, <3>2, <3>3, Zenon
  <2> QED BY <2>1, Zenon DEF LocksRight
<1>18. ~panicked'
  BY <1>3, <1>9, <1>10, Zenon DEF LocksOf
<1>19. Counts(c)'
  <2>1. t_iplhigh_count'[t] = t_curspl'[t] + c_spinlocks'[c] /\ (k = 0 => (iec'[c] <=> t_iplhigh_count'[t] = 0))
    <3>1. /\ t_iplhigh_count'[t] = f.spl + (IF k = 0 THEN 0 ELSE 1) /\ t_curspl'[t] = f.spl
          /\ c_spinlocks'[c] = (IF k = 0 THEN 0 ELSE 1) /\ (iec'[c] <=> k = 0 /\ f.spl = 0)
      BY <1>11, <1>12, Zenon
    <3>2. f.spl + 0 = f.spl
      BY <1>6
    <3> QED BY <3>1, <3>2, Zenon
  <2>2. k # 0 => ~iec'[c] /\ want'[c] \in Locks
    BY <1>10, <1>11, <1>12, Zenon
  <2>3. Cardinality(LocksOf(c)') = 0
    BY <1>3, <1>13, Zenon
  <2>4. CASE k = 0
    BY <1>12, <2>1, <2>3, <2>4 DEF Counts, One
  <2>5. CASE k # 0
    BY <1>12, <2>1, <2>2, <2>3, <2>5 DEF Counts, One
  <2> QED BY <2>4, <2>5
<1>20. Place(c, frames[curthread[c]])'
  <2>1. ~Has(frames'[t], "switch")
    BY <1>2, <1>5, PopSwitch, Zenon
  <2> QED BY <1>12, <2>1, Zenon DEF Place, Switching
<1>21. ASSUME NEW d \in SplCpus \ {c} PROVE Counts(d)' /\ Place(d, frames[curthread[d]])'
  <2>1. curthread'[d] = curthread[d] /\ curthread[d] \in SplThreads \ {t}
    BY <1>3, <1>12, <1>15, Zenon DEF SplTypeOK
  <2>2. Counts(d) /\ Place(d, frames[curthread[d]])
    BY DEF SplIInv
  <2>3. Counts(d)'
    BY <1>13, <2>1, <2>2, ZenonT(40) DEF Counts
  <2>4. Place(d, frames[curthread[d]])'
    BY <1>13, <2>1, <2>2 DEF Place
  <2> QED BY <2>3, <2>4
<1>22. ASSUME NEW v \in SplThreads PROVE Records(v)' /\ (Current(v)' \/ Out(v)')
  <2>1. CASE v = t
    <3>1. Records(v)'
      BY <1>2, <1>5, <1>6, <1>12, <2>1, Zenon DEF Records
    <3> QED BY <1>12, <2>1, <3>1, Zenon DEF Current
  <2>2. CASE v # t
    <3>1. Records(v)'
      BY <1>13, <2>2, Zenon DEF SplIInv, Records
    <3>2. CASE v = u
      BY <1>3, <1>9, <1>13, <2>2, <3>1, <3>2, Zenon DEF Out
    <3>3. CASE \E d \in SplCpus \ {c} : curthread[d] = v
      BY <1>12, <3>1, <3>3, Zenon DEF Current
    <3>4. CASE ~Current(v)
      BY <1>9, <1>13, <2>2, <3>1, <3>4, Zenon DEF SplIInv, Out
    <3> QED BY <3>1, <3>2, <3>3, <3>4, Zenon DEF Current
  <2> QED BY <2>1, <2>2
<1> QED BY <1>14, <1>16, <1>17, <1>18, <1>19, <1>20, <1>21, <1>22, Zenon DEF SplIInv

\* thread_fork: the new thread starts as if it had called thread_switch.
LEMMA ForkIInv == ASSUME Counting, SplIInv, NEW c \in SplCpus, spl_thread_fork(c) PROVE SplIInv'
<1> DEFINE f == [kind |-> "switch", spl |-> 0, lk |-> 0]
<1>1. PICK t \in unborn :
        /\ ~panicked /\ unborn' = unborn \ {t} /\ ready' = ready \cup {t}
        /\ t_curspl' = [t_curspl EXCEPT ![t] = 1]
        /\ t_iplhigh_count' = [t_iplhigh_count EXCEPT ![t] = 2]
        /\ frames' = [frames EXCEPT ![t] = Append(@, f)]
        /\ UNCHANGED <<curthread, spl_isidle, asleep, iec, lock_vars, t_in_interrupt, spl_pc, panicked>>
  BY Zenon DEF spl_thread_fork, SplAt, Push, IPL_NONE, IPL_HIGH
<1>2. /\ t \in SplThreads /\ ~Current(t) /\ frames[t] = << >> /\ Records(t) /\ SplTypeOK /\ frames[t] \in Seq(Frame)
  BY Zenon DEF SplIInv, SplTypeOK, Apart, Out
<1>3. f \in Frame /\ f.kind = "switch" /\ Enters(frames[t], f) /\ After(f) = 1
  <2>1. 0 \in 0 .. NumLocks /\ Level(frames[t]) = 0
    BY <1>2, SplAssumption DEF Level
  <2> QED BY <1>2, <2>1, Zenon DEF Frame, Before, After, Enters
<1> HIDE DEF f
<1>4. /\ frames' \in [SplThreads -> Seq(Frame)] /\ (\A u \in SplThreads \ {t} : frames'[u] = frames[u])
      /\ frames'[t] = Append(frames[t], f) /\ Stacked(frames'[t]) /\ Level(frames'[t]) = 1
      /\ (Has(frames'[t], "irq") <=> Has(frames[t], "irq"))
  <2>1. frames' = [frames EXCEPT ![t] = Append(@, f)]
    BY <1>1
  <2>2. \A k : Has(frames'[t], k) <=> Has(frames[t], k) \/ f.kind = k
    BY <1>2, <1>3, <2>1, PushesOwn, Zenon
  <2>3. Has(frames'[t], "irq") <=> Has(frames[t], "irq")
    BY <1>3, <2>2, Zenon
  <2> QED BY <1>2, <1>3, <2>1, <2>3, PushesOwn, Zenon
<1>5. /\ t_curspl'[t] = 1 /\ t_iplhigh_count'[t] = 2
      /\ \A u \in SplThreads \ {t} : t_curspl'[u] = t_curspl[u] /\ t_iplhigh_count'[u] = t_iplhigh_count[u]
  BY <1>1, <1>2, Zenon DEF SplTypeOK
<1>6. SplTypeOK'
  BY <1>1, <1>2, <1>4 DEF SplTypeOK, lock_vars
<1>7. Apart'
  BY <1>1, <1>2, Zenon DEF SplIInv, Apart, Current
<1>8. \A d \in SplCpus : curthread'[d] = curthread[d] /\ curthread[d] \in SplThreads \ {t} /\ LocksOf(d)' = LocksOf(d)
  BY <1>1, <1>2 DEF SplTypeOK, Current, LocksOf, lock_vars
<1>9. LocksRight'
  <2>1. ASSUME NEW d \in SplCpus PROVE Depth(curthread[d])' = Depth(curthread[d])
    <3>1. frames'[curthread[d]] = frames[curthread[d]] /\ curthread'[d] = curthread[d]
      BY <1>4, <1>8
    <3> QED BY <3>1, Zenon DEF Depth
  <2>2. \A l \in Locks : splk_holder[l] \in SplCpus \cup {Nobody}
    BY <1>2, Zenon DEF SplTypeOK
  <2> QED BY <1>1, <1>8, <2>1, <2>2, Zenon DEF SplIInv, LocksRight, lock_vars
<1>10. ASSUME NEW d \in SplCpus PROVE Counts(d)' /\ Place(d, frames[curthread[d]])'
  <2>1. Counts(d) /\ Place(d, frames[curthread[d]])
    BY Zenon DEF SplIInv
  <2>2. Counts(d)'
    <3>1. /\ c_spinlocks'[d] = c_spinlocks[d] /\ spl_pc'[d] = spl_pc[d] /\ iec'[d] = iec[d] /\ want'[d] = want[d]
          /\ curthread'[d] = curthread[d] /\ LocksOf(d)' = LocksOf(d)
          /\ t_iplhigh_count'[curthread[d]] = t_iplhigh_count[curthread[d]]
          /\ t_curspl'[curthread[d]] = t_curspl[curthread[d]]
      BY <1>1, <1>5, <1>8, Zenon DEF lock_vars
    <3> QED BY <2>1, <3>1, Zenon DEF Counts
  <2>3. Place(d, frames[curthread[d]])'
    BY <1>1, <1>4, <1>8, <2>1, Zenon DEF Place
  <2> QED BY <2>2, <2>3, Zenon
<1>11. ASSUME NEW u \in SplThreads PROVE Records(u)' /\ (Current(u)' \/ Out(u)')
  <2>1. CASE u = t
    <3>1. Records(u)'
      BY <1>1, <1>2, <1>4, <1>5, <2>1 DEF Records
    <3>2. SwitchAt(frames'[t], Len(frames'[t]))
      <4>1. ~Has(frames[t], "switch")
        BY <1>2 DEF Has
      <4>2. SwitchAt(Append(frames[t], f), Len(frames[t]) + 1)
        BY <1>2, <1>3, <4>1, PushSwitch, Zenon
      <4>3. Len(Append(frames[t], f)) = Len(frames[t]) + 1
        BY <1>2, <1>3
      <4> QED BY <1>4, <4>2, <4>3, Zenon
    <3> QED BY <1>1, <1>5, <2>1, <3>1, <3>2, Zenon DEF Out
  <2>2. CASE u # t
    <3>1. Records(u)'
      BY <1>1, <1>4, <1>5, <2>2, Zenon DEF SplIInv, Records
    <3>2. Current(u)' \/ Out(u)'
      BY <1>1, <1>4, <1>5, <2>2 DEF SplIInv, Out, Current
    <3> QED BY <3>1, <3>2
  <2> QED BY <2>1, <2>2, Zenon
<1> QED BY <1>1, <1>6, <1>7, <1>9, <1>10, <1>11 DEF SplIInv

\* The machine before its threads do anything.
LEMMA SplInitIInv == ASSUME Counting, SplInit PROVE SplIInv
<1>1. SplTypeOK
  <2>1. taker \in [Locks -> (SplThreads \cup {Nobody}) \X Nat]
    BY Zenon DEF SplInit
  <2>2. frames \in [SplThreads -> Seq(Frame)]
    BY DEF SplInit
  <2> QED BY <2>1, <2>2, SplAssumption DEF SplInit, SplTypeOK, Pcs, IPL_NONE
<1>2. Apart
  BY SplAssumption, Zenon DEF SplInit, Apart, Current
<1>3. LocksRight
  BY DEF SplInit, LocksRight
<1>4. ASSUME NEW c \in SplCpus PROVE Counts(c) /\ Place(c, frames[curthread[c]])
  <2>1. LocksOf(c) = {} /\ curthread[c] \in SplThreads
    BY SplAssumption DEF SplInit, LocksOf
  <2>2. Cardinality(LocksOf(c)) = 0
    BY <2>1, LocksCounted, Zenon
  <2>3. Counts(c)
    BY <2>1, <2>2 DEF SplInit, Counts, One, IPL_NONE
  <2>4. frames[curthread[c]] = << >>
    BY <2>1, Zenon DEF SplInit
  <2>5. Place(c, << >>)
    BY DEF SplInit, Place, Switching, Has
  <2> QED BY <2>3, <2>4, <2>5
<1>5. ASSUME NEW t \in SplThreads PROVE Records(t) /\ (Current(t) \/ Out(t))
  <2>1. frames[t] = << >> /\ t_curspl[t] = 0 /\ ~t_in_interrupt[t] /\ t_iplhigh_count[t] = 0
    BY Zenon DEF SplInit, IPL_NONE
  <2>2. Records(t)
    BY <2>1 DEF Records, Stacked, Level, Has
  <2>3. Current(t) \/ t \in unborn
    BY SplAssumption DEF SplInit, Current
  <2> QED BY <2>1, <2>2, <2>3, Zenon DEF Out
<1>6. ~panicked
  BY DEF SplInit
<1> QED BY <1>1, <1>2, <1>3, <1>4, <1>5, <1>6, Zenon DEF SplIInv

\* Every step of a CPU.
LEMMA SplNextIInv == ASSUME Counting, SplIInv, [SplNext]_spl_vars PROVE SplIInv'
<1>1. ASSUME NEW c \in SplCpus, Step(c) PROVE SplIInv'
  BY <1>1, SplhighIInv, SplxCallIInv, AcquireIInv, GotIInv, ReleaseIInv, InterruptIInv, InterruptReturnIInv,
     TrapIInv, TrapReturnIInv, SwitchesIInv, SwitchPickIInv, SwitchIdleIInv, IrqonIInv, IrqoffIInv,
     WakeoneIInv, ForkIInv DEF Step
<1>2. ASSUME UNCHANGED spl_vars PROVE SplIInv'
  <2>1. /\ SplTypeOK' /\ Apart' /\ ~panicked'
    BY <1>2, Zenon DEF SplIInv, SplTypeOK, Apart, Current, spl_vars
  <2>2. LocksRight'
    BY <1>2, Zenon DEF SplIInv, LocksRight, Depth, spl_vars
  <2>3. ASSUME NEW c \in SplCpus PROVE Counts(c)' /\ Place(c, frames[curthread[c]])'
    <3>1. LocksOf(c)' = LocksOf(c)
      BY <1>2 DEF LocksOf, spl_vars
    <3>2. Counts(c)'
      BY <1>2, <3>1, Zenon DEF SplIInv, Counts, spl_vars
    <3>3. Place(c, frames[curthread[c]])'
      BY <1>2, <3>1, Zenon DEF SplIInv, Place, spl_vars
    <3> QED BY <3>2, <3>3
  <2>4. \A t \in SplThreads : Records(t)' /\ (Current(t)' \/ Out(t)')
    BY <1>2, Zenon DEF SplIInv, Records, Current, Out, spl_vars
  <2> QED BY <2>1, <2>2, <2>3, <2>4, Zenon DEF SplIInv
<1> QED BY <1>1, <1>2, Zenon DEF SplNext

\* The reasons of a thread that runs are its count,
LEMMA CurrentReasons ==
  ASSUME Counting, SplIInv, NEW c \in SplCpus, NEW t, t = curthread[c]
  PROVE  t_iplhigh_count[t] = Reasons(t)
<1>1. /\ t \in SplThreads /\ t_curspl[t] \in {0, 1} /\ t_iplhigh_count[t] \in Int
      /\ frames[t] \in Seq(Frame) /\ Len(frames[t]) \in Nat /\ spl_pc[c] \in Pcs /\ spl_isidle[c] \in BOOLEAN
      /\ Counts(c) /\ Place(c, frames[t]) /\ Records(t) /\ SplTypeOK
      /\ \A d \in SplCpus \ {c} : curthread[d] # t
  BY Now, Zenon DEF SplIInv
<1>2. /\ Running(t, {"spin"}) <=> spl_pc[c] = "spin"
      /\ Running(t, {"idle", "idle_irq"}) <=> spl_pc[c] \in {"idle", "idle_irq"}
  BY <1>1 DEF Running, spl_cur
<1>3. {l \in Locks : taker[l][1] = t} = LocksOf(c)
  <2>1. ASSUME NEW l \in Locks PROVE taker[l][1] = t <=> splk_holder[l] = c
    <3>1. splk_holder[l] \in SplCpus \cup {Nobody} /\ t # Nobody /\ c # Nobody
      BY <1>1, SplAssumption, Zenon DEF SplTypeOK
    <3>2. taker[l][1] = IF splk_holder[l] = Nobody THEN Nobody ELSE curthread[splk_holder[l]]
      BY TakerSays DEF SplIInv
    <3> QED BY <1>1, <3>1, <3>2, Zenon
  <2> QED BY <2>1 DEF LocksOf
<1>4. InFrame(t, "switch") <=> spl_pc[c] \in Switching
  <2>1. CASE spl_pc[c] \in Switching
    <3>1. SwitchAt(frames[t], Len(frames[t]))
      BY <1>1, <2>1, Zenon DEF Place
    <3>2. Len(frames[t]) \in 1 .. Len(frames[t]) /\ Top(t).kind = "switch"
      BY <3>1, Zenon DEF SwitchAt, Top
    <3>3. frames[t] # << >>
      <4>1. Len(<< >>) = 0 /\ 0 \notin 1 .. 0
        OBVIOUS
      <4> QED BY <3>2, <4>1, Zenon
    <3> QED BY <2>1, <3>2, <3>3, Zenon DEF InFrame
  <2>2. CASE spl_pc[c] \notin Switching /\ spl_isidle[c]
    <3>1. PICK p \in 1 .. Len(frames[t]) : SwitchAt(frames[t], p) /\ p < Len(frames[t]) /\ frames[t][p + 1].kind = "irq"
      BY <1>1, <2>2, Zenon DEF Place
    <3>2. Top(t).kind \in {"spl", "irq"}
      BY <1>1, <3>1, AboveSwitch, Zenon DEF Records, Top
    <3> QED BY <2>2, <3>2 DEF InFrame
  <2>3. CASE spl_pc[c] \notin Switching /\ ~spl_isidle[c]
    <3>1. ~Has(frames[t], "switch")
      BY <1>1, <2>3, Zenon DEF Place
    <3>2. frames[t] # << >> => Len(frames[t]) \in 1 .. Len(frames[t])
      BY <1>1
    <3> QED BY <2>3, <3>1, <3>2, Zenon DEF InFrame, Top, Has
  <2> QED BY <1>1, <2>1, <2>2, <2>3, Zenon
<1>5. t_iplhigh_count[t] = t_curspl[t] + c_spinlocks[c] /\ c_spinlocks[c] = Cardinality(LocksOf(c)) + One(spl_pc[c] \in {"spin", "pick"})
  BY <1>1, Zenon DEF Counts
<1>6. Cardinality(LocksOf(c)) \in Nat
  BY LocksCounted, Zenon
<1>7. One(spl_pc[c] \in {"spin", "pick"})
        = One(Running(t, {"spin"})) + One(InFrame(t, "switch") /\ ~Running(t, {"idle", "idle_irq"}))
  BY <1>1, <1>2, <1>4 DEF One, Switching, Pcs
<1>8. /\ One(Running(t, {"spin"})) \in Nat
      /\ One(InFrame(t, "switch") /\ ~Running(t, {"idle", "idle_irq"})) \in Nat
  BY Zenon DEF One
<1>9. Reasons(t) = t_curspl[t] + Cardinality(LocksOf(c)) + One(Running(t, {"spin"}))
                    + One(InFrame(t, "switch") /\ ~Running(t, {"idle", "idle_irq"}))
  BY <1>3, Zenon DEF Reasons
<1>10. t_curspl[t] \in Nat
  BY <1>1
<1>11. PICK m \in Nat, n \in Nat : /\ m = One(Running(t, {"spin"}))
                                   /\ n = One(InFrame(t, "switch") /\ ~Running(t, {"idle", "idle_irq"}))
  BY <1>8, Zenon
<1>12. t_iplhigh_count[t] = t_curspl[t] + (Cardinality(LocksOf(c)) + (m + n))
  BY <1>5, <1>7, <1>11, Zenon
<1>13. Reasons(t) = t_curspl[t] + Cardinality(LocksOf(c)) + m + n
  BY <1>9, <1>11, Zenon
<1> QED BY <1>6, <1>10, <1>12, <1>13

\* and so are those of one that does not.
LEMMA OutReasons ==
  ASSUME Counting, SplIInv, NEW t \in SplThreads, ~Current(t)
  PROVE  t_iplhigh_count[t] = Reasons(t)
<1>1. /\ t_curspl[t] = Level(frames[t]) /\ Out(t) /\ frames[t] \in Seq(Frame) /\ Len(frames[t]) \in Nat
  BY DEF SplIInv, SplTypeOK, Records
<1>2. ~Running(t, {"spin"}) /\ ~Running(t, {"idle", "idle_irq"})
  BY DEF Running, spl_cur, Current
<1>3. {l \in Locks : taker[l][1] = t} = {}
  <2>1. ASSUME NEW l \in Locks PROVE taker[l][1] # t
    <3>1. splk_holder[l] \in SplCpus \cup {Nobody} /\ t # Nobody
      BY SplAssumption, Zenon DEF SplIInv, SplTypeOK
    <3>2. taker[l][1] = IF splk_holder[l] = Nobody THEN Nobody ELSE curthread[splk_holder[l]]
      BY TakerSays DEF SplIInv
    <3> QED BY <3>1, <3>2, Zenon DEF Current
  <2> QED BY <2>1
<1>4. Cardinality({l \in Locks : taker[l][1] = t}) = 0
  BY <1>3, Zenon DEF Counting
<1>5. CASE t \in unborn
  <2>1. t_iplhigh_count[t] = 0 /\ t_curspl[t] = 0 /\ ~InFrame(t, "switch")
    BY <1>1, <1>5, Zenon DEF Out, Level, InFrame
  <2> QED BY <1>2, <1>4, <2>1 DEF Reasons, One
<1>6. CASE t \notin unborn
  <2>1. InFrame(t, "switch") /\ t_curspl[t] = 1 /\ t_iplhigh_count[t] = 2
    BY <1>1, <1>6 DEF Out, SwitchAt, InFrame, Top, Level, After
  <2> QED BY <1>2, <1>4, <2>1 DEF Reasons, One
<1> QED BY <1>5, <1>6, Zenon

\* A CPU that holds a spinlock has interrupts off.
LEMMA HolderMasks ==
  ASSUME Counting, SplIInv, NEW c \in SplCpus, NEW l \in Locks, splk_holder[l] = c
  PROVE  ~iec[c]
<1>1. /\ t_curspl[curthread[c]] \in {0, 1} /\ spl_pc[c] \in Pcs /\ Counts(c) /\ Place(c, frames[curthread[c]])
  BY Now
<1>2. LocksOf(c) # {}
  BY DEF LocksOf
<1>3. Cardinality(LocksOf(c)) \in Nat \ {0}
  BY <1>2, LocksCounted, Zenon
<1>4. spl_pc[c] \in {"run", "spin"}
  BY <1>1, <1>2 DEF Place, Switching, Pcs
<1>5. CASE spl_pc[c] = "run"
  <2>1. c_spinlocks[c] = Cardinality(LocksOf(c)) + 0
    BY <1>1, <1>5 DEF Counts, One
  <2>2. t_iplhigh_count[curthread[c]] # 0
    <3>1. t_iplhigh_count[curthread[c]] = t_curspl[curthread[c]] + (Cardinality(LocksOf(c)) + 0)
      BY <1>1, <2>1, Zenon DEF Counts
    <3>2. \A i \in {0, 1}, j \in Nat \ {0} : i + (j + 0) # 0
      OBVIOUS
    <3> QED BY <1>1, <1>3, <3>1, <3>2, Zenon
  <2> QED BY <1>1, <1>5, <2>2, Zenon DEF Counts
<1>6. CASE spl_pc[c] = "spin"
  BY <1>1, <1>6, Zenon DEF Counts
<1> QED BY <1>4, <1>5, <1>6, Zenon

INSTANCE FiniteSetTheorems

\* The sets of spinlocks and of frames are finite.
LEMMA CountingHolds == Counting
<1>1. ASSUME NEW n \in Nat, NEW S \in SUBSET (1 .. n)
      PROVE  IsFiniteSet(S) /\ Cardinality(S) \in Nat /\ (Cardinality(S) = 0 <=> S = {})
  <2>1. IsFiniteSet(1 .. n)
    BY FS_Interval
  <2>2. IsFiniteSet(S)
    BY <2>1, FS_Subset, Zenon
  <2> QED BY <2>2, FS_CardinalityType, FS_EmptySet, Zenon
<1>2. ASSUME NEW S \in SUBSET Locks, NEW l \in Locks, l \notin S
      PROVE  Cardinality(S \cup {l}) = Cardinality(S) + 1
  <2>1. IsFiniteSet(S)
    BY <1>1, SplAssumption DEF Locks
  <2> QED BY <1>2, <2>1, FS_AddElement
<1> QED BY <1>1, <1>2, SplAssumption, Zenon DEF Counting, Locks

\* MaskingExact: t_iplhigh_count is the number of reasons for which interrupts
\* are off, a running thread has them on if and only if there is none, and no
\* assertion of spinlock.c, mips_trap and wchan_sleep fails.
THEOREM MaskingRight == SplSpec => []MaskingExact
<1>1. SplInit => SplIInv
  BY CountingHolds, SplInitIInv
<1>2. SplIInv /\ [SplNext]_spl_vars => SplIInv'
  BY CountingHolds, SplNextIInv, Zenon
<1>3. SplIInv => MaskingExact
  <2> SUFFICES ASSUME SplIInv PROVE MaskingExact
    OBVIOUS
  <2>1. \A t \in SplThreads : t_iplhigh_count[t] = Reasons(t)
    BY CountingHolds, CurrentReasons, OutReasons, Zenon DEF Current
  <2>2. ASSUME NEW c \in SplCpus
        PROVE  /\ spl_pc[c] = "run" => (iec[c] <=> Reasons(spl_cur(c)) = 0)
               /\ spl_pc[c] \in {"spin", "pick", "idle"} => ~iec[c]
               /\ (\E l \in Locks : splk_holder[l] = c) => ~iec[c]
    <3>1. Counts(c) /\ t_iplhigh_count[curthread[c]] = Reasons(curthread[c])
      BY CountingHolds, Now, CurrentReasons, Zenon
    <3> QED BY <3>1, CountingHolds, HolderMasks, Zenon DEF Counts, spl_cur
  <2>3. ~panicked
    BY DEF SplIInv
  <2> QED BY <2>1, <2>2, <2>3 DEF MaskingExact, InterruptsMatchReasons, NoAssertionFails
<1> QED BY <1>1, <1>2, <1>3, PTL DEF SplSpec
=============================================================================
