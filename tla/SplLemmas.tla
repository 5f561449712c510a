------------------------------ MODULE SplLemmas -----------------------------
(***************************************************************************)
(* The inductive invariant of Spl: a thread's count is its spl and the     *)
(* spinlocks of its CPU, a thread that is switched out keeps two reasons,  *)
(* and every frame remembers the spl it was entered with.  And the lemmas  *)
(* its proof needs about frames, spinlocks and the functions of spl.c.     *)
(***************************************************************************)
EXTENDS Spl, TLAPS

Pcs == {"run", "spin", "pick", "idle", "idle_irq"}
Switching == {"pick", "idle", "idle_irq"}

Frame ==
  [kind : {"spl"}, spl : {0, 1}] \cup [kind : {"trap"}, ie : BOOLEAN]
    \cup [kind : {"switch"}, spl : {0, 1}, lk : 0 .. NumLocks]
    \cup [kind : {"irq"}, doadjust : BOOLEAN, old_in : BOOLEAN]

\* The spl a frame was entered with, and the one it runs at.
Before(f) ==
  IF f.kind = "irq" THEN (IF f.doadjust THEN 0 ELSE 1)
  ELSE IF f.kind = "trap" THEN (IF f.ie THEN 0 ELSE 1)
  ELSE f.spl
After(f) == IF f.kind = "trap" THEN Before(f) ELSE 1

Level(s) == IF s = << >> THEN 0 ELSE After(s[Len(s)])
Has(s, kind) == \E i \in 1 .. Len(s) : s[i].kind = kind

\* What frame f finds below it, when s is the stack without it.
Enters(s, f) ==
  /\ Before(f) = Level(s)
  /\ f.kind = "trap" => ~Has(s, "irq")
  /\ f.kind = "irq" =>
       /\ f.doadjust <=> (s = << >> \/ s[Len(s)].kind # "switch")
       /\ f.old_in <=> Has(s, "irq")

\* A stack of frames, each entered from the ones below.
Stacked(s) == \A i \in 1 .. Len(s) : Enters(SubSeq(s, 1, i - 1), s[i])

\* The only switch in stack s is its frame p.
SwitchAt(s, p) ==
  /\ p \in 1 .. Len(s) /\ s[p].kind = "switch"
  /\ \A q \in 1 .. Len(s) : s[q].kind = "switch" => q = p

LocksOf(c) == {l \in Locks : splk_holder[l] = c}
Current(t) == \E c \in SplCpus : curthread[c] = t

SplTypeOK ==
  /\ curthread \in [SplCpus -> SplThreads]
  /\ iec \in [SplCpus -> BOOLEAN]
  /\ c_spinlocks \in [SplCpus -> Int]
  /\ spl_isidle \in [SplCpus -> BOOLEAN]
  /\ splk_holder \in [Locks -> SplCpus \cup {Nobody}]
  /\ taker \in [Locks -> (SplThreads \cup {Nobody}) \X Nat]
  /\ t_curspl \in [SplThreads -> {0, 1}]
  /\ t_iplhigh_count \in [SplThreads -> Int]
  /\ t_in_interrupt \in [SplThreads -> BOOLEAN]
  /\ frames \in [SplThreads -> Seq(Frame)]
  /\ ready \in SUBSET SplThreads /\ asleep \in SUBSET SplThreads /\ unborn \in SUBSET SplThreads
  /\ spl_pc \in [SplCpus -> Pcs]
  /\ want \in [SplCpus -> 0 .. NumLocks]

\* A CPU runs a thread of its own; the threads that can be switched to exist.
Apart ==
  /\ \A c, d \in SplCpus : curthread[c] = curthread[d] => c = d
  /\ \A t \in unborn : ~Current(t) /\ t \notin ready /\ t \notin asleep

\* The spinlocks a CPU holds were taken by its thread, in its innermost context.
LocksRight ==
  \A l \in Locks :
    taker[l] = IF splk_holder[l] = Nobody THEN <<Nobody, 0>>
               ELSE <<curthread[splk_holder[l]], Depth(curthread[splk_holder[l]])>>

\* The reasons of a CPU and of its thread.
Counts(c) ==
  /\ c_spinlocks[c] = Cardinality(LocksOf(c)) + One(spl_pc[c] \in {"spin", "pick"})
  /\ t_iplhigh_count[curthread[c]] = t_curspl[curthread[c]] + c_spinlocks[c]
  /\ spl_pc[c] = "run" => (iec[c] <=> t_iplhigh_count[curthread[c]] = 0)
  /\ spl_pc[c] \in {"spin", "pick", "idle"} => ~iec[c]
  /\ spl_pc[c] = "spin" => want[c] \in Locks

\* An idle CPU is in the switch its thread made, or in a handler above it.
Place(c, s) ==
  /\ spl_pc[c] \in Switching => spl_isidle[c] /\ LocksOf(c) = {} /\ SwitchAt(s, Len(s))
  /\ spl_pc[c] \notin Switching /\ spl_isidle[c] =>
       \E p \in 1 .. Len(s) : SwitchAt(s, p) /\ p < Len(s) /\ s[p + 1].kind = "irq"
  /\ ~spl_isidle[c] => ~Has(s, "switch")

\* What a thread records is what its frames say.
Records(t) ==
  /\ Stacked(frames[t])
  /\ t_curspl[t] = Level(frames[t])
  /\ t_in_interrupt[t] <=> Has(frames[t], "irq")

\* A thread that no CPU runs is new, or inside thread_switch with two reasons.
Out(t) ==
  IF t \in unborn THEN frames[t] = << >> /\ t_iplhigh_count[t] = 0
  ELSE SwitchAt(frames[t], Len(frames[t])) /\ t_iplhigh_count[t] = 2

SplIInv ==
  /\ SplTypeOK /\ Apart /\ LocksRight /\ ~panicked
  /\ \A c \in SplCpus : Counts(c) /\ Place(c, frames[curthread[c]])
  /\ \A t \in SplThreads : Records(t) /\ (Current(t) \/ Out(t))

----------------------------------------------------------------------------
(* Frames and stacks                                                       *)

\* The thread that took a spinlock.
LEMMA TakerSays ==
  ASSUME LocksRight, NEW l \in Locks
  PROVE  taker[l][1] = IF splk_holder[l] = Nobody THEN Nobody ELSE curthread[splk_holder[l]]
<1>1. ASSUME NEW u, NEW n, taker[l] = <<u, n>> PROVE taker[l][1] = u
  BY <1>1
<1>2. PICK u, n : taker[l] = <<u, n>> /\ u = IF splk_holder[l] = Nobody THEN Nobody ELSE curthread[splk_holder[l]]
  <2>1. CASE splk_holder[l] = Nobody
    BY <2>1, Zenon DEF LocksRight
  <2>2. CASE splk_holder[l] # Nobody
    BY <2>2, Zenon DEF LocksRight
  <2> QED BY <2>1, <2>2, Zenon
<1> QED BY <1>1, <1>2, Zenon

\* The fields of a frame.
LEMMA FrameSays ==
  ASSUME NEW f \in Frame
  PROVE  /\ f.kind \in {"spl", "switch", "irq", "trap"}
         /\ f.kind \in {"spl", "switch"} => f.spl \in {0, 1}
         /\ f.kind = "switch" => f.lk \in 0 .. NumLocks
         /\ f.kind = "irq" => f.doadjust \in BOOLEAN /\ f.old_in \in BOOLEAN
         /\ f.kind = "trap" => f.ie \in BOOLEAN
         /\ Before(f) \in {0, 1} /\ After(f) \in {0, 1}
<1>1. /\ f.kind \in {"spl", "switch", "irq", "trap"}
      /\ f.kind \in {"spl", "switch"} => f.spl \in {0, 1}
      /\ f.kind = "switch" => f.lk \in 0 .. NumLocks
      /\ f.kind = "irq" => f.doadjust \in BOOLEAN /\ f.old_in \in BOOLEAN
      /\ f.kind = "trap" => f.ie \in BOOLEAN
  BY DEF Frame
<1> QED BY <1>1 DEF Before, After

\* Prefixes of a stack with a frame more, and of one with a frame less.
LEMMA Pushed ==
  ASSUME NEW S, NEW s \in Seq(S), NEW f \in S, NEW n \in Nat, n = Len(s)
  PROVE  /\ Append(s, f) \in Seq(S) /\ Len(Append(s, f)) = n + 1
         /\ Append(s, f)[n + 1] = f /\ \A i \in 1 .. n : Append(s, f)[i] = s[i]
         /\ SubSeq(Append(s, f), 1, n) = s
         /\ \A i \in 1 .. n : SubSeq(Append(s, f), 1, i - 1) = SubSeq(s, 1, i - 1)
OBVIOUS

\* The same for a frame less.
LEMMA Popped ==
  ASSUME NEW S, NEW s \in Seq(S), NEW n \in Nat, n + 1 = Len(s)
  PROVE  /\ SubSeq(s, 1, n) \in Seq(S) /\ Len(SubSeq(s, 1, n)) = n
         /\ \A i \in 1 .. n : SubSeq(s, 1, n)[i] = s[i]
         /\ \A i \in 1 .. n : SubSeq(SubSeq(s, 1, n), 1, i - 1) = SubSeq(s, 1, i - 1)
OBVIOUS

\* A frame entered from a stack makes a stack.
LEMMA PushStacked ==
  ASSUME NEW s \in Seq(Frame), NEW f \in Frame, Stacked(s), Enters(s, f)
  PROVE  /\ Append(s, f) \in Seq(Frame) /\ Len(Append(s, f)) = Len(s) + 1
         /\ Append(s, f) # << >> /\ Append(s, f)[Len(s) + 1] = f
         /\ Stacked(Append(s, f)) /\ Level(Append(s, f)) = After(f)
<1> DEFINE r == Append(s, f)
<1>1. PICK n \in Nat : n = Len(s)
  OBVIOUS
<1>2. /\ r \in Seq(Frame) /\ Len(r) = n + 1 /\ r[n + 1] = f /\ \A i \in 1 .. n : r[i] = s[i]
      /\ SubSeq(r, 1, n) = s /\ \A i \in 1 .. n : SubSeq(r, 1, i - 1) = SubSeq(s, 1, i - 1)
  BY <1>1, Pushed
<1> HIDE DEF r
<1>3. r # << >>
  BY <1>2
<1>4. ASSUME NEW i \in 1 .. Len(r) PROVE Enters(SubSeq(r, 1, i - 1), r[i])
  <2>1. CASE i = n + 1
    <3>1. i - 1 = n
      BY <2>1
    <3> QED BY <1>2, <2>1, <3>1, Zenon
  <2>2. CASE i \in 1 .. n
    BY <1>1, <1>2, <2>2, Zenon DEF Stacked
  <2> QED BY <1>2, <2>1, <2>2
<1>5. Level(r) = After(f)
  BY <1>2, <1>3 DEF Level
<1> QED BY <1>1, <1>2, <1>3, <1>4, <1>5 DEF Stacked, r

\* What kinds of frames are on the stack then.
LEMMA PushHas ==
  ASSUME NEW s \in Seq(Frame), NEW f \in Frame, NEW k
  PROVE  Has(Append(s, f), k) <=> Has(s, k) \/ f.kind = k
<1> DEFINE r == Append(s, f)
<1>1. PICK n \in Nat : n = Len(s)
  OBVIOUS
<1>2. Len(r) = n + 1 /\ r[n + 1] = f /\ \A i \in 1 .. n : r[i] = s[i]
  BY <1>1, Pushed
<1> HIDE DEF r
<1>3. n + 1 \in 1 .. n + 1 /\ \A i \in 1 .. n + 1 : i = n + 1 \/ i \in 1 .. n
  OBVIOUS
<1>4. \A i \in 1 .. n : i \in 1 .. n + 1
  OBVIOUS
<1>5. Has(r, k) <=> \E i \in 1 .. n + 1 : r[i].kind = k
  BY <1>2 DEF Has
<1>6. Has(s, k) <=> \E i \in 1 .. n : s[i].kind = k
  BY <1>1 DEF Has
<1>7. Has(r, k) => Has(s, k) \/ f.kind = k
  BY <1>2, <1>3, <1>5, <1>6
<1>8. f.kind = k => Has(r, k)
  BY <1>2, <1>3, <1>5
<1>9. Has(s, k) => Has(r, k)
  BY <1>2, <1>4, <1>5, <1>6
<1> QED BY <1>7, <1>8, <1>9 DEF r

\* Where its switch is.
LEMMA PushSwitch ==
  ASSUME NEW s \in Seq(Frame), NEW f \in Frame
  PROVE  /\ f.kind = "switch" /\ ~Has(s, "switch") => SwitchAt(Append(s, f), Len(s) + 1)
         /\ \A p \in 1 .. Len(s) : f.kind # "switch" /\ SwitchAt(s, p) => SwitchAt(Append(s, f), p)
<1> DEFINE r == Append(s, f)
<1>1. PICK n \in Nat : n = Len(s)
  OBVIOUS
<1>2. Len(r) = n + 1 /\ r[n + 1] = f /\ \A i \in 1 .. n : r[i] = s[i]
  BY <1>1, Pushed
<1> HIDE DEF r
<1>3. n + 1 \in 1 .. n + 1 /\ \A i \in 1 .. n + 1 : i = n + 1 \/ i \in 1 .. n
  OBVIOUS
<1>4. \A i \in 1 .. n : i \in 1 .. n + 1
  OBVIOUS
<1>5. ASSUME f.kind = "switch", ~Has(s, "switch") PROVE SwitchAt(r, n + 1)
  BY <1>1, <1>2, <1>3, <1>5 DEF Has, SwitchAt
<1>6. ASSUME NEW p \in 1 .. n, f.kind # "switch", SwitchAt(s, p) PROVE SwitchAt(r, p)
  BY <1>1, <1>2, <1>3, <1>4, <1>6 DEF SwitchAt
<1> QED BY <1>1, <1>5, <1>6 DEF r

\* The stack below its last frame.
LEMMA PopStacked ==
  ASSUME NEW s \in Seq(Frame), s # << >>, Stacked(s)
  PROVE  LET r == SubSeq(s, 1, Len(s) - 1)
             f == s[Len(s)]
         IN  /\ r \in Seq(Frame) /\ Len(r) = Len(s) - 1 /\ f \in Frame /\ Stacked(r) /\ Enters(r, f)
             /\ Level(s) = After(f) /\ Level(r) = Before(f)
<1> DEFINE f == s[Len(s)]
<1>1. PICK n \in Nat : n + 1 = Len(s)
  <2>1. Len(s) \in Nat /\ Len(s) # 0
    OBVIOUS
  <2>2. Len(s) - 1 \in Nat /\ (Len(s) - 1) + 1 = Len(s)
    BY <2>1
  <2> QED BY <2>2, Zenon
<1> DEFINE r == SubSeq(s, 1, n)
<1>2. /\ r \in Seq(Frame) /\ Len(r) = n
      /\ \A i \in 1 .. n : r[i] = s[i] /\ SubSeq(r, 1, i - 1) = SubSeq(s, 1, i - 1)
  BY <1>1, Popped
<1>3. f \in Frame /\ Len(s) - 1 = n /\ Len(s) \in 1 .. Len(s) /\ Level(s) = After(f)
  BY <1>1 DEF Level
<1>4. Enters(r, f)
  BY <1>1, <1>3 DEF Stacked
<1> HIDE DEF r, f
<1>5. Stacked(r)
  <2>1. \A i \in 1 .. n : i \in 1 .. Len(s)
    BY <1>1
  <2> QED BY <1>2, <2>1, Zenon DEF Stacked
<1>6. Level(r) = Before(f)
  BY <1>4 DEF Enters
<1> QED BY <1>2, <1>3, <1>4, <1>5, <1>6 DEF r, f

\* What kinds of frames are on it.
LEMMA PopHas ==
  ASSUME NEW s \in Seq(Frame), s # << >>, NEW k
  PROVE  Has(s, k) <=> Has(SubSeq(s, 1, Len(s) - 1), k) \/ s[Len(s)].kind = k
<1>1. PICK n \in Nat : n + 1 = Len(s)
  <2>1. Len(s) \in Nat /\ Len(s) # 0
    OBVIOUS
  <2>2. Len(s) - 1 \in Nat /\ (Len(s) - 1) + 1 = Len(s)
    BY <2>1
  <2> QED BY <2>2, Zenon
<1> DEFINE r == SubSeq(s, 1, n)
<1>2. Len(r) = n /\ (\A i \in 1 .. n : r[i] = s[i]) /\ Len(s) - 1 = n
  BY <1>1, Popped
<1> HIDE DEF r
<1>3. n + 1 \in 1 .. n + 1 /\ (\A i \in 1 .. n + 1 : i = n + 1 \/ i \in 1 .. n) /\ \A i \in 1 .. n : i \in 1 .. n + 1
  OBVIOUS
<1>4. Has(s, k) <=> \E i \in 1 .. n + 1 : s[i].kind = k
  BY <1>1 DEF Has
<1>5. Has(r, k) <=> \E i \in 1 .. n : r[i].kind = k
  BY <1>2 DEF Has
<1>6. Has(s, k) => Has(r, k) \/ s[n + 1].kind = k
  BY <1>2, <1>3, <1>4, <1>5
<1>7. Has(r, k) \/ s[n + 1].kind = k => Has(s, k)
  BY <1>2, <1>3, <1>4, <1>5
<1> QED BY <1>1, <1>2, <1>6, <1>7 DEF r

\* Where its switch is.
LEMMA PopSwitch ==
  ASSUME NEW s \in Seq(Frame), s # << >>
  PROVE  LET r == SubSeq(s, 1, Len(s) - 1)
         IN  /\ SwitchAt(s, Len(s)) => ~Has(r, "switch")
             /\ \A p \in 1 .. Len(s) : SwitchAt(s, p) /\ p < Len(s) => SwitchAt(r, p)
<1>1. PICK n \in Nat : n + 1 = Len(s)
  <2>1. Len(s) \in Nat /\ Len(s) # 0
    OBVIOUS
  <2>2. Len(s) - 1 \in Nat /\ (Len(s) - 1) + 1 = Len(s)
    BY <2>1
  <2> QED BY <2>2, Zenon
<1> DEFINE r == SubSeq(s, 1, n)
<1>2. Len(r) = n /\ (\A i \in 1 .. n : r[i] = s[i]) /\ Len(s) - 1 = n
  BY <1>1, Popped
<1> HIDE DEF r
<1>3. \A i \in 1 .. n : i \in 1 .. n + 1 /\ i # n + 1
  OBVIOUS
<1>4. SwitchAt(s, n + 1) => ~Has(r, "switch")
  BY <1>1, <1>2, <1>3 DEF SwitchAt, Has
<1>5. ASSUME NEW p \in 1 .. n + 1, SwitchAt(s, p), p < n + 1 PROVE SwitchAt(r, p)
  <2>1. p \in 1 .. n
    BY <1>5
  <2> QED BY <1>1, <1>2, <1>3, <1>5, <2>1 DEF SwitchAt
<1> QED BY <1>1, <1>2, <1>4, <1>5 DEF r

\* An spl or a switch makes no new context, and its end none less.
LEMMA DepthKept ==
  ASSUME NEW s \in Seq(Frame), NEW f \in Frame, f.kind \notin {"irq", "trap"}
  PROVE  {i \in 1 .. Len(Append(s, f)) : Append(s, f)[i].kind \in {"irq", "trap"}}
           = {i \in 1 .. Len(s) : s[i].kind \in {"irq", "trap"}}
<1> DEFINE r == Append(s, f)
<1>1. PICK n \in Nat : n = Len(s)
  OBVIOUS
<1>2. Len(r) = n + 1 /\ r[n + 1] = f /\ \A i \in 1 .. n : r[i] = s[i]
  BY <1>1, Pushed
<1> HIDE DEF r
<1>3. (\A i \in 1 .. n + 1 : i = n + 1 \/ i \in 1 .. n) /\ \A i \in 1 .. n : i \in 1 .. n + 1
  OBVIOUS
<1>4. {i \in 1 .. n + 1 : r[i].kind \in {"irq", "trap"}} = {i \in 1 .. n : s[i].kind \in {"irq", "trap"}}
  BY <1>2, <1>3
<1> QED BY <1>1, <1>2, <1>4 DEF r

\* The same for the end of an spl or a switch.
LEMMA DepthLeft ==
  ASSUME NEW s \in Seq(Frame), s # << >>, s[Len(s)].kind \notin {"irq", "trap"}
  PROVE  LET r == SubSeq(s, 1, Len(s) - 1)
         IN  {i \in 1 .. Len(r) : r[i].kind \in {"irq", "trap"}} = {i \in 1 .. Len(s) : s[i].kind \in {"irq", "trap"}}
<1>1. PICK n \in Nat : n + 1 = Len(s)
  <2>1. Len(s) \in Nat /\ Len(s) # 0
    OBVIOUS
  <2>2. Len(s) - 1 \in Nat /\ (Len(s) - 1) + 1 = Len(s)
    BY <2>1
  <2> QED BY <2>2, Zenon
<1> DEFINE r == SubSeq(s, 1, n)
<1>2. Len(r) = n /\ (\A i \in 1 .. n : r[i] = s[i]) /\ Len(s) - 1 = n
  BY <1>1, Popped
<1> HIDE DEF r
<1>3. (\A i \in 1 .. n + 1 : i = n + 1 \/ i \in 1 .. n) /\ \A i \in 1 .. n : i \in 1 .. n + 1
  OBVIOUS
<1>4. {i \in 1 .. n : r[i].kind \in {"irq", "trap"}} = {i \in 1 .. n + 1 : s[i].kind \in {"irq", "trap"}}
  BY <1>1, <1>2, <1>3
<1> QED BY <1>1, <1>2, <1>4 DEF r

----------------------------------------------------------------------------
(* A CPU and its thread                                                    *)

\* What the proofs use of Cardinality; it holds (CountingHolds, at the end).
Counting ==
  /\ \A S \in SUBSET Locks : Cardinality(S) \in Nat /\ (Cardinality(S) = 0 <=> S = {})
  /\ \A S \in SUBSET Locks, l \in Locks : l \notin S => Cardinality(S \cup {l}) = Cardinality(S) + 1
  /\ \A n \in Nat : \A S \in SUBSET (1 .. n) : Cardinality(S) \in Nat

\* The number of spinlocks of a CPU.
LEMMA LocksCounted ==
  ASSUME Counting, NEW c
  PROVE  /\ LocksOf(c) \in SUBSET Locks /\ Cardinality(LocksOf(c)) \in Nat
         /\ Cardinality(LocksOf(c)) = 0 <=> LocksOf(c) = {}
<1>1. LocksOf(c) \in SUBSET Locks
  BY DEF LocksOf
<1> QED BY <1>1 DEF Counting

\* A spinlock more, or less, or a single one.
LEMMA LockCounted ==
  ASSUME Counting, NEW S \in SUBSET Locks, NEW l \in Locks
  PROVE  /\ l \notin S => Cardinality(S \cup {l}) = Cardinality(S) + 1
         /\ l \in S => Cardinality(S \ {l}) = Cardinality(S) - 1
         /\ Cardinality({l}) = 1 /\ Cardinality(S) \in Nat
<1>1. ASSUME NEW T \in SUBSET Locks, l \notin T
      PROVE  Cardinality(T \cup {l}) = Cardinality(T) + 1 /\ Cardinality(T) \in Nat
  BY <1>1 DEF Counting
<1>2. l \in S => Cardinality(S \ {l}) = Cardinality(S) - 1
  <2>1. l \in S => (S \ {l}) \cup {l} = S
    OBVIOUS
  <2>2. S \ {l} \in SUBSET Locks /\ l \notin S \ {l}
    OBVIOUS
  <2> QED BY <1>1, <2>1, <2>2
<1>3. Cardinality({l}) = 1
  <2>1. Cardinality({}) = 0
    BY DEF Counting
  <2>2. {} \cup {l} = {l}
    OBVIOUS
  <2> QED BY <1>1, <2>1, <2>2
<1>4. Cardinality(S) \in Nat
  BY DEF Counting
<1> QED BY <1>1, <1>2, <1>3, <1>4

\* The number of contexts.
LEMMA DepthType == ASSUME Counting, NEW t, NEW n \in Nat, n = Len(frames[t]) PROVE Depth(t) \in Nat
<1> DEFINE S == {i \in 1 .. n : frames[t][i].kind \in {"irq", "trap"}}
<1>1. S \in SUBSET (1 .. n)
  OBVIOUS
<1>2. Cardinality(S) \in Nat
  BY <1>1, Zenon DEF Counting
<1> QED BY <1>2 DEF Depth

\* What is known of a CPU that takes a step: the spinlocks of its innermost
\* context are all it holds.
LEMMA Now ==
  ASSUME Counting, SplIInv, NEW c \in SplCpus, NEW t, t = curthread[c]
  PROVE  /\ t \in SplThreads /\ t_curspl[t] \in {0, 1} /\ t_iplhigh_count[t] \in Int
         /\ c_spinlocks[c] \in Nat /\ iec[c] \in BOOLEAN /\ spl_isidle[c] \in BOOLEAN
         /\ frames[t] \in Seq(Frame) /\ Len(frames[t]) \in Nat /\ spl_pc[c] \in Pcs
         /\ Counts(c) /\ Place(c, frames[t]) /\ Records(t) /\ t \notin unborn
         /\ \A d \in SplCpus \ {c} : curthread[d] # t
         /\ Held(t) = LocksOf(c)
<1>1. /\ t \in SplThreads /\ t_curspl[t] \in {0, 1} /\ t_iplhigh_count[t] \in Int
      /\ c_spinlocks[c] \in Int /\ iec[c] \in BOOLEAN /\ spl_isidle[c] \in BOOLEAN
      /\ frames[t] \in Seq(Frame) /\ spl_pc[c] \in Pcs
  BY DEF SplIInv, SplTypeOK
<1>2. Counts(c) /\ Place(c, frames[t]) /\ Records(t) /\ c_spinlocks[c] \in Nat
  <2>1. Counts(c) /\ Place(c, frames[t]) /\ Records(t)
    BY <1>1 DEF SplIInv
  <2> QED BY <2>1, LocksCounted DEF Counts, One
<1>3. t \notin unborn /\ \A d \in SplCpus \ {c} : curthread[d] # t
  BY DEF SplIInv, Apart, Current
<1>4. ASSUME NEW l \in Locks PROVE taker[l] = <<t, Depth(t)>> <=> splk_holder[l] = c
  <2>1. splk_holder[l] \in SplCpus \cup {Nobody} /\ t # Nobody /\ c # Nobody
    BY <1>1, SplAssumption DEF SplIInv, SplTypeOK
  <2>2. CASE splk_holder[l] = Nobody
    <3>1. taker[l] = <<Nobody, 0>>
      BY <2>2, Zenon DEF SplIInv, LocksRight
    <3> QED BY <2>1, <2>2, <3>1
  <2>3. CASE splk_holder[l] = c
    BY <2>1, <2>3, Zenon DEF SplIInv, LocksRight
  <2>4. CASE splk_holder[l] \in SplCpus \ {c}
    <3>1. taker[l] = <<curthread[splk_holder[l]], Depth(curthread[splk_holder[l]])>>
      BY <2>4, SplAssumption, Zenon DEF SplIInv, LocksRight
    <3> QED BY <1>3, <2>4, <3>1
  <2> QED BY <2>1, <2>2, <2>3, <2>4
<1>5. Held(t) = LocksOf(c)
  BY <1>4 DEF Held, LocksOf
<1> QED BY <1>1, <1>2, <1>3, <1>5

\* What a step of a CPU leaves alone: the other CPUs and their threads.
OthersKept(c) ==
  /\ \A d \in SplCpus \ {c} : /\ iec'[d] = iec[d] /\ c_spinlocks'[d] = c_spinlocks[d]
                               /\ spl_isidle'[d] = spl_isidle[d]
                               /\ spl_pc'[d] = spl_pc[d] /\ want'[d] = want[d]
  /\ \A u \in SplThreads \ {curthread[c]} :
       /\ t_curspl'[u] = t_curspl[u] /\ t_iplhigh_count'[u] = t_iplhigh_count[u]
       /\ t_in_interrupt'[u] = t_in_interrupt[u] /\ frames'[u] = frames[u]

\* A step that moves no spinlock, and changes its context only without any.
LEMMA LocksKept ==
  ASSUME Counting, SplIInv, NEW c \in SplCpus, OthersKept(c), curthread' = curthread,
         splk_holder' = splk_holder, taker' = taker,
         LocksOf(c) = {} \/ Depth(curthread[c])' = Depth(curthread[c])
  PROVE  LocksRight' /\ \A d \in SplCpus : LocksOf(d)' = LocksOf(d)
<1>1. \A d \in SplCpus : LocksOf(d)' = LocksOf(d)
  BY DEF LocksOf
<1>2. ASSUME NEW d \in SplCpus \ {c} PROVE Depth(curthread[d])' = Depth(curthread[d])
  <2>1. curthread[d] \in SplThreads \ {curthread[c]}
    BY DEF SplIInv, SplTypeOK, Apart
  <2>2. frames'[curthread[d]] = frames[curthread[d]]
    BY <2>1 DEF OthersKept
  <2> QED BY <2>2 DEF Depth
<1>3. ASSUME NEW l \in Locks
      PROVE  taker'[l] = IF splk_holder'[l] = Nobody THEN <<Nobody, 0>>
                         ELSE <<curthread'[splk_holder'[l]], Depth(curthread[splk_holder[l]])'>>
  <2>1. splk_holder[l] \in SplCpus \cup {Nobody} /\ c # Nobody
    BY SplAssumption, Zenon DEF SplIInv, SplTypeOK
  <2>2. taker[l] = IF splk_holder[l] = Nobody THEN <<Nobody, 0>>
                   ELSE <<curthread[splk_holder[l]], Depth(curthread[splk_holder[l]])>>
    BY DEF SplIInv, LocksRight
  <2>3. CASE splk_holder[l] = Nobody
    BY <2>2, <2>3
  <2>4. CASE splk_holder[l] = c
    <3>1. Depth(curthread[c])' = Depth(curthread[c])
      BY <2>4 DEF LocksOf
    <3> QED BY <2>1, <2>2, <2>4, <3>1
  <2>5. CASE splk_holder[l] \in SplCpus \ {c}
    <3>1. Depth(curthread[splk_holder[l]])' = Depth(curthread[splk_holder[l]])
      BY <1>2, <2>5
    <3> QED BY <2>2, <2>5, <3>1
  <2> QED BY <2>1, <2>3, <2>4, <2>5
<1> QED BY <1>1, <1>3 DEF LocksRight

\* A step of a CPU keeps the invariant if it does so for that CPU and its thread.
LEMMA Local ==
  ASSUME Counting, SplIInv, NEW c \in SplCpus, OthersKept(c), SplTypeOK', curthread' = curthread,
         unborn' = unborn, \A u \in unborn : u \notin ready' /\ u \notin asleep',
         LocksRight', \A d \in SplCpus \ {c} : LocksOf(d)' = LocksOf(d),
         ~panicked', Counts(c)', Place(c, frames[curthread[c]])', Records(curthread[c])'
  PROVE  SplIInv'
<1>1. Apart'
  BY DEF SplIInv, Apart, Current
<1>2. ASSUME NEW d \in SplCpus \ {c} PROVE Counts(d)' /\ Place(d, frames[curthread[d]])'
  <2>1. curthread[d] \in SplThreads \ {curthread[c]} /\ curthread'[d] = curthread[d]
    BY DEF SplIInv, SplTypeOK, Apart
  <2>2. /\ t_curspl'[curthread[d]] = t_curspl[curthread[d]]
        /\ t_iplhigh_count'[curthread[d]] = t_iplhigh_count[curthread[d]]
        /\ frames'[curthread[d]] = frames[curthread[d]]
    BY <2>1, Zenon DEF OthersKept
  <2>3. /\ iec'[d] = iec[d] /\ c_spinlocks'[d] = c_spinlocks[d] /\ spl_isidle'[d] = spl_isidle[d]
        /\ spl_pc'[d] = spl_pc[d] /\ want'[d] = want[d] /\ LocksOf(d)' = LocksOf(d)
    BY DEF OthersKept
  <2>4. Counts(d) /\ Place(d, frames[curthread[d]])
    BY Zenon DEF SplIInv
  <2>5. Counts(d)'
    BY <2>1, <2>2, <2>3, <2>4 DEF Counts
  <2>6. Place(d, frames[curthread[d]])'
    BY <2>1, <2>2, <2>3, <2>4, Zenon DEF Place
  <2> QED BY <2>5, <2>6, Zenon
<1>3. ASSUME NEW u \in SplThreads \ {curthread[c]} PROVE Records(u)' /\ (Current(u)' \/ Out(u)')
  <2>1. /\ t_curspl'[u] = t_curspl[u] /\ t_iplhigh_count'[u] = t_iplhigh_count[u]
        /\ t_in_interrupt'[u] = t_in_interrupt[u] /\ frames'[u] = frames[u]
    BY DEF OthersKept
  <2>2. Records(u) /\ (Current(u) \/ Out(u))
    BY DEF SplIInv
  <2>3. Records(u)'
    BY <2>1, <2>2 DEF Records
  <2>4. Current(u)' \/ Out(u)'
    BY <2>1, <2>2 DEF Current, Out
  <2> QED BY <2>3, <2>4
<1>4. Current(curthread[c])'
  BY DEF Current
<1>5. \A d \in SplCpus : Counts(d)' /\ Place(d, frames[curthread[d]])'
  BY <1>2
<1>6. \A u \in SplThreads : Records(u)' /\ (Current(u)' \/ Out(u)')
  BY <1>3, <1>4
<1> QED BY <1>1, <1>5, <1>6 DEF SplIInv

----------------------------------------------------------------------------
(* The functions of spl.c                                                  *)

SplState == [spl : {0, 1}, high : Int, ie : BOOLEAN]
Reads(r, a, h, e) == r \in SplState /\ r.spl = a /\ r.high = h /\ (r.ie <=> e)

\* One field of such a state is assigned: the spl,
LEMMA SplAssigned == ASSUME NEW s \in SplState, NEW a \in {0, 1} PROVE Reads([s EXCEPT !.spl = a], a, s.high, s.ie)
BY DEF Reads, SplState

\* the count,
LEMMA HighAssigned == ASSUME NEW s \in SplState, NEW h \in Int PROVE Reads([s EXCEPT !.high = h], s.spl, h, s.ie)
BY DEF Reads, SplState

\* or the enable bit.
LEMMA IeAssigned == ASSUME NEW s \in SplState, NEW e \in BOOLEAN PROVE Reads([s EXCEPT !.ie = e], s.spl, s.high, e)
BY DEF Reads, SplState

\* splraise and spllower.
LEMMA RaiseLower ==
  ASSUME NEW s \in SplState
  PROVE  /\ Reads(splraise(s), s.spl, s.high + 1, s.ie /\ s.high # 0)
         /\ Reads(spllower(s), s.spl, s.high - 1, s.ie \/ s.high = 1)
<1> DEFINE e == (s.ie /\ s.high # 0)
           g == (s.ie \/ s.high = 1)
           q == [s EXCEPT !.high = s.high + 1]
           r == [s EXCEPT !.high = s.high - 1]
<1>1. s.high + 1 \in Int /\ s.high - 1 \in Int /\ s.spl \in {0, 1} /\ s.ie \in BOOLEAN
  BY DEF SplState
<1>2. Reads(q, s.spl, s.high + 1, s.ie) /\ Reads(r, s.spl, s.high - 1, s.ie)
  BY <1>1, HighAssigned
<1>3. e \in BOOLEAN /\ g \in BOOLEAN
  OBVIOUS
<1>4. splraise(s) = [q EXCEPT !.ie = e] /\ spllower(s) = [r EXCEPT !.ie = g]
  BY <1>1, Zenon DEF splraise, spllower, SplState
<1> HIDE DEF e, g, q, r
<1>5. Reads([q EXCEPT !.ie = e], s.spl, s.high + 1, e)
  <2>1. q \in SplState /\ q.spl = s.spl /\ q.high = s.high + 1
    BY <1>2 DEF Reads
  <2> QED BY <1>3, <2>1, IeAssigned
<1>6. Reads([r EXCEPT !.ie = g], s.spl, s.high - 1, g)
  <2>1. r \in SplState /\ r.spl = s.spl /\ r.high = s.high - 1
    BY <1>2 DEF Reads
  <2> QED BY <1>3, <2>1, IeAssigned
<1> QED BY <1>4, <1>5, <1>6 DEF e, g

\* splx to IPL_HIGH and to IPL_NONE.
LEMMA SplxSays ==
  ASSUME NEW s \in SplState
  PROVE  /\ Reads(splx(s, 1), 1, s.high + 1 - s.spl, s.ie /\ (s.spl = 1 \/ s.high # 0))
         /\ Reads(splx(s, 0), 0, s.high - s.spl, s.ie \/ (s.spl = 1 /\ s.high = 1))
<1>1. s.spl \in {0, 1} /\ s.high \in Int
  BY DEF SplState
<1>2. CASE s.spl = 0
  <2>1. splx(s, 0) = s /\ splx(s, 1) = [splraise(s) EXCEPT !.spl = 1]
    BY <1>2 DEF splx
  <2>2. Reads(splraise(s), s.spl, s.high + 1, s.ie /\ s.high # 0)
    BY RaiseLower
  <2>3. Reads([splraise(s) EXCEPT !.spl = 1], 1, s.high + 1, s.ie /\ s.high # 0)
    <3>1. splraise(s) \in SplState /\ splraise(s).high = s.high + 1 /\ (splraise(s).ie <=> s.ie /\ s.high # 0)
      BY <2>2 DEF Reads
    <3>2. Reads([splraise(s) EXCEPT !.spl = 1], 1, splraise(s).high, splraise(s).ie)
      BY <3>1, SplAssigned, Zenon
    <3> QED BY <3>1, <3>2 DEF Reads
  <2>4. Reads(splx(s, 1), 1, s.high + 1 - s.spl, s.ie /\ (s.spl = 1 \/ s.high # 0))
    <3>1. s.high + 1 - s.spl = s.high + 1 /\ ~(s.spl = 1)
      BY <1>1, <1>2
    <3> QED BY <2>1, <2>3, <3>1, Zenon DEF Reads
  <2>5. Reads(s, 0, s.high - s.spl, s.ie \/ (s.spl = 1 /\ s.high = 1))
    <3>1. s.high - s.spl = s.high /\ ~(s.spl = 1)
      BY <1>1, <1>2
    <3> QED BY <1>2, <3>1, Zenon DEF Reads
  <2> QED BY <2>1, <2>4, <2>5
<1>3. CASE s.spl = 1
  <2> DEFINE r == [s EXCEPT !.spl = 0]
  <2>1. splx(s, 1) = s /\ splx(s, 0) = spllower(r)
    BY <1>3 DEF splx
  <2>2. r \in SplState /\ r.spl = 0 /\ r.high = s.high /\ r.ie = s.ie
    BY DEF SplState
  <2> HIDE DEF r
  <2>3. Reads(spllower(r), 0, s.high - 1, s.ie \/ s.high = 1)
    BY <2>2, RaiseLower
  <2> QED BY <1>1, <1>3, <2>1, <2>3 DEF Reads
<1> QED BY <1>1, <1>2, <1>3

\* What a CPU and a thread record is such a state.
LEMMA StateSays ==
  ASSUME SplTypeOK, NEW c \in SplCpus, NEW t \in SplThreads
  PROVE  /\ State(c, t) \in SplState /\ State(c, t).spl = t_curspl[t]
         /\ State(c, t).high = t_iplhigh_count[t] /\ State(c, t).ie = iec[c]
BY DEF SplTypeOK, State, SplState

----------------------------------------------------------------------------
(* A CPU enters and leaves frames of its thread                            *)

\* Above the switch of an idle CPU there is one handler and its spl calls.
LEMMA AboveSwitch ==
  ASSUME NEW s \in Seq(Frame), Stacked(s), NEW p \in 1 .. Len(s), SwitchAt(s, p), p < Len(s), s[p + 1].kind = "irq"
  PROVE  /\ s # << >> /\ Has(s, "irq") /\ Level(s) = 1
         /\ s[Len(s)].kind \in {"spl", "irq"} /\ (s[Len(s)].kind = "irq" => p = Len(s) - 1)
<1>1. PICK n \in Nat : n = Len(s)
  OBVIOUS
<1>2. p \in Nat /\ p + 1 \in 1 .. n /\ n \in 1 .. n /\ s # << >>
  BY <1>1
<1>3. Has(s, "irq")
  BY <1>1, <1>2 DEF Has
<1>4. ASSUME NEW i \in 1 .. n, p + 1 < i PROVE s[i].kind # "trap"
  <2> DEFINE b == SubSeq(s, 1, i - 1)
  <2>1. Len(b) = i - 1 /\ p + 1 \in 1 .. i - 1 /\ b[p + 1] = s[p + 1]
    BY <1>1, <1>2, <1>4
  <2>2. Enters(b, s[i])
    BY <1>1 DEF Stacked
  <2> HIDE DEF b
  <2>3. Has(b, "irq")
    BY <2>1 DEF Has
  <2> QED BY <2>2, <2>3 DEF Enters
<1>5. \A i \in 1 .. n : s[i] \in Frame
  BY <1>1
<1>6. s[n].kind \notin {"trap", "switch"}
  <2>1. n = p + 1 \/ p + 1 < n
    BY <1>1, <1>2
  <2>2. s[n].kind # "trap"
    BY <1>2, <1>4, <2>1
  <2>3. n # p
    BY <1>1
  <2>4. s[n].kind # "switch"
    BY <1>1, <1>2, <2>3 DEF SwitchAt
  <2> QED BY <2>2, <2>4
<1>7. s[n].kind \in {"spl", "irq"} /\ Level(s) = 1
  <2>1. s[n].kind \in {"spl", "switch", "irq", "trap"}
    BY <1>2, <1>5, FrameSays
  <2> QED BY <1>1, <1>2, <1>6, <2>1 DEF Level, After
<1>8. ASSUME s[n].kind = "irq", p + 1 # n PROVE FALSE
  <2> DEFINE b == SubSeq(s, 1, n - 1)
             f == s[n]
             g == s[n - 1]
  <2>1. n - 1 \in 1 .. n /\ p + 1 <= n - 1 /\ Len(b) = n - 1 /\ b[n - 1] = g /\ b # << >>
    <3>1. PICK m \in Nat : m = n - 1 /\ p + 1 <= m /\ m \in 1 .. n /\ m \in 1 .. m
      BY <1>1, <1>2, <1>8
    <3>2. Len(SubSeq(s, 1, m)) = m /\ SubSeq(s, 1, m)[m] = s[m]
      BY <1>1, <3>1
    <3>3. SubSeq(s, 1, m) # << >>
      BY <3>1, <3>2
    <3> QED BY <3>1, <3>2, <3>3
  <2>2. Enters(b, f)
    BY <1>1, <1>2 DEF Stacked
  <2>3. g.kind # "switch"
    BY <1>1, <1>2, <2>1 DEF SwitchAt
  <2>4. g.kind # "trap"
    <3>1. n - 1 = p + 1 \/ p + 1 < n - 1
      BY <1>2, <2>1
    <3> QED BY <1>4, <2>1, <3>1
  <2> HIDE DEF b, f, g
  <2>5. Level(b) = 1
    BY <2>1, <2>4 DEF Level, After
  <2>6. f.doadjust
    BY <1>8, <2>1, <2>2, <2>3 DEF Enters, f
  <2>7. Before(f) = 0
    BY <1>8, <2>6 DEF Before, f
  <2> QED BY <2>2, <2>5, <2>7 DEF Enters
<1>9. s[n].kind = "irq" => p = n - 1
  BY <1>1, <1>2, <1>8
<1> QED BY <1>1, <1>2, <1>3, <1>7, <1>9

\* A frame is entered.
LEMMA PushesOwn ==
  ASSUME Counting, SplIInv, NEW t \in SplThreads, Records(t), NEW f \in Frame, Enters(frames[t], f),
         frames' = [frames EXCEPT ![t] = Append(@, f)]
  PROVE  /\ frames' \in [SplThreads -> Seq(Frame)]
         /\ \A u \in SplThreads \ {t} : frames'[u] = frames[u]
         /\ frames'[t] = Append(frames[t], f)
         /\ Stacked(frames'[t]) /\ Level(frames'[t]) = After(f)
         /\ \A k : Has(frames'[t], k) <=> Has(frames[t], k) \/ f.kind = k
         /\ f.kind \notin {"irq", "trap"} => Depth(t)' = Depth(t)
<1>1. frames[t] \in Seq(Frame) /\ frames \in [SplThreads -> Seq(Frame)]
  BY DEF SplIInv, SplTypeOK
<1>2. /\ frames'[t] = Append(frames[t], f) /\ \A u \in SplThreads \ {t} : frames'[u] = frames[u]
  BY <1>1
<1>3. /\ Append(frames[t], f) \in Seq(Frame) /\ Stacked(frames'[t]) /\ Level(frames'[t]) = After(f)
  BY <1>1, <1>2, PushStacked DEF Records
<1>4. frames' \in [SplThreads -> Seq(Frame)]
  BY <1>1, <1>3
<1>5. \A k : Has(frames'[t], k) <=> Has(frames[t], k) \/ f.kind = k
  BY <1>1, <1>2, PushHas
<1>6. f.kind \notin {"irq", "trap"} => Depth(t)' = Depth(t)
  BY <1>1, <1>2, DepthKept, Zenon DEF Depth
<1> QED BY <1>2, <1>3, <1>4, <1>5, <1>6

\* A frame is left.
LEMMA PopsOwn ==
  ASSUME Counting, SplIInv, NEW t \in SplThreads, frames[t] # << >>, Records(t),
         frames' = [frames EXCEPT ![t] = SubSeq(@, 1, Len(@) - 1)]
  PROVE  /\ frames' \in [SplThreads -> Seq(Frame)] /\ Top(t) \in Frame
         /\ \A u \in SplThreads \ {t} : frames'[u] = frames[u]
         /\ frames'[t] = SubSeq(frames[t], 1, Len(frames[t]) - 1)
         /\ Stacked(frames'[t]) /\ Level(frames[t]) = After(Top(t)) /\ Level(frames'[t]) = Before(Top(t))
         /\ Enters(frames'[t], Top(t))
         /\ \A k : Has(frames[t], k) <=> Has(frames'[t], k) \/ Top(t).kind = k
         /\ Top(t).kind \notin {"irq", "trap"} => Depth(t)' = Depth(t)
<1>1. frames[t] \in Seq(Frame) /\ frames \in [SplThreads -> Seq(Frame)]
  BY DEF SplIInv, SplTypeOK
<1>2. /\ frames'[t] = SubSeq(frames[t], 1, Len(frames[t]) - 1) /\ \A u \in SplThreads \ {t} : frames'[u] = frames[u]
  BY <1>1
<1>3. /\ frames'[t] \in Seq(Frame) /\ Stacked(frames'[t]) /\ Enters(frames'[t], Top(t)) /\ Top(t) \in Frame
      /\ Level(frames[t]) = After(Top(t)) /\ Level(frames'[t]) = Before(Top(t))
  BY <1>1, <1>2, PopStacked DEF Records, Top
<1>4. frames' \in [SplThreads -> Seq(Frame)]
  BY <1>1, <1>3
<1>5. \A k : Has(frames[t], k) <=> Has(frames'[t], k) \/ Top(t).kind = k
  BY <1>1, <1>2, PopHas DEF Top
<1>6. Top(t).kind \notin {"irq", "trap"} => Depth(t)' = Depth(t)
  BY <1>1, <1>2, DepthLeft, Zenon DEF Depth, Top
<1> QED BY <1>2, <1>3, <1>4, <1>5, <1>6

\* Where the CPU is then: it entered an spl, an exception or an interrupt,
LEMMA PlacePushed ==
  ASSUME Counting, SplIInv, NEW c \in SplCpus, NEW t, t = curthread[c], NEW f \in Frame, curthread' = curthread,
         frames'[t] = Append(frames[t], f), f.kind # "switch", spl_isidle' = spl_isidle,
         spl_pc[c] = "run" \/ (spl_pc[c] = "idle_irq" /\ f.kind = "irq"), spl_pc'[c] = "run"
  PROVE  Place(c, frames[curthread[c]])'
<1> DEFINE s == frames[t]
           r == frames'[t]
<1>1. s \in Seq(Frame) /\ Place(c, s) /\ spl_isidle[c] \in BOOLEAN
  BY Now
<1>2. PICK n \in Nat : n = Len(s)
  BY <1>1
<1>3. Len(r) = n + 1 /\ r[n + 1] = f /\ \A i \in 1 .. n : r[i] = s[i]
  BY <1>1, <1>2, Pushed
<1>4. \A p \in 1 .. n : SwitchAt(s, p) => SwitchAt(r, p)
  BY <1>1, <1>2, PushSwitch
<1>5. Has(r, "switch") => Has(s, "switch")
  BY <1>1, PushHas
<1>6. r = frames[curthread[c]]'
  OBVIOUS
<1> HIDE DEF r, s
<1>7. ASSUME spl_isidle[c] PROVE \E p \in 1 .. Len(r) : SwitchAt(r, p) /\ p < Len(r) /\ r[p + 1].kind = "irq"
  <2>1. CASE spl_pc[c] = "run"
    <3>1. PICK p \in 1 .. n : SwitchAt(s, p) /\ p < n /\ s[p + 1].kind = "irq"
      BY <1>1, <1>2, <1>7, <2>1 DEF Place, Switching
    <3>2. p + 1 \in 1 .. n /\ p \in 1 .. n + 1 /\ p < n + 1
      BY <3>1
    <3> QED BY <1>3, <1>4, <3>1, <3>2
  <2>2. CASE spl_pc[c] = "idle_irq" /\ f.kind = "irq"
    <3>1. SwitchAt(s, n) /\ n \in 1 .. n
      BY <1>1, <1>2, <2>2 DEF Place, Switching, SwitchAt
    <3>2. n \in 1 .. n + 1 /\ n < n + 1
      BY <3>1
    <3> QED BY <1>3, <1>4, <2>2, <3>1, <3>2
  <2> QED BY <2>1, <2>2
<1>8. ~spl_isidle[c] => ~Has(r, "switch")
  BY <1>1, <1>5, Zenon DEF Place
<1> QED BY <1>6, <1>7, <1>8, Zenon DEF Place, Switching

\* or left one.
LEMMA PlacePopped ==
  ASSUME Counting, SplIInv, NEW c \in SplCpus, NEW t, t = curthread[c], frames[t] # << >>, curthread' = curthread,
         frames'[t] = SubSeq(frames[t], 1, Len(frames[t]) - 1), Top(t).kind # "switch", spl_isidle' = spl_isidle,
         spl_pc[c] = "run", spl_pc'[c] = IF Top(t).kind = "irq" /\ spl_isidle[c] THEN "idle_irq" ELSE "run",
         splk_holder' = splk_holder, Top(t).kind = "irq" => LocksOf(c) = {}
  PROVE  Place(c, frames[curthread[c]])' /\ (spl_isidle[c] => Top(t).kind \in {"spl", "irq"})
<1> DEFINE s == frames[t]
           r == frames'[t]
           f == Top(t)
<1>1. s \in Seq(Frame) /\ Place(c, s) /\ spl_isidle[c] \in BOOLEAN /\ Records(t)
  BY Now
<1>2. PICK n \in Nat : n + 1 = Len(s)
  <2>1. Len(s) \in Nat /\ Len(s) # 0
    BY <1>1
  <2>2. Len(s) - 1 \in Nat /\ (Len(s) - 1) + 1 = Len(s)
    BY <2>1
  <2> QED BY <2>2, Zenon
<1>3. Len(r) = n /\ (\A i \in 1 .. n : r[i] = s[i]) /\ f = s[n + 1] /\ Len(s) - 1 = n
  BY <1>1, <1>2, Popped DEF Top
<1>4. \A p \in 1 .. n + 1 : SwitchAt(s, p) /\ p < n + 1 => SwitchAt(r, p)
  BY <1>1, <1>2, PopSwitch, Zenon
<1>5. Has(r, "switch") => Has(s, "switch")
  BY <1>1, PopHas
<1>6. r = frames[curthread[c]]' /\ LocksOf(c)' = LocksOf(c)
  BY DEF LocksOf
<1> HIDE DEF r, s, f
<1>7. ASSUME spl_isidle[c]
      PROVE  /\ f.kind \in {"spl", "irq"}
             /\ f.kind = "irq" => SwitchAt(r, n)
             /\ f.kind # "irq" => \E p \in 1 .. n : SwitchAt(r, p) /\ p < n /\ r[p + 1].kind = "irq"
  <2>1. PICK p \in 1 .. n + 1 : SwitchAt(s, p) /\ p < n + 1 /\ s[p + 1].kind = "irq"
    BY <1>1, <1>2, <1>7, Zenon DEF Place, Switching
  <2>2. Stacked(s)
    BY <1>1, Zenon DEF Records, s
  <2>3. f.kind \in {"spl", "irq"} /\ (f.kind = "irq" => p = n)
    BY <1>1, <1>2, <1>3, <2>1, <2>2, AboveSwitch, Zenon
  <2>4. f.kind # "irq" => p + 1 # n + 1
    BY <1>3, <2>1, Zenon
  <2>5. f.kind # "irq" => p \in 1 .. n /\ p < n /\ p + 1 \in 1 .. n
    BY <2>1, <2>4
  <2> QED BY <1>3, <1>4, <2>1, <2>3, <2>5, Zenon
<1>8. ~spl_isidle[c] => ~Has(r, "switch")
  BY <1>1, <1>5 DEF Place
<1>9. CASE spl_isidle[c] /\ f.kind = "irq"
  BY <1>3, <1>6, <1>7, <1>9, Zenon DEF Place, Switching, f
<1>10. CASE ~(spl_isidle[c] /\ f.kind = "irq")
  BY <1>3, <1>6, <1>7, <1>8, <1>10, Zenon DEF Place, Switching, f
<1> QED BY <1>7, <1>9, <1>10, Zenon DEF f
=============================================================================
