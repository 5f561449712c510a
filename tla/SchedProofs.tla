---------------------------- MODULE SchedProofs ----------------------------
(***************************************************************************)
(* The thread system, for any number of CPUs and any set of threads: no    *)
(* thread is lost or linked twice, no stack is used by two CPUs or         *)
(* destroyed under one, and what thread_switch and                         *)
(* thread_consider_migration read under a lock holds when they use it.     *)
(***************************************************************************)
EXTENDS Sched, TLAPS

PcLabels ==
  {"run", "switch", "mark", "pick", "idle", "idle_lock", "exorcise", "wake", "deliver", "mkrun", "ipi",
   "mig_count", "mig_take", "mig_give", "mig_move"}
MigType == [i : Nat, my : Nat, total : Nat, share : Nat, send : Nat]

SchedTypeOK ==
  /\ c_curthread \in [Cpus -> Threads]
  /\ c_isidle \in [Cpus -> BOOLEAN]
  /\ c_runqueue \in [Cpus -> Seq(Threads)]
  /\ c_runqueue_lock \in [Cpus -> Cpus \cup {None}]
  /\ c_zombies \in [Cpus -> Seq(Threads)]
  /\ c_ipi \in [Cpus -> BOOLEAN]
  /\ t_state \in [Threads -> {"S_RUN", "S_READY", "S_SLEEP", "S_ZOMBIE", "none"}]
  /\ t_cpu \in [Threads -> Cpus \cup {None}]
  /\ wc_threads \in Seq(Threads)
  /\ pc \in [Cpus -> PcLabels]
  /\ newstate \in [Cpus -> {"S_READY", "S_SLEEP", "S_ZOMBIE"}]
  /\ list \in [Cpus -> Seq(Threads)]
  /\ dest \in [Cpus -> Cpus]
  /\ mig \in [Cpus -> MigType]

\* The threads on a run queue, on a list of zombies, on a CPU's private list
\* and on the wait channel.
Rq(c) == Range(c_runqueue[c])
Zo(c) == Range(c_zombies[c])
Li(c) == Range(list[c])
Wc == Range(wc_threads)

Injective ==
  /\ IsInjective(wc_threads)
  /\ \A c \in Cpus : IsInjective(c_runqueue[c]) /\ IsInjective(c_zombies[c]) /\ IsInjective(list[c])

\* A thread is on one list at most; on a run queue or a list of zombies it is
\* on that of its CPU.
LinkedOnce(t) ==
  \A c \in Cpus :
    /\ t \in Rq(c) => /\ t_state[t] = "S_READY" /\ t_cpu[t] = c /\ t \notin Wc
                      /\ \A d \in Cpus : t \notin Zo(d) /\ t \notin Li(d)
    /\ t \in Zo(c) => t_cpu[t] = c /\ t \notin Wc /\ \A d \in Cpus : t \notin Li(d)
    /\ t \in Li(c) => t \notin Wc /\ \A d \in Cpus : t \in Li(d) => d = c
Linked == \A t \in Threads : LinkedOnce(t)

Listed(t) == t \in Wc \/ \E c \in Cpus : t \in Rq(c) \/ t \in Zo(c) \/ t \in Li(c)

\* The CPU runs its current thread: it has not put it away in thread_switch.
Busy(c) == ~c_isidle[c] /\ pc[c] # "mark"

\* A thread has a CPU while it exists, and is then on a list or being run.
Kept(t) ==
  /\ t_state[t] = "none" <=> t_cpu[t] = None
  /\ Listed(t) => t_state[t] # "none"
  /\ t_state[t] # "none" => Listed(t) \/ \E c \in Cpus : Busy(c) /\ cur(c) = t
Existing == \A t \in Threads : Kept(t)

\* A CPU is on the stack of a thread of its own, also while it idles there;
\* the thread is on a list exactly when it has been put away.
Currents == \A c \in Cpus : t_cpu[cur(c)] = c /\ (Busy(c) <=> ~Listed(cur(c)))

\* Between the placing of a thread and the change of its state the thread is
\* where thread_switch put it, or somebody has begun to wake it.
PutAway(c) ==
  \/ newstate[c] = "S_READY" /\ cur(c) \in Rq(c)
  \/ newstate[c] = "S_ZOMBIE" /\ cur(c) \in Zo(c)
  \/ /\ newstate[c] = "S_SLEEP"
     /\ cur(c) \in Wc \/ \E d \in Cpus : cur(c) \in Li(d) /\ pc[d] \in {"deliver", "mkrun"}
Marked == \A c \in Cpus : pc[c] = "mark" => PutAway(c)

\* What a CPU relies on at each label.
Placed(c) ==
  /\ pc[c] \in {"run", "switch", "mark", "exorcise"} => ~c_isidle[c]
  /\ pc[c] \in {"pick", "idle", "idle_lock"} => c_isidle[c]
  /\ pc[c] \in {"mark", "pick"} => c_runqueue_lock[c] = c
  /\ pc[c] = "mig_move" => mig[c].i \in Cpus /\ mig[c].i # c /\ c_runqueue_lock[mig[c].i] = c
  /\ pc[c] \notin {"deliver", "mkrun", "mig_give", "mig_move"} => list[c] = << >>
  /\ pc[c] = "mkrun" => list[c] # << >> /\ dest[c] = t_cpu[Head(list[c])]
  /\ pc[c] \in {"mig_give", "mig_move"} =>
       /\ mig[c].send <= Len(list[c])
       /\ \A t \in Li(c) : t_state[t] = "S_READY" /\ t_cpu[t] = c
  /\ pc[c] \in {"mig_count", "mig_give"} => mig[c].i >= 1
  /\ pc[c] = "mig_count" => mig[c].my <= Len(c_runqueue[c])
  /\ pc[c] = "mig_take" => mig[c].send <= Len(c_runqueue[c]) /\ mig[c].i = 1
  /\ pc[c] = "idle" /\ c_runqueue[c] # << >> => c_ipi[c]

SchedIInv ==
  /\ SchedTypeOK /\ Injective /\ Linked /\ Existing /\ Currents /\ Marked
  /\ \A c \in Cpus : Placed(c)

----------------------------------------------------------------------------
(* Lists: which threads are on them after threadlist.c has changed them    *)

\* threadlist_addtail.
LEMMA ListAdd ==
  ASSUME NEW S, NEW q \in Seq(S), NEW x \in S
  PROVE  /\ Append(q, x) \in Seq(S) /\ Append(q, x) # << >> /\ Len(Append(q, x)) = Len(q) + 1
         /\ Range(Append(q, x)) = Range(q) \cup {x}
         /\ IsInjective(q) /\ x \notin Range(q) => IsInjective(Append(q, x))
<1> DEFINE r == Append(q, x)
<1>1. /\ r \in Seq(S) /\ Len(q) \in Nat /\ Len(r) = Len(q) + 1
      /\ DOMAIN q = 1 .. Len(q) /\ DOMAIN r = 1 .. Len(q) + 1
      /\ r[Len(q) + 1] = x
      /\ \A i \in 1 .. Len(q) : r[i] = q[i]
      /\ r # << >>
  OBVIOUS
<1> HIDE DEF r
<1>2. IsInjective(q) /\ x \notin Range(q) => IsInjective(r)
  BY <1>1 DEF IsInjective, Range
<1>3. Range(r) = Range(q) \cup {x}
  BY <1>1 DEF Range
<1> QED BY <1>1, <1>2, <1>3 DEF r

\* Two parts of a list: threadlist_remhead, and the removals in a loop.
LEMMA ListSplit ==
  ASSUME NEW S, NEW q \in Seq(S), NEW k \in 0 .. Len(q), IsInjective(q)
  PROVE  LET a == SubSeq(q, 1, k)
             b == SubSeq(q, k + 1, Len(q))
         IN  /\ a \in Seq(S) /\ Len(a) = k /\ b \in Seq(S) /\ Len(b) = Len(q) - k
             /\ IsInjective(a) /\ IsInjective(b)
             /\ Range(q) = Range(a) \cup Range(b)
             /\ \A x \in Range(a) : x \notin Range(b)
<1> DEFINE a == SubSeq(q, 1, k)
           b == SubSeq(q, k + 1, Len(q))
<1>1. PICK n \in Nat : n = Len(q) /\ k \in 0 .. n
  OBVIOUS
<1>2. /\ a \in Seq(S) /\ Len(a) = k /\ b \in Seq(S) /\ Len(b) = n - k
      /\ DOMAIN q = 1 .. n /\ DOMAIN a = 1 .. k /\ DOMAIN b = 1 .. n - k
      /\ \A i \in 1 .. k : a[i] = q[i]
      /\ \A i \in 1 .. n - k : b[i] = q[k + i]
  BY <1>1
<1> HIDE DEF a, b
<1>3. IsInjective(a)
  BY <1>1, <1>2 DEF IsInjective
<1>4. IsInjective(b)
  <2>1. ASSUME NEW i \in 1 .. n - k, NEW j \in 1 .. n - k, b[i] = b[j] PROVE i = j
    <3>1. k + i \in DOMAIN q /\ k + j \in DOMAIN q /\ q[k + i] = q[k + j]
      BY <2>1, <1>1, <1>2
    <3> QED BY <3>1, <1>1 DEF IsInjective
  <2> QED BY <2>1, <1>2 DEF IsInjective
<1>5. ASSUME NEW x \in Range(a) PROVE x \in Range(q) /\ x \notin Range(b)
  <2>1. PICK i \in 1 .. k : x = q[i] /\ i \in DOMAIN q
    BY <1>1, <1>2 DEF Range
  <2>2. ASSUME NEW j \in 1 .. n - k, b[j] = x PROVE FALSE
    <3>1. k + j \in DOMAIN q /\ q[k + j] = q[i] /\ k + j # i
      BY <1>1, <1>2, <2>1, <2>2
    <3> QED BY <2>1, <3>1 DEF IsInjective
  <2> QED BY <1>2, <2>1, <2>2 DEF Range
<1>6. ASSUME NEW x \in Range(b) PROVE x \in Range(q)
  <2>1. PICK i \in 1 .. n - k : x = b[i]
    BY <1>2 DEF Range
  <2>2. k + i \in DOMAIN q /\ x = q[k + i]
    BY <1>1, <1>2, <2>1
  <2> QED BY <2>2 DEF Range
<1>7. ASSUME NEW x \in Range(q) PROVE x \in Range(a) \cup Range(b)
  <2>1. PICK i \in 1 .. n : x = q[i]
    BY <1>2 DEF Range
  <2>2. CASE i <= k
    BY <1>1, <1>2, <2>1, <2>2 DEF Range
  <2>3. CASE i > k
    <3>1. i - k \in DOMAIN b /\ b[i - k] = x
      BY <1>1, <1>2, <2>1, <2>3
    <3> QED BY <3>1 DEF Range
  <2> QED BY <1>1, <2>2, <2>3
<1>8. Range(q) = Range(a) \cup Range(b)
  BY <1>5, <1>6, <1>7
<1> QED BY <1>1, <1>2, <1>3, <1>4, <1>5, <1>8 DEF a, b

\* threadlist_remhead.
LEMMA ListRemove ==
  ASSUME NEW S, NEW q \in Seq(S), IsInjective(q), q # << >>
  PROVE  /\ Head(q) \in S /\ Head(q) \in Range(q)
         /\ Tail(q) \in Seq(S) /\ IsInjective(Tail(q)) /\ Len(q) \in Nat /\ Len(Tail(q)) = Len(q) - 1
         /\ Range(Tail(q)) = Range(q) \ {Head(q)}
<1> DEFINE r == Tail(q)
           h == Head(q)
<1>1. /\ r \in Seq(S)
      /\ Len(q) \in Nat \ {0}
      /\ DOMAIN q = 1 .. Len(q)
      /\ DOMAIN r = 1 .. Len(q) - 1 /\ Len(r) = Len(q) - 1
      /\ h = q[1]
      /\ h \in S
      /\ \A i \in 1 .. Len(q) - 1 : r[i] = q[i + 1]
  OBVIOUS
<1> HIDE DEF r, h
<1>2. IsInjective(r)
  <2>1. ASSUME NEW i \in 1 .. Len(q) - 1, NEW j \in 1 .. Len(q) - 1, r[i] = r[j] PROVE i = j
    <3>1. i + 1 \in DOMAIN q /\ j + 1 \in DOMAIN q /\ q[i + 1] = q[j + 1]
      BY <2>1, <1>1
    <3> QED BY <3>1 DEF IsInjective
  <2> QED BY <2>1, <1>1 DEF IsInjective
<1>3. h \in Range(q)
  BY <1>1 DEF Range
<1>4. ASSUME NEW y \in Range(r) PROVE y \in Range(q) /\ y # h
  <2>1. PICK i \in 1 .. Len(q) - 1 : y = r[i]
    BY <1>1 DEF Range
  <2>2. i + 1 \in DOMAIN q /\ y = q[i + 1] /\ i + 1 # 1
    BY <2>1, <1>1
  <2> QED BY <2>2, <1>1 DEF Range, IsInjective
<1>5. ASSUME NEW y \in Range(q), y # h PROVE y \in Range(r)
  <2>1. PICK i \in 1 .. Len(q) : y = q[i]
    BY <1>1 DEF Range
  <2>2. i - 1 \in DOMAIN r /\ y = r[i - 1]
    BY <2>1, <1>1, <1>5
  <2> QED BY <2>2 DEF Range
<1>6. Range(r) = Range(q) \ {h}
  BY <1>4, <1>5
<1> QED BY <1>1, <1>2, <1>3, <1>6 DEF r, h

\* One list behind another.
LEMMA ListJoin ==
  ASSUME NEW S, NEW p \in Seq(S), NEW q \in Seq(S)
  PROVE  /\ p \o q \in Seq(S) /\ Len(p \o q) = Len(p) + Len(q)
         /\ Range(p \o q) = Range(p) \cup Range(q)
         /\ IsInjective(p) /\ IsInjective(q) /\ (\A x \in Range(p) : x \notin Range(q)) => IsInjective(p \o q)
<1> DEFINE r == p \o q
<1>1. PICK m \in Nat, n \in Nat : m = Len(p) /\ n = Len(q)
  OBVIOUS
<1>2. /\ r \in Seq(S) /\ Len(r) = m + n
      /\ DOMAIN p = 1 .. m /\ DOMAIN q = 1 .. n /\ DOMAIN r = 1 .. m + n
      /\ \A i \in 1 .. m : r[i] = p[i]
      /\ \A i \in m + 1 .. m + n : r[i] = q[i - m]
      /\ \A i \in 1 .. n : r[m + i] = q[i]
  BY <1>1
<1> HIDE DEF r
<1>3. ASSUME NEW x \in Range(r) PROVE x \in Range(p) \cup Range(q)
  <2>1. PICK i \in 1 .. m + n : x = r[i]
    BY <1>2 DEF Range
  <2>2. CASE i <= m
    <3>1. i \in DOMAIN p /\ p[i] = x
      BY <1>1, <1>2, <2>1, <2>2
    <3> QED BY <3>1 DEF Range
  <2>3. CASE i > m
    <3>1. i - m \in DOMAIN q /\ q[i - m] = x
      BY <1>1, <1>2, <2>1, <2>3
    <3> QED BY <3>1 DEF Range
  <2> QED BY <1>1, <2>2, <2>3
<1>4. ASSUME NEW x \in Range(p) PROVE x \in Range(r)
  BY <1>1, <1>2 DEF Range
<1>5. ASSUME NEW x \in Range(q) PROVE x \in Range(r)
  <2>1. PICK i \in 1 .. n : x = q[i]
    BY <1>2 DEF Range
  <2>2. m + i \in 1 .. m + n
    BY <1>1
  <2>3. m + i \in DOMAIN r /\ r[m + i] = x
    BY <1>2, <2>1, <2>2, Zenon
  <2> QED BY <2>3 DEF Range
<1>6. ASSUME IsInjective(p), IsInjective(q), \A x \in Range(p) : x \notin Range(q) PROVE IsInjective(r)
  <2>1. ASSUME NEW i \in 1 .. m + n, NEW j \in 1 .. m + n, r[i] = r[j], i < j PROVE FALSE
    <3>1. CASE j <= m
      <4>1. i \in DOMAIN p /\ j \in DOMAIN p /\ p[i] = p[j] /\ i # j
        BY <1>1, <1>2, <2>1, <3>1
      <4> QED BY <1>6, <4>1 DEF IsInjective
    <3>2. CASE i > m
      <4>1. i - m \in DOMAIN q /\ j - m \in DOMAIN q /\ q[i - m] = q[j - m] /\ i - m # j - m
        BY <1>1, <1>2, <2>1, <3>2
      <4> QED BY <1>6, <4>1 DEF IsInjective
    <3>3. CASE i <= m /\ j > m
      <4>1. i \in DOMAIN p /\ j - m \in DOMAIN q /\ q[j - m] = p[i]
        BY <1>1, <1>2, <2>1, <3>3
      <4> QED BY <1>6, <4>1 DEF Range
    <3> QED BY <1>1, <3>1, <3>2, <3>3
  <2>2. \A i, j \in 1 .. m + n : r[i] = r[j] => i = j
    BY <1>1, <2>1
  <2> QED BY <1>2, <2>2 DEF IsInjective
<1>7. Range(r) = Range(p) \cup Range(q)
  BY <1>3, <1>4, <1>5
<1> QED BY <1>1, <1>2, <1>6, <1>7 DEF r

\* The threads on a list are threads.
LEMMA ListIn == ASSUME NEW S, NEW q \in Seq(S) PROVE Range(q) \subseteq S
BY DEF Range

----------------------------------------------------------------------------
(* Steps that leave the threads and their lists alone                      *)

\* Every CPU starts with a thread of its own, and nothing is linked.
LEMMA SchedInitIInv == ASSUME Init PROVE SchedIInv
<1> USE DEF Init
<1>1. SchedTypeOK
  <2>1. t_cpu \in [Threads -> Cpus \cup {None}]
    <3>1. ASSUME NEW t \in Range(BootThread) PROVE (CHOOSE c \in Cpus : BootThread[c] = t) \in Cpus
      BY SchedAssumption, <3>1 DEF Range
    <3> QED BY <3>1
  <2>2. mig \in [Cpus -> MigType]
    BY DEF NoMig, MigType
  <2>3. << >> \in Seq(Threads)
    OBVIOUS
  <2>4. dest \in [Cpus -> Cpus]
    OBVIOUS
  <2> QED BY <2>1, <2>2, <2>3, <2>4, SchedAssumption DEF SchedTypeOK, PcLabels
<1>2. Wc = {} /\ \A c \in Cpus : Rq(c) = {} /\ Zo(c) = {} /\ Li(c) = {}
  <2>1. Range(<< >>) = {}
    BY DEF Range
  <2> QED BY <2>1 DEF Wc, Rq, Zo, Li
<1>3. Injective
  BY DEF Injective, IsInjective
<1>4. Linked
  BY <1>2 DEF Linked, LinkedOnce
<1>5. \A c \in Cpus : BootThread[c] \in Threads /\ BootThread[c] \in Range(BootThread) /\ t_cpu[BootThread[c]] = c
  <2> TAKE c \in Cpus
  <2>1. BootThread[c] \in Threads /\ BootThread[c] \in Range(BootThread)
    BY SchedAssumption DEF Range
  <2>2. \A d \in Cpus : BootThread[d] = BootThread[c] => d = c
    BY SchedAssumption DEF IsInjective
  <2> QED BY <2>1, <2>2
<1>6. \A c \in Cpus : Busy(c) /\ cur(c) = BootThread[c]
  BY DEF Busy, cur
<1>7. Existing
  <2> SUFFICES ASSUME NEW t \in Threads
               PROVE  /\ t_state[t] = "none" <=> t_cpu[t] = None
                      /\ Listed(t) => t_state[t] # "none"
                      /\ t_state[t] # "none" => Listed(t) \/ \E c \in Cpus : Busy(c) /\ cur(c) = t
    BY DEF Existing, Kept
  <2>1. ~Listed(t)
    BY <1>2 DEF Listed
  <2>2. CASE t \in Range(BootThread)
    <3>1. PICK c \in Cpus : BootThread[c] = t
      BY <2>2, SchedAssumption DEF Range
    <3>2. t_cpu[t] = c /\ t_state[t] = "S_RUN"
      BY <1>5, <2>2, <3>1
    <3> QED BY <1>6, <2>1, <3>1, <3>2, SchedAssumption
  <2>3. CASE t \notin Range(BootThread)
    BY <2>1, <2>3
  <2> QED BY <2>2, <2>3
<1>8. Currents
  BY <1>2, <1>5, <1>6 DEF Currents, Listed
<1>9. Marked /\ \A c \in Cpus : Placed(c)
  BY DEF Marked, Placed
<1> QED BY <1>1, <1>3, <1>4, <1>7, <1>8, <1>9 DEF SchedIInv

\* Only the place of CPU c changes, and what goes with it.
LEMMA LocalIInv ==
  ASSUME SchedIInv, NEW c \in Cpus, SchedTypeOK', Placed(c)',
         UNCHANGED <<c_curthread, c_isidle, c_runqueue, c_zombies, t_state, t_cpu, wc_threads, list>>,
         pc[c] # "mark", pc'[c] # "mark",
         pc[c] \in {"deliver", "mkrun"} => list[c] = << >> \/ pc'[c] \in {"deliver", "mkrun"},
         \A d \in Cpus : d # c => /\ pc'[d] = pc[d] /\ newstate'[d] = newstate[d] /\ mig'[d] = mig[d]
                                  /\ dest'[d] = dest[d] /\ c_ipi'[d] = c_ipi[d],
         \A d \in Cpus : c_runqueue_lock'[d] = c_runqueue_lock[d] \/ c_runqueue_lock[d] \in {None, c}
  PROVE  SchedIInv'
<1>1. /\ Wc' = Wc
      /\ \A d \in Cpus : Rq(d)' = Rq(d) /\ Zo(d)' = Zo(d) /\ Li(d)' = Li(d) /\ cur(d)' = cur(d) /\ Busy(d)' = Busy(d)
  BY Zenon DEF Wc, Rq, Zo, Li, cur, Busy
<1>2. \A t : Listed(t)' = Listed(t)
  BY <1>1, Zenon DEF Listed
<1>3. Injective' /\ Linked' /\ Existing' /\ Currents'
  <2>1. Injective'
    BY Zenon DEF SchedIInv, Injective
  <2>2. Linked'
    BY <1>1 DEF SchedIInv, Linked, LinkedOnce
  <2>3. Existing'
    BY <1>1, <1>2, Zenon DEF SchedIInv, Existing, Kept
  <2>4. Currents'
    BY <1>1, <1>2, Zenon DEF SchedIInv, Currents
  <2> QED BY <2>1, <2>2, <2>3, <2>4
<1>4. Marked'
  <2> SUFFICES ASSUME NEW d \in Cpus, pc'[d] = "mark"
               PROVE  \/ newstate'[d] = "S_READY" /\ cur(d)' \in Rq(d)'
                      \/ newstate'[d] = "S_ZOMBIE" /\ cur(d)' \in Zo(d)'
                      \/ /\ newstate'[d] = "S_SLEEP"
                         /\ cur(d)' \in Wc' \/ \E e \in Cpus : cur(d)' \in Li(e)' /\ pc'[e] \in {"deliver", "mkrun"}
    BY DEF Marked, PutAway
  <2>1. d # c /\ pc[d] = "mark" /\ newstate'[d] = newstate[d]
    BY Zenon
  <2>2. ASSUME NEW e \in Cpus, cur(d) \in Li(e), pc[e] \in {"deliver", "mkrun"}
        PROVE  pc'[e] \in {"deliver", "mkrun"}
    <3>1. CASE e = c
      <4>1. list[e] # << >>
        BY <2>2 DEF Li, Range
      <4> QED BY <2>2, <3>1, <4>1
    <3> QED BY <2>2, <3>1
  <2>3. PutAway(d)
    BY <2>1, Zenon DEF SchedIInv, Marked
  <2>4. CASE \E e \in Cpus : cur(d) \in Li(e) /\ pc[e] \in {"deliver", "mkrun"}
    <3>1. \E e \in Cpus : cur(d)' \in Li(e)' /\ pc'[e] \in {"deliver", "mkrun"}
      BY <1>1, <2>2, <2>4, Zenon
    <3> QED BY <1>1, <2>1, <2>3, <3>1, Zenon DEF PutAway
  <2>5. CASE ~\E e \in Cpus : cur(d) \in Li(e) /\ pc[e] \in {"deliver", "mkrun"}
    BY <1>1, <2>1, <2>3, <2>5, Zenon DEF PutAway
  <2> QED BY <2>4, <2>5
<1>5. ASSUME NEW d \in Cpus PROVE Placed(d)'
  <2>1. CASE d # c
    <3>1. /\ pc'[d] = pc[d] /\ mig'[d] = mig[d] /\ dest'[d] = dest[d] /\ c_ipi'[d] = c_ipi[d] /\ Li(d)' = Li(d)
          /\ UNCHANGED <<c_isidle, c_runqueue, t_state, t_cpu, list>>
      BY <1>1, <2>1, Zenon
    <3>2. \A e \in Cpus : c_runqueue_lock[e] = d => c_runqueue_lock'[e] = d
      BY <2>1, SchedAssumption, Zenon
    <3>3. Placed(d)
      BY Zenon DEF SchedIInv
    <3>4. /\ c_isidle'[d] = c_isidle[d] /\ c_runqueue'[d] = c_runqueue[d] /\ list'[d] = list[d]
          /\ t_state' = t_state /\ t_cpu' = t_cpu
      BY <3>1, Zenon
    <3> QED BY <3>1, <3>2, <3>3, <3>4 DEF Placed
  <2> QED BY <2>1, Zenon
<1> QED BY <1>3, <1>4, <1>5, Zenon DEF SchedIInv

\* thread_yield, thread_exit, wchan_sleep.
LEMMA EnterIInv ==
  ASSUME SchedIInv, NEW c \in Cpus, thread_yield(c) \/ thread_exit(c) \/ wchan_sleep(c)
  PROVE  SchedIInv'
<1>1. PICK s \in {"S_READY", "S_SLEEP", "S_ZOMBIE"} : Enter(c, s)
  BY DEF thread_yield, thread_exit, wchan_sleep
<1>2. /\ pc[c] = "run"
      /\ UNCHANGED <<c_curthread, c_isidle, c_runqueue, c_runqueue_lock, c_zombies, c_ipi, t_state, t_cpu, wc_threads,
                     list, dest, mig>>
  BY DEF thread_yield, thread_exit, wchan_sleep, At, queues, threads, wchan
<1>3. pc' = [pc EXCEPT ![c] = "switch"] /\ newstate' = [newstate EXCEPT ![c] = s]
  BY <1>1, Zenon DEF Enter, Goto
<1>4. SchedTypeOK'
  BY <1>2, <1>3 DEF SchedIInv, SchedTypeOK, PcLabels
<1>5. pc'[c] = "switch" /\ \A d \in Cpus : d # c => pc'[d] = pc[d] /\ newstate'[d] = newstate[d]
  BY <1>3, Zenon DEF SchedIInv, SchedTypeOK
<1>6. Placed(c)'
  BY <1>2, <1>5, Zenon DEF SchedIInv, Placed
<1> QED BY <1>2, <1>4, <1>5, <1>6, LocalIInv

\* wchan_wake, ipi_take, hardclock_idle, switch_nothing: CPU c goes to another label.
LEMMA GotoIInv ==
  ASSUME SchedIInv, NEW c \in Cpus,
         wchan_wake(c) \/ ipi_take(c) \/ hardclock_idle(c) \/ switch_nothing(c)
  PROVE  SchedIInv'
<1>1. UNCHANGED <<c_curthread, c_isidle, c_runqueue, c_runqueue_lock, c_zombies, c_ipi, t_state, t_cpu, wc_threads,
                  newstate, list, dest, mig>>
  BY Zenon DEF wchan_wake, ipi_take, hardclock_idle, switch_nothing, queues, threads, wchan, locals
<1>2. PICK l \in {"wake", "ipi", "idle_lock", "run"} :
        /\ pc' = [pc EXCEPT ![c] = l]
        /\ l = "idle_lock" => pc[c] = "idle"
        /\ l = "run" => pc[c] = "switch"
        /\ pc[c] \in {"run", "idle", "switch"}
  BY Zenon DEF wchan_wake, ipi_take, hardclock_idle, switch_nothing, At, Goto
<1>3. SchedTypeOK'
  BY <1>1, <1>2 DEF SchedIInv, SchedTypeOK, PcLabels
<1>4. pc'[c] = l /\ \A d \in Cpus : d # c => pc'[d] = pc[d]
  BY <1>2, Zenon DEF SchedIInv, SchedTypeOK
<1>5. Placed(c)'
  BY <1>1, <1>2, <1>4, Zenon DEF SchedIInv, Placed
<1> QED BY <1>1, <1>2, <1>3, <1>4, <1>5, LocalIInv, Zenon

\* deliver_done and ipi_clear: the handler returns.
LEMMA ReturnIInv ==
  ASSUME SchedIInv, NEW c \in Cpus, deliver_done(c) \/ ipi_clear(c)
  PROVE  SchedIInv'
<1>1. UNCHANGED <<c_curthread, c_isidle, c_runqueue, c_runqueue_lock, c_zombies, t_state, t_cpu, wc_threads,
                  newstate, list, dest, mig>>
  BY Zenon DEF deliver_done, ipi_clear, queues, threads, wchan, locals
<1>2. /\ pc[c] \in {"deliver", "ipi"} /\ list[c] = << >>
      /\ pc' = [pc EXCEPT ![c] = IF c_isidle[c] THEN "idle_lock" ELSE "run"]
      /\ c_ipi' = c_ipi \/ c_ipi' = [c_ipi EXCEPT ![c] = FALSE]
  BY DEF deliver_done, ipi_clear, At, Goto, Interrupted, SchedIInv, Placed
<1>3. SchedTypeOK'
  BY <1>1, <1>2, Zenon DEF SchedIInv, SchedTypeOK, PcLabels
<1>4. /\ pc'[c] = IF c_isidle[c] THEN "idle_lock" ELSE "run"
      /\ \A d \in Cpus : d # c => pc'[d] = pc[d] /\ c_ipi'[d] = c_ipi[d]
  BY <1>2, Zenon DEF SchedIInv, SchedTypeOK
<1>5. Placed(c)'
  <2>1. c_isidle' = c_isidle /\ list'[c] = << >>
    BY <1>1, <1>2, Zenon
  <2>2. CASE c_isidle[c]
    <3>1. pc'[c] = "idle_lock"
      BY <1>4, <2>2, Zenon
    <3> QED BY <2>1, <2>2, <3>1, Zenon DEF Placed
  <2>3. CASE ~c_isidle[c]
    <3>1. pc'[c] = "run"
      BY <1>4, <2>3, Zenon
    <3> QED BY <2>1, <2>3, <3>1, Zenon DEF Placed
  <2> QED BY <2>2, <2>3, Zenon
<1> QED BY <1>1, <1>2, <1>3, <1>4, <1>5, LocalIInv

\* switch_idle and switch_relock: the CPU's own run queue is unlocked while it
\* waits.
LEMMA IdleIInv ==
  ASSUME SchedIInv, NEW c \in Cpus, switch_idle(c) \/ switch_relock(c)
  PROVE  SchedIInv'
<1>1. UNCHANGED <<c_curthread, c_isidle, c_runqueue, c_zombies, c_ipi, t_state, t_cpu, wc_threads,
                  newstate, list, dest, mig>>
  BY Zenon DEF switch_idle, switch_relock, threads, wchan, locals
<1>2. PICK l \in {"idle", "pick"}, h \in {c, None} :
        /\ pc' = [pc EXCEPT ![c] = l] /\ c_runqueue_lock' = [c_runqueue_lock EXCEPT ![c] = h]
        /\ l = "idle" => c_runqueue[c] = << >>
        /\ l = "pick" => h = c
        /\ pc[c] \in {"pick", "idle_lock"} /\ c_runqueue_lock[c] \in {None, c}
  BY Zenon DEF switch_idle, switch_relock, At, Goto, Free, SchedIInv, Placed
<1>3. SchedTypeOK'
  BY <1>1, <1>2 DEF SchedIInv, SchedTypeOK, PcLabels
<1>4. /\ pc'[c] = l /\ c_runqueue_lock'[c] = h
      /\ \A d \in Cpus : d # c => pc'[d] = pc[d] /\ c_runqueue_lock'[d] = c_runqueue_lock[d]
  BY <1>2, Zenon DEF SchedIInv, SchedTypeOK
<1>5. Placed(c)'
  BY <1>1, <1>2, <1>4, Zenon DEF SchedIInv, Placed
<1> QED BY <1>1, <1>2, <1>3, <1>4, <1>5, LocalIInv, Zenon

\* make_runnable_cpu: the thread's CPU is read.
LEMMA MakeRunnableCpuIInv ==
  ASSUME SchedIInv, NEW c \in Cpus, make_runnable_cpu(c)
  PROVE  SchedIInv'
<1>1. /\ UNCHANGED <<c_curthread, c_isidle, c_runqueue, c_runqueue_lock, c_zombies, c_ipi, t_state, t_cpu, wc_threads,
                     newstate, list, mig>>
      /\ pc[c] = "deliver" /\ list[c] # << >>
      /\ pc' = [pc EXCEPT ![c] = "mkrun"] /\ dest' = [dest EXCEPT ![c] = t_cpu[Head(list[c])]]
  BY Zenon DEF make_runnable_cpu, At, Goto, queues, threads, wchan
<1>2. t_cpu[Head(list[c])] \in Cpus
  <2>1. Head(list[c]) \in Threads /\ Head(list[c]) \in Li(c)
    BY <1>1, ListRemove, Zenon DEF SchedIInv, SchedTypeOK, Injective, Li
  <2>2. t_cpu[Head(list[c])] # None
    BY <2>1, Zenon DEF SchedIInv, Existing, Kept, Listed
  <2> QED BY <2>1, <2>2, Zenon DEF SchedIInv, SchedTypeOK
<1>3. SchedTypeOK'
  BY <1>1, <1>2, Zenon DEF SchedIInv, SchedTypeOK, PcLabels
<1>4. /\ pc'[c] = "mkrun" /\ dest'[c] = t_cpu[Head(list[c])]
      /\ \A d \in Cpus : d # c => pc'[d] = pc[d] /\ dest'[d] = dest[d]
  BY <1>1, Zenon DEF SchedIInv, SchedTypeOK
<1>5. Placed(c)'
  BY <1>1, <1>4 DEF SchedIInv, Placed
<1> QED BY <1>1, <1>3, <1>4, <1>5, LocalIInv, Zenon

\* The length of a list.
LEMMA LenNat == ASSUME NEW S, NEW q \in Seq(S) PROVE Len(q) \in Nat
OBVIOUS

\* The locals of thread_consider_migration are numbers.
LEMMA MigSays ==
  ASSUME SchedTypeOK, NEW c \in Cpus
  PROVE  /\ mig[c].i \in Nat /\ mig[c].my \in Nat /\ mig[c].total \in Nat /\ mig[c].share \in Nat /\ mig[c].send \in Nat
         /\ mig[c] \in MigType
         /\ Len(c_runqueue[c]) \in Nat /\ Len(list[c]) \in Nat
<1>1. mig[c] \in MigType /\ c_runqueue[c] \in Seq(Threads) /\ list[c] \in Seq(Threads)
  BY DEF SchedTypeOK
<1>2. Len(c_runqueue[c]) \in Nat /\ Len(list[c]) \in Nat
  BY <1>1, LenNat, Zenon
<1> QED BY <1>1, <1>2 DEF MigType

\* Another value for one of them.
LEMMA MigField ==
  ASSUME NEW r \in MigType, NEW n \in Nat
  PROVE  /\ [r EXCEPT !.i = n] \in MigType /\ [r EXCEPT !.i = n].i = n /\ [r EXCEPT !.i = n].send = r.send
         /\ [r EXCEPT !.send = n] \in MigType /\ [r EXCEPT !.send = n].i = r.i /\ [r EXCEPT !.send = n].send = n
BY Zenon DEF MigType

\* migrate.
LEMMA MigrateIInv ==
  ASSUME SchedIInv, NEW c \in Cpus, migrate(c)
  PROVE  SchedIInv'
<1> DEFINE m == [NoMig EXCEPT !.i = 1]
<1>1. /\ UNCHANGED <<c_curthread, c_isidle, c_runqueue, c_runqueue_lock, c_zombies, c_ipi, t_state, t_cpu, wc_threads,
                     newstate, list, dest>>
      /\ pc[c] \in {"run", "idle"}
      /\ pc' = [pc EXCEPT ![c] = "mig_count"] /\ mig' = [mig EXCEPT ![c] = m]
  BY DEF migrate, At, Goto, queues, threads, wchan
<1>2. m \in MigType /\ m.i = 1 /\ m.my = 0 /\ Len(c_runqueue[c]) \in Nat
  BY MigSays, Zenon DEF SchedIInv, NoMig, MigType
<1> HIDE DEF m
<1>3. SchedTypeOK'
  BY <1>1, <1>2, Zenon DEF SchedIInv, SchedTypeOK, PcLabels
<1>4. /\ pc'[c] = "mig_count" /\ mig'[c] = m
      /\ \A d \in Cpus : d # c => pc'[d] = pc[d] /\ mig'[d] = mig[d]
  BY <1>1 DEF SchedIInv, SchedTypeOK
<1>5. Placed(c)'
  <2>1. list[c] = << >>
    BY <1>1, Zenon DEF SchedIInv, Placed
  <2>2. mig'[c].i >= 1 /\ mig'[c].my <= Len(c_runqueue[c])
    BY <1>2, <1>4
  <2> QED BY <1>1, <1>4, <2>1, <2>2, Zenon DEF Placed
<1> QED BY <1>1, <1>3, <1>4, <1>5, LocalIInv

\* mig_count: what this CPU counts of its own queue stays there.
LEMMA MigCountIInv ==
  ASSUME SchedIInv, NEW c \in Cpus, mig_count(c)
  PROVE  SchedIInv'
<1> DEFINE i == mig[c].i
           n == Len(c_runqueue[i])
           m == [mig[c] EXCEPT !.i = i + 1, !.total = mig[c].total + n, !.my = IF i = c THEN n ELSE mig[c].my]
<1>1. /\ UNCHANGED <<c_curthread, c_isidle, c_runqueue, c_runqueue_lock, c_zombies, c_ipi, t_state, t_cpu, wc_threads,
                     newstate, list, dest, pc>>
      /\ pc[c] = "mig_count" /\ i <= NumCpus
      /\ mig' = [mig EXCEPT ![c] = m]
  BY Zenon DEF mig_count, At, queues, threads, wchan
<1>2. i \in Cpus
  BY <1>1, MigSays DEF SchedIInv, Placed, Cpus
<1>3. n \in Nat
  BY <1>2 DEF SchedIInv, SchedTypeOK
<1>4. m \in MigType /\ m.i = i + 1 /\ m.my = IF i = c THEN n ELSE mig[c].my
  <2> HIDE DEF i, n
  <2>1. i + 1 \in Nat /\ mig[c].total + n \in Nat /\ (IF i = c THEN n ELSE mig[c].my) \in Nat
    <3>1. i \in Nat /\ mig[c].total \in Nat /\ mig[c].my \in Nat
      BY MigSays DEF SchedIInv, i
    <3> QED BY <1>3, <3>1
  <2>2. mig[c] \in MigType
    BY MigSays DEF SchedIInv
  <2>3. PICK a \in Nat, t \in Nat, y \in Nat : a = i + 1 /\ t = mig[c].total + n /\ y = IF i = c THEN n ELSE mig[c].my
    BY <2>1
  <2>4. m = [mig[c] EXCEPT !.i = a, !.total = t, !.my = y]
    BY <2>3, Zenon
  <2> HIDE DEF m
  <2> QED BY <2>2, <2>3, <2>4, Zenon DEF MigType
<1> HIDE DEF m
<1>5. SchedTypeOK'
  BY <1>1, <1>4, Zenon DEF SchedIInv, SchedTypeOK
<1>6. mig'[c] = m /\ \A d \in Cpus : d # c => mig'[d] = mig[d]
  BY <1>1, Zenon DEF SchedIInv, SchedTypeOK
<1>7. mig'[c].i >= 1 /\ mig'[c].my <= Len(c_runqueue[c])
  <2>1. i \in Nat /\ mig[c].my \in Nat /\ mig[c].my <= Len(c_runqueue[c])
    BY <1>1, MigSays DEF SchedIInv, Placed
  <2>2. mig'[c].i = i + 1 /\ mig'[c].my = IF i = c THEN n ELSE mig[c].my
    BY <1>4, <1>6, Zenon
  <2> QED BY <1>3, <2>1, <2>2
<1>8. Placed(c)'
  BY <1>1, <1>7 DEF SchedIInv, Placed
<1> QED BY <1>1, <1>5, <1>6, <1>8, LocalIInv, Zenon

\* mig_decide: no more threads are to go than were counted.
LEMMA MigDecideIInv ==
  ASSUME SchedIInv, NEW c \in Cpus, mig_decide(c)
  PROVE  SchedIInv'
<1> DEFINE share == DivRoundUp(mig[c].total, NumCpus)
           m == [NoMig EXCEPT !.i = 1, !.share = share, !.send = mig[c].my - share]
<1>1. /\ UNCHANGED <<c_curthread, c_isidle, c_runqueue, c_runqueue_lock, c_zombies, c_ipi, t_state, t_cpu, wc_threads,
                     list, dest>>
      /\ pc[c] = "mig_count"
  BY DEF mig_decide, At, queues, threads, wchan
<1>2. share \in Nat
  <2>1. mig[c].total + NumCpus - 1 \in Nat /\ NumCpus \in Nat \ {0}
    BY SchedAssumption, MigSays DEF SchedIInv
  <2> QED BY <2>1 DEF DivRoundUp
<1>3. CASE mig[c].my < share
  <2>1. /\ mig' = [mig EXCEPT ![c] = NoMig]
        /\ IF c_isidle[c] THEN pc' = [pc EXCEPT ![c] = "idle_lock"] /\ newstate' = newstate
           ELSE pc' = [pc EXCEPT ![c] = "switch"] /\ newstate' = [newstate EXCEPT ![c] = "S_READY"]
    BY <1>3 DEF mig_decide, AfterMigration, Enter, Goto
  <2>2. SchedTypeOK'
    BY <1>1, <2>1, Zenon DEF SchedIInv, SchedTypeOK, PcLabels, NoMig, MigType
  <2>3. /\ pc'[c] = IF c_isidle[c] THEN "idle_lock" ELSE "switch"
        /\ \A d \in Cpus : d # c => pc'[d] = pc[d] /\ mig'[d] = mig[d] /\ newstate'[d] = newstate[d]
    BY <2>1 DEF SchedIInv, SchedTypeOK
  <2>4. Placed(c)'
    BY <1>1, <2>3, Zenon DEF SchedIInv, Placed
  <2> QED BY <1>1, <2>2, <2>3, <2>4, LocalIInv, Zenon
<1>4. CASE ~(mig[c].my < share)
  <2>1. mig' = [mig EXCEPT ![c] = m] /\ pc' = [pc EXCEPT ![c] = "mig_take"] /\ newstate' = newstate
    BY <1>4 DEF mig_decide, Goto
  <2>2. m \in MigType /\ m.i = 1 /\ m.send = mig[c].my - share
    <3> HIDE DEF share
    <3>1. mig[c].my - share \in Nat
      BY <1>2, <1>4, MigSays DEF SchedIInv
    <3>2. PICK a \in Nat, b \in Nat : a = share /\ b = mig[c].my - share
      BY <1>2, <3>1
    <3>3. m = [NoMig EXCEPT !.i = 1, !.share = a, !.send = b]
      BY <3>2, Zenon
    <3> HIDE DEF m
    <3> QED BY <3>2, <3>3, Zenon DEF MigType, NoMig
  <2>3. mig[c].my - share <= Len(c_runqueue[c])
    BY <1>1, <1>2, MigSays DEF SchedIInv, Placed
  <2> HIDE DEF m
  <2>4. SchedTypeOK'
    BY <1>1, <2>1, <2>2 DEF SchedIInv, SchedTypeOK, PcLabels
  <2>5. /\ pc'[c] = "mig_take" /\ mig'[c] = m
        /\ \A d \in Cpus : d # c => pc'[d] = pc[d] /\ mig'[d] = mig[d]
    BY <2>1, Zenon DEF SchedIInv, SchedTypeOK
  <2>6. Placed(c)'
    BY <1>1, <2>2, <2>3, <2>5, Zenon DEF SchedIInv, Placed
  <2> QED BY <1>1, <2>1, <2>4, <2>5, <2>6, LocalIInv
<1> QED BY <1>3, <1>4

\* mig_lock and mig_unlock: the next queue, or its lock.
LEMMA MigLockIInv ==
  ASSUME SchedIInv, NEW c \in Cpus, mig_lock(c) \/ mig_unlock(c)
  PROVE  SchedIInv'
<1> DEFINE i == mig[c].i
           m == [mig[c] EXCEPT !.i = i + 1]
<1>1. /\ UNCHANGED <<c_curthread, c_isidle, c_runqueue, c_zombies, c_ipi, t_state, t_cpu, wc_threads,
                     newstate, list, dest>>
      /\ pc[c] \in {"mig_give", "mig_move"}
  BY DEF mig_lock, mig_unlock, At, threads, wchan
<1>2. /\ m \in MigType /\ m.i = i + 1 /\ m.send = mig[c].send
      /\ i \in Nat /\ i + 1 \in Nat /\ i >= 1 /\ mig[c] \in MigType
  <2>1. i \in Nat /\ mig[c] \in MigType
    BY MigSays, Zenon DEF SchedIInv
  <2>2. i >= 1
    BY <1>1, <2>1 DEF SchedIInv, Placed, Cpus
  <2>3. PICK a \in Nat : a = i + 1
    BY <2>1
  <2>4. m = [mig[c] EXCEPT !.i = a]
    BY <2>3
  <2> QED BY <2>1, <2>2, <2>3, <2>4, MigField, Zenon
<1>3. i <= NumCpus => i \in Cpus
  BY <1>2 DEF Cpus
<1>4. PICK l \in {"mig_give", "mig_move"}, r \in {m, mig[c]}, h \in [Cpus -> Cpus \cup {None}] :
        /\ pc' = [pc EXCEPT ![c] = l] /\ mig' = [mig EXCEPT ![c] = r] /\ c_runqueue_lock' = h
        /\ l = "mig_move" => r = mig[c] /\ i \in Cpus /\ i # c /\ h[i] = c
        /\ \A d \in Cpus : h[d] = c_runqueue_lock[d] \/ c_runqueue_lock[d] \in {None, c}
  <2>0. pc = [pc EXCEPT ![c] = pc[c]] /\ mig = [mig EXCEPT ![c] = mig[c]] /\ c_runqueue_lock \in [Cpus -> Cpus \cup {None}]
    BY Zenon DEF SchedIInv, SchedTypeOK
  <2> HIDE DEF m
  <2>1. CASE mig_lock(c) /\ i = c
    <3>1. mig' = [mig EXCEPT ![c] = m] /\ UNCHANGED <<c_runqueue_lock, pc>> /\ pc[c] = "mig_give"
      BY <2>1 DEF mig_lock, At, m
    <3> QED BY <2>0, <3>1
  <2>2. CASE mig_lock(c) /\ i # c
    <3>1. /\ mig' = mig /\ pc' = [pc EXCEPT ![c] = "mig_move"] /\ i <= NumCpus /\ c_runqueue_lock[i] = None
          /\ c_runqueue_lock' = [c_runqueue_lock EXCEPT ![i] = c]
      BY <2>2, Zenon DEF mig_lock, Goto, Free, More
    <3>2. i \in Cpus
      BY <1>3, <3>1, Zenon
    <3>3. /\ c_runqueue_lock' \in [Cpus -> Cpus \cup {None}] /\ c_runqueue_lock'[i] = c
          /\ \A d \in Cpus : c_runqueue_lock'[d] = c_runqueue_lock[d] \/ c_runqueue_lock[d] \in {None, c}
      BY <2>0, <3>1, <3>2
    <3> QED BY <2>0, <2>2, <3>1, <3>2, <3>3, Zenon
  <2>3. CASE mig_unlock(c)
    <3>1. /\ mig' = [mig EXCEPT ![c] = m] /\ pc' = [pc EXCEPT ![c] = "mig_give"] /\ pc[c] = "mig_move"
          /\ c_runqueue_lock' = [c_runqueue_lock EXCEPT ![i] = None]
      BY <2>3, Zenon DEF mig_unlock, Goto, At, m
    <3>2. i \in Cpus /\ c_runqueue_lock[i] = c
      BY <3>1 DEF SchedIInv, Placed
    <3>3. /\ c_runqueue_lock' \in [Cpus -> Cpus \cup {None}]
          /\ \A d \in Cpus : c_runqueue_lock'[d] = c_runqueue_lock[d] \/ c_runqueue_lock[d] \in {None, c}
      BY <2>0, <3>1, <3>2, Zenon
    <3> QED BY <3>1, <3>3, Zenon
  <2> QED BY <2>1, <2>2, <2>3
<1> HIDE DEF m
<1>5. r \in MigType /\ r.send = mig[c].send /\ r.i >= 1
  <2>1. CASE r = m
    BY <1>2, <2>1
  <2>2. CASE r = mig[c]
    BY <1>2, <2>2, Zenon
  <2> QED BY <1>4, <2>1, <2>2, Zenon
<1>6. SchedTypeOK'
  BY <1>1, <1>4, <1>5, Zenon DEF SchedIInv, SchedTypeOK, PcLabels
<1>7. /\ pc'[c] = l /\ mig'[c] = r
      /\ \A d \in Cpus : d # c => pc'[d] = pc[d] /\ mig'[d] = mig[d]
  BY <1>4 DEF SchedIInv, SchedTypeOK
<1>8. Placed(c)'
  <2>1. /\ mig[c].send <= Len(list[c]) /\ (\A t \in Li(c) : t_state[t] = "S_READY" /\ t_cpu[t] = c)
    BY <1>1, Zenon DEF SchedIInv, Placed
  <2>2. Li(c)' = Li(c)
    BY <1>1, Zenon DEF Li
  <2>3. l = "mig_move" => mig'[c].i \in Cpus /\ mig'[c].i # c /\ c_runqueue_lock'[mig'[c].i] = c
    BY <1>4, <1>7, Zenon
  <2>4. mig'[c].send = mig[c].send /\ mig'[c].i >= 1
    BY <1>5, <1>7, Zenon
  <2> QED BY <1>1, <1>7, <2>1, <2>2, <2>3, <2>4, Zenon DEF Placed
<1> QED BY <1>1, <1>4, <1>6, <1>7, <1>8, LocalIInv

----------------------------------------------------------------------------
(* Steps that move threads                                                 *)

\* A thread that the step does not touch.
Untouched(t) ==
  /\ t_state'[t] = t_state[t] /\ t_cpu'[t] = t_cpu[t] /\ (t \in Wc' <=> t \in Wc)
  /\ \A d \in Cpus : (t \in Rq(d)' <=> t \in Rq(d)) /\ (t \in Zo(d)' <=> t \in Zo(d)) /\ (t \in Li(d)' <=> t \in Li(d))

\* A CPU other than the one that takes the step.
Aside(d) ==
  /\ c_curthread'[d] = c_curthread[d] /\ c_isidle'[d] = c_isidle[d] /\ pc'[d] = pc[d] /\ newstate'[d] = newstate[d]
  /\ mig'[d] = mig[d] /\ dest'[d] = dest[d] /\ list'[d] = list[d]
  /\ Len(c_runqueue[d]) <= Len(c_runqueue'[d])
  /\ pc[d] = "idle" /\ c_runqueue'[d] # << >> => c_ipi'[d]

\* What the step may do to that CPU's threads: those it has on its private list,
\* and the one whose stack it is on.
ListLeft(d, M) == \A t \in M : t \in Li(d) => pc[d] \notin {"mig_give", "mig_move"} /\ t_cpu'[t] = t_cpu[t]
StackLeft(d, c) ==
  /\ Listed(cur(d))' /\ ~Busy(d) /\ t_cpu'[cur(d)] = d
  /\ pc[d] = "mark" => newstate[d] = "S_SLEEP" /\ cur(d) \in Li(c)' /\ pc'[c] \in {"deliver", "mkrun"}

\* CPU c moves the threads of M, from list to list or on and off its stack.
\* Whatever the invariant says of them and of c is to be shown of the step;
\* for the others it is what it was.
Moves(c, M) ==
  /\ SchedTypeOK' /\ Injective' /\ Placed(c)'
  /\ \A t \in Threads : t \notin M => Untouched(t)
  /\ \A t \in Threads : t \in M => LinkedOnce(t)' /\ Kept(t)'
  /\ \A d \in Cpus : d # c => Aside(d) /\ ListLeft(d, M) /\ (cur(d) \in M => StackLeft(d, c))
  /\ \A d \in Cpus : c_runqueue_lock'[d] = c_runqueue_lock[d] \/ c_runqueue_lock[d] \in {None, c}
  /\ t_cpu'[cur(c)'] = c /\ (Busy(c)' <=> ~Listed(cur(c))')
  /\ Busy(c) /\ cur(c) \notin M => Busy(c)' /\ cur(c)' = cur(c)
  /\ pc'[c] = "mark" => PutAway(c)'
  /\ pc[c] \in {"deliver", "mkrun"} => pc'[c] \in {"deliver", "mkrun"} \/ \A t \in Li(c) : t \in M

\* A thread that the step does not touch is linked as it was.
LEMMA UntouchedLinked == ASSUME NEW t \in Threads, Untouched(t), LinkedOnce(t) PROVE LinkedOnce(t)'
BY DEF Untouched, LinkedOnce

\* What a CPU that stands aside relies on.
LEMMA PlacedSays ==
  ASSUME SchedIInv, NEW d \in Cpus
  PROVE  /\ Li(d) \subseteq Threads
         /\ Len(c_runqueue[d]) <= Len(c_runqueue[d])
         /\ pc[d] = "idle" => c_isidle[d] /\ (c_runqueue[d] # << >> => c_ipi[d])
         /\ pc[d] \in {"mig_give", "mig_move"} => \A t \in Li(d) : t_state[t] = "S_READY" /\ t_cpu[t] = d
<1>1. list[d] \in Seq(Threads) /\ Len(c_runqueue[d]) \in Nat
  BY MigSays, Zenon DEF SchedIInv, SchedTypeOK
<1>2. Li(d) \subseteq Threads
  BY <1>1 DEF Li, Range
<1>3. Placed(d)
  BY DEF SchedIInv
<1>4. Len(c_runqueue[d]) <= Len(c_runqueue[d])
  BY <1>1
<1> QED BY <1>2, <1>3, <1>4, Zenon DEF Placed

\* A queue that has not become shorter holds as many threads.
LEMMA StillAsMany ==
  ASSUME NEW n \in Nat, NEW S, NEW q \in Seq(S), NEW r \in Seq(S), n <= Len(q), Len(q) <= Len(r)
  PROVE  n <= Len(r)
OBVIOUS

\* Such a step keeps the invariant.
LEMMA MoveIInv ==
  ASSUME SchedIInv, NEW c \in Cpus, NEW M, Moves(c, M)
  PROVE  SchedIInv'
<1>m. /\ SchedTypeOK' /\ Injective' /\ Placed(c)'
      /\ \A t \in Threads : t \in M => LinkedOnce(t)' /\ Kept(t)'
  BY Zenon DEF Moves
<1>u. \A t \in Threads : t \notin M => Untouched(t)
  BY Zenon DEF Moves
<1>d. \A d \in Cpus : d # c => Aside(d) /\ ListLeft(d, M) /\ (cur(d) \in M => StackLeft(d, c))
  BY Zenon DEF Moves
<1>c. /\ t_cpu'[cur(c)'] = c /\ (Busy(c)' <=> ~Listed(cur(c))')
      /\ Busy(c) /\ cur(c) \notin M => Busy(c)' /\ cur(c)' = cur(c)
      /\ pc'[c] = "mark" => PutAway(c)'
  BY Zenon DEF Moves
<1>1. \A d \in Cpus : d # c => cur(d)' = cur(d) /\ Busy(d)' = Busy(d) /\ cur(d) \in Threads /\ Li(d)' = Li(d)
  BY <1>d, Zenon DEF Aside, cur, Busy, SchedIInv, SchedTypeOK, Li
<1>2. \A t \in Threads : t \notin M => Listed(t)' = Listed(t)
  BY <1>u, Zenon DEF Untouched, Listed
<1>3. Linked'
  <2> SUFFICES ASSUME NEW t \in Threads PROVE LinkedOnce(t)'
    BY DEF Linked
  <2>1. CASE t \notin M
    BY <1>u, <2>1, UntouchedLinked, Zenon DEF SchedIInv, Linked
  <2> QED BY <1>m, <2>1, Zenon
<1>4. Existing'
  <2> SUFFICES ASSUME NEW t \in Threads PROVE Kept(t)'
    BY DEF Existing
  <2>1. CASE t \notin M
    <3>1. ASSUME NEW d \in Cpus, Busy(d), cur(d) = t PROVE Busy(d)' /\ cur(d)' = t
      BY <1>1, <1>c, <2>1, <3>1, Zenon
    <3>2. Kept(t)
      BY Zenon DEF SchedIInv, Existing
    <3> QED BY <1>2, <1>u, <2>1, <3>1, <3>2, Zenon DEF Untouched, Kept
  <2> QED BY <1>m, <2>1, Zenon
<1>5. Currents'
  <2> SUFFICES ASSUME NEW d \in Cpus PROVE t_cpu'[cur(d)'] = d /\ (Busy(d)' <=> ~Listed(cur(d))')
    BY DEF Currents
  <2>1. CASE d # c
    <3>1. t_cpu[cur(d)] = d /\ (Busy(d) <=> ~Listed(cur(d)))
      BY Zenon DEF SchedIInv, Currents
    <3>2. PICK t \in Threads : cur(d)' = t /\ cur(d) = t /\ Busy(d)' = Busy(d)
      BY <1>1, <2>1, Zenon
    <3>3. Listed(cur(d))' = Listed(t)'
      BY <3>2, Zenon DEF Listed
    <3> QED BY <1>2, <1>d, <1>u, <2>1, <3>1, <3>2, <3>3, Zenon DEF StackLeft, Untouched
  <2> QED BY <1>c, <2>1, Zenon
<1>6. Marked'
  <2> SUFFICES ASSUME NEW d \in Cpus, pc'[d] = "mark" PROVE PutAway(d)'
    BY DEF Marked
  <2>1. CASE d # c
    <3>1. PutAway(d) /\ cur(d)' = cur(d) /\ cur(d) \in Threads /\ newstate'[d] = newstate[d] /\ pc[d] = "mark"
      BY <1>1, <1>d, <2>1, Zenon DEF Aside, SchedIInv, Marked
    <3>2. CASE cur(d) \in M
      BY <1>d, <2>1, <3>1, <3>2, Zenon DEF StackLeft, PutAway
    <3>3. CASE cur(d) \notin M
      <4>1. ASSUME NEW e \in Cpus, cur(d) \in Li(e), pc[e] \in {"deliver", "mkrun"}
            PROVE  cur(d) \in Li(e)' /\ pc'[e] \in {"deliver", "mkrun"}
        BY <1>d, <1>u, <3>1, <3>3, <4>1, Zenon DEF Aside, Untouched, Moves
      <4> QED BY <1>u, <3>1, <3>3, <4>1, Zenon DEF Untouched, PutAway
    <3> QED BY <3>2, <3>3
  <2> QED BY <1>c, <2>1, Zenon
<1>7. ASSUME NEW d \in Cpus PROVE Placed(d)'
  <2>1. CASE d # c
    <3>1. /\ pc'[d] = pc[d] /\ mig'[d] = mig[d] /\ dest'[d] = dest[d] /\ c_isidle'[d] = c_isidle[d]
          /\ list'[d] = list[d] /\ Li(d)' = Li(d)
          /\ Len(c_runqueue[d]) <= Len(c_runqueue'[d])
          /\ pc[d] = "idle" /\ c_runqueue'[d] # << >> => c_ipi'[d]
          /\ ListLeft(d, M)
      BY <1>1, <1>d, <2>1, Zenon DEF Aside
    <3>2. \A e \in Cpus : c_runqueue_lock[e] = d => c_runqueue_lock'[e] = d
      <4>1. \A e \in Cpus : c_runqueue_lock'[e] = c_runqueue_lock[e] \/ c_runqueue_lock[e] \in {None, c}
        BY Zenon DEF Moves
      <4> QED BY <2>1, <4>1, SchedAssumption, Zenon
    <3>3. Placed(d) /\ Injective /\ SchedTypeOK
      BY Zenon DEF SchedIInv
    <3>4. pc[d] \in {"mig_give", "mig_move"} => \A t \in Li(d) : t_state'[t] = "S_READY" /\ t_cpu'[t] = d
      <4> SUFFICES ASSUME pc[d] \in {"mig_give", "mig_move"}, NEW t \in Li(d) PROVE t_state'[t] = "S_READY" /\ t_cpu'[t] = d
        BY Zenon
      <4>1. t \in Threads /\ t_state[t] = "S_READY" /\ t_cpu[t] = d
        BY PlacedSays, Zenon
      <4>2. t \notin M
        BY <3>1, Zenon DEF ListLeft
      <4> QED BY <1>u, <4>1, <4>2, Zenon DEF Untouched
    <3>5. pc[d] = "mkrun" => dest[d] = t_cpu'[Head(list[d])]
      <4>1. SUFFICES ASSUME pc[d] = "mkrun" PROVE dest[d] = t_cpu'[Head(list[d])]
        BY Zenon
      <4>2. Head(list[d]) \in Threads /\ Head(list[d]) \in Li(d) /\ dest[d] = t_cpu[Head(list[d])]
        BY <3>3, <4>1, ListRemove, Zenon DEF SchedTypeOK, Injective, Li, Placed
      <4> QED BY <1>u, <3>1, <4>2, Zenon DEF ListLeft, Untouched
    <3>6. /\ pc[d] = "mig_count" => mig[d].my <= Len(c_runqueue'[d])
          /\ pc[d] = "mig_take" => mig[d].send <= Len(c_runqueue'[d]) /\ mig[d].i = 1
      <4>1. c_runqueue'[d] \in Seq(Threads) /\ c_runqueue[d] \in Seq(Threads)
        BY <1>m, <3>3, Zenon DEF SchedTypeOK
      <4>2. mig[d].my \in Nat /\ mig[d].send \in Nat
        BY <3>3, MigSays, Zenon
      <4> QED BY <3>1, <3>3, <4>1, <4>2, StillAsMany, Zenon DEF Placed
    <3>7. /\ pc[d] \in {"mark", "pick"} => c_runqueue_lock'[d] = d
          /\ pc[d] = "mig_move" => mig[d].i \in Cpus /\ mig[d].i # d /\ c_runqueue_lock'[mig[d].i] = d
      BY <3>2, <3>3, Zenon DEF Placed
    <3> QED BY <3>1, <3>3, <3>4, <3>5, <3>6, <3>7, Zenon DEF Placed
  <2> QED BY <1>m, <2>1, Zenon
<1> QED BY <1>3, <1>4, <1>5, <1>6, <1>7, <1>m, Zenon DEF SchedIInv

\* A CPU is on the stack of a thread of its own, so no two are on the same.
LEMMA CurSays ==
  ASSUME SchedIInv, NEW c \in Cpus
  PROVE  /\ cur(c) \in Threads /\ t_cpu[cur(c)] = c /\ t_state[cur(c)] # "none"
         /\ \A d \in Cpus : cur(d) = cur(c) => d = c
         /\ Busy(c) => /\ cur(c) \notin Wc
                       /\ \A d \in Cpus : cur(c) \notin Rq(d) /\ cur(c) \notin Zo(d) /\ cur(c) \notin Li(d)
<1>1. cur(c) \in Threads /\ t_cpu[cur(c)] = c /\ (Busy(c) <=> ~Listed(cur(c))) /\ \A d \in Cpus : t_cpu[cur(d)] = d
  BY Zenon DEF SchedIInv, SchedTypeOK, Currents, cur
<1>2. t_state[cur(c)] # "none"
  BY <1>1, SchedAssumption DEF SchedIInv, Existing, Kept
<1> QED BY <1>1, <1>2, Zenon DEF Listed

\* switch_place, whichever list the current thread goes to.
LEMMA PlaceIInv ==
  ASSUME SchedIInv, NEW c \in Cpus, switch_place(c)
  PROVE  SchedIInv'
<1>1. /\ UNCHANGED <<c_curthread, c_isidle, c_ipi, t_cpu, newstate, list, dest, mig>>
      /\ pc[c] = "switch" /\ c_runqueue_lock[c] = None
      /\ c_runqueue_lock' = [c_runqueue_lock EXCEPT ![c] = c]
      /\ pc' = [pc EXCEPT ![c] = "mark"]
      /\ place_ready(c) \/ place_sleep(c) \/ place_zombie(c)
  BY Zenon DEF switch_place, At, Goto, Free, locals
<1>2. /\ ~c_isidle[c] /\ list[c] = << >> /\ Busy(c)
  BY <1>1, Zenon DEF SchedIInv, Placed, Busy
<1>3. PICK t \in Threads : t = cur(c)
  BY CurSays, Zenon
<1>4. /\ t_cpu[t] = c /\ t_state[t] # "none" /\ t \notin Wc
      /\ \A d \in Cpus : t \notin Rq(d) /\ t \notin Zo(d) /\ t \notin Li(d) /\ (cur(d) = t => d = c)
  BY <1>2, <1>3, CurSays, Zenon
<1>5. /\ c_curthread'[c] = t /\ (\A d \in Cpus : cur(d)' = cur(d) /\ Li(d)' = Li(d)) /\ pc'[c] = "mark"
      /\ \A d \in Cpus : d # c => pc'[d] = pc[d] /\ c_runqueue_lock'[d] = c_runqueue_lock[d]
      /\ c_runqueue_lock'[c] = c
  BY <1>1, <1>3, Zenon DEF SchedIInv, SchedTypeOK, cur, Li
<1>6. /\ SchedTypeOK' /\ Injective'
      /\ Wc' = (IF newstate[c] = "S_SLEEP" THEN Wc \cup {t} ELSE Wc)
      /\ \A d \in Cpus : /\ Rq(d)' = IF d = c /\ newstate[c] = "S_READY" THEN Rq(d) \cup {t} ELSE Rq(d)
                         /\ Zo(d)' = IF d = c /\ newstate[c] = "S_ZOMBIE" THEN Zo(d) \cup {t} ELSE Zo(d)
                         /\ d # c => c_runqueue'[d] = c_runqueue[d]
      /\ \A u \in Threads : u # t => t_state'[u] = t_state[u]
      /\ t_state'[t] = (IF newstate[c] = "S_READY" THEN "S_READY" ELSE t_state[t])
      /\ newstate[c] \in {"S_READY", "S_SLEEP", "S_ZOMBIE"}
  <2>0. SchedTypeOK /\ Injective
    BY Zenon DEF SchedIInv
  <2>1. CASE place_ready(c)
    <3>1. /\ newstate[c] = "S_READY" /\ UNCHANGED <<wc_threads, c_zombies>>
          /\ t_state' = [t_state EXCEPT ![t] = "S_READY"]
          /\ c_runqueue' = [c_runqueue EXCEPT ![c] = Append(c_runqueue[c], t)]
      BY <1>3, <2>1 DEF place_ready, wchan
    <3>2. PICK q : q = Append(c_runqueue[c], t)
      BY Zenon
    <3>3. q \in Seq(Threads) /\ Range(q) = Rq(c) \cup {t} /\ IsInjective(q)
      BY <1>4, <2>0, <3>2, ListAdd DEF SchedTypeOK, Injective, Rq
    <3>4. c_runqueue'[c] = q /\ \A d \in Cpus : d # c => c_runqueue'[d] = c_runqueue[d]
      BY <2>0, <3>1, <3>2, Zenon DEF SchedTypeOK
    <3>5. SchedTypeOK'
      BY <1>1, <2>0, <3>1, <3>2, <3>3 DEF SchedTypeOK, PcLabels
    <3>6. Injective'
      BY <1>1, <2>0, <3>1, <3>3, <3>4, Zenon DEF Injective
    <3>7. Wc' = Wc /\ (\A d \in Cpus : Zo(d)' = Zo(d)) /\ \A d \in Cpus : d # c => Rq(d)' = Rq(d)
      BY <3>1, <3>4 DEF Wc, Zo, Rq
    <3>8. Rq(c)' = Rq(c) \cup {t}
      BY <3>3, <3>4, Zenon DEF Rq
    <3> QED BY <2>0, <3>1, <3>4, <3>5, <3>6, <3>7, <3>8 DEF SchedTypeOK
  <2>2. CASE place_sleep(c)
    <3>1. newstate[c] = "S_SLEEP" /\ UNCHANGED <<t_state, c_runqueue, c_zombies>> /\ wc_threads' = Append(wc_threads, t)
      BY <1>3, <2>2 DEF place_sleep
    <3>3. wc_threads' \in Seq(Threads) /\ Wc' = Wc \cup {t} /\ IsInjective(wc_threads')
      BY <1>4, <2>0, <3>1, ListAdd DEF SchedTypeOK, Injective, Wc
    <3>5. SchedTypeOK'
      BY <1>1, <2>0, <3>1, <3>3 DEF SchedTypeOK, PcLabels
    <3>6. Injective'
      BY <1>1, <2>0, <3>1, <3>3, Zenon DEF Injective
    <3>7. \A d \in Cpus : Zo(d)' = Zo(d) /\ Rq(d)' = Rq(d)
      BY <3>1, Zenon DEF Zo, Rq
    <3> QED BY <2>0, <3>1, <3>3, <3>5, <3>6, <3>7, Zenon DEF SchedTypeOK
  <2>3. CASE place_zombie(c)
    <3>1. /\ newstate[c] = "S_ZOMBIE" /\ UNCHANGED <<wc_threads, t_state, c_runqueue>>
          /\ c_zombies' = [c_zombies EXCEPT ![c] = Append(c_zombies[c], t)]
      BY <1>3, <2>3 DEF place_zombie, wchan
    <3>2. PICK q : q = Append(c_zombies[c], t)
      BY Zenon
    <3>3. q \in Seq(Threads) /\ Range(q) = Zo(c) \cup {t} /\ IsInjective(q)
      BY <1>4, <2>0, <3>2, ListAdd DEF SchedTypeOK, Injective, Zo
    <3>4. c_zombies'[c] = q /\ \A d \in Cpus : d # c => c_zombies'[d] = c_zombies[d]
      BY <2>0, <3>1, <3>2, Zenon DEF SchedTypeOK
    <3>5. SchedTypeOK'
      BY <1>1, <2>0, <3>1, <3>2, <3>3 DEF SchedTypeOK, PcLabels
    <3>6. Injective'
      BY <1>1, <2>0, <3>1, <3>3, <3>4, Zenon DEF Injective
    <3>7. Wc' = Wc /\ (\A d \in Cpus : Rq(d)' = Rq(d)) /\ \A d \in Cpus : d # c => Zo(d)' = Zo(d)
      BY <3>1, <3>4 DEF Wc, Zo, Rq
    <3>8. Zo(c)' = Zo(c) \cup {t}
      BY <3>3, <3>4, Zenon DEF Zo
    <3> QED BY <2>0, <3>1, <3>4, <3>5, <3>6, <3>7, <3>8 DEF SchedTypeOK
  <2> QED BY <1>1, <2>1, <2>2, <2>3, Zenon
<1>7. LinkedOnce(t)'
  <2>1. /\ t \in Wc' => newstate[c] = "S_SLEEP"
        /\ \A d \in Cpus : /\ t \in Rq(d)' => d = c /\ newstate[c] = "S_READY" /\ t_state'[t] = "S_READY"
                           /\ t \in Zo(d)' => d = c /\ newstate[c] = "S_ZOMBIE"
                           /\ t \notin Li(d)'
    BY <1>4, <1>5, <1>6, Zenon
  <2>2. t_cpu'[t] = c
    BY <1>1, <1>4, Zenon
  <2> QED BY <2>1, <2>2 DEF LinkedOnce
<1>8. Listed(t)' /\ Listed(cur(c))' /\ ~Busy(c)' /\ PutAway(c)'
  <2>1. \/ newstate'[c] = "S_READY" /\ t \in Rq(c)'
        \/ newstate'[c] = "S_ZOMBIE" /\ t \in Zo(c)'
        \/ newstate'[c] = "S_SLEEP" /\ t \in Wc'
    BY <1>1, <1>6, Zenon
  <2>2. cur(c)' = t
    BY <1>3, <1>5, Zenon
  <2>3. Listed(t)'
    BY <2>1, Zenon DEF Listed
  <2>4. ~Busy(c)'
    BY <1>5, Zenon DEF Busy
  <2> QED BY <2>1, <2>2, <2>3, <2>4, Zenon DEF PutAway
<1>9. Kept(t)'
  BY <1>1, <1>4, <1>6, <1>8, SchedAssumption, Zenon DEF Kept
<1>10. Placed(c)'
  BY <1>1, <1>2, <1>5, Zenon DEF Placed
<1>11. \A u \in Threads : u \notin {t} => Untouched(u)
  BY <1>1, <1>5, <1>6, Zenon DEF Untouched
<1>12. \A d \in Cpus : d # c => Aside(d) /\ ListLeft(d, {t}) /\ cur(d) \notin {t}
  <2>1. ASSUME NEW d \in Cpus, d # c PROVE Aside(d)
    <3>1. /\ Len(c_runqueue[d]) <= Len(c_runqueue[d])
          /\ pc[d] = "idle" /\ c_runqueue[d] # << >> => c_ipi[d]
      BY PlacedSays, Zenon
    <3> QED BY <1>1, <1>5, <1>6, <2>1, <3>1, Zenon DEF Aside
  <2> QED BY <1>4, <1>5, <1>6, <2>1, Zenon DEF ListLeft
<1>13. \A d \in Cpus : c_runqueue_lock'[d] = c_runqueue_lock[d] \/ c_runqueue_lock[d] \in {None, c}
  BY <1>1, <1>5, Zenon
<1>14. t_cpu'[cur(c)'] = c
  BY <1>1, <1>3, <1>4, <1>5, Zenon
<1>15. Moves(c, {t})
  BY <1>1, <1>3, <1>6, <1>7, <1>8, <1>9, <1>10, <1>11, <1>12, <1>13, <1>14, Zenon DEF Moves
<1> QED BY <1>15, MoveIInv, Zenon

\* switch_mark: the state that is set agrees with the list the thread is on,
\* whoever has taken it off the wait channel since.
LEMMA MarkIInv ==
  ASSUME SchedIInv, NEW c \in Cpus, switch_mark(c)
  PROVE  SchedIInv'
<1>1. /\ UNCHANGED <<c_curthread, c_runqueue, c_runqueue_lock, c_zombies, c_ipi, t_cpu, wc_threads, list, dest, mig>>
      /\ pc[c] = "mark" /\ pc' = [pc EXCEPT ![c] = "pick"]
      /\ newstate' = [newstate EXCEPT ![c] = "S_READY"] /\ c_isidle' = [c_isidle EXCEPT ![c] = TRUE]
      /\ t_state' = [t_state EXCEPT ![cur(c)] = newstate[c]]
  BY Zenon DEF switch_mark, At, Goto, queues, wchan
<1>2. PICK t \in Threads : t = cur(c)
  BY CurSays, Zenon
<1>3. /\ t_cpu[t] = c /\ t_state[t] # "none" /\ \A d \in Cpus : cur(d) = t => d = c
  BY <1>2, CurSays, Zenon
<1>4. /\ \A d \in Cpus : Rq(d)' = Rq(d) /\ Zo(d)' = Zo(d) /\ Li(d)' = Li(d) /\ cur(d)' = cur(d)
      /\ Wc' = Wc
  BY <1>1, Zenon DEF Rq, Zo, Li, Wc, cur
<1>5. /\ newstate[c] \in {"S_READY", "S_SLEEP", "S_ZOMBIE"} /\ t_state'[t] = newstate[c]
      /\ \A u \in Threads : u # t => t_state'[u] = t_state[u]
      /\ pc'[c] = "pick" /\ c_isidle'[c] = TRUE
      /\ \A d \in Cpus : d # c => pc'[d] = pc[d] /\ newstate'[d] = newstate[d] /\ c_isidle'[d] = c_isidle[d]
  BY <1>1, <1>2 DEF SchedIInv, SchedTypeOK
<1>6. SchedTypeOK'
  BY <1>1, <1>5, Zenon DEF SchedIInv, SchedTypeOK, PcLabels
<1>7. Injective'
  BY <1>1, Zenon DEF SchedIInv, Injective
<1>8. LinkedOnce(t) /\ Kept(t) /\ PutAway(c) /\ ~Busy(c) /\ Listed(t)
  BY <1>1, <1>2, Zenon DEF SchedIInv, Linked, Existing, Marked, Busy, Currents
<1>9. \A d \in Cpus : t \in Rq(d) => newstate[c] = "S_READY"
  BY <1>2, <1>8, Zenon DEF PutAway, LinkedOnce
<1>10. LinkedOnce(t)'
  BY <1>1, <1>4, <1>5, <1>8, <1>9 DEF LinkedOnce
<1>11. Listed(t)' /\ Listed(cur(c))' /\ ~Busy(c)'
  BY <1>2, <1>4, <1>5, <1>8, Zenon DEF Listed, Busy
<1>12. Kept(t)'
  BY <1>1, <1>3, <1>5, <1>11, SchedAssumption, Zenon DEF Kept
<1>13. Placed(c)'
  BY <1>1, <1>5, Zenon DEF SchedIInv, Placed
<1>14. \A u \in Threads : u \notin {t} => Untouched(u)
  BY <1>1, <1>4, <1>5 DEF Untouched
<1>15. \A d \in Cpus : d # c => Aside(d) /\ ListLeft(d, {t}) /\ cur(d) \notin {t}
  <2>1. ASSUME NEW d \in Cpus, d # c PROVE Aside(d)
    <3>1. /\ Len(c_runqueue[d]) <= Len(c_runqueue[d])
          /\ pc[d] = "idle" /\ c_runqueue[d] # << >> => c_ipi[d]
      BY PlacedSays, Zenon
    <3> QED BY <1>1, <1>5, <2>1, <3>1, Zenon DEF Aside
  <2>2. \A d \in Cpus : pc[d] \in {"mig_give", "mig_move"} => \A u \in Li(d) : t_cpu[u] = d
    BY PlacedSays, Zenon
  <2> QED BY <1>1, <1>3, <2>1, <2>2, Zenon DEF ListLeft
<1>16. \A d \in Cpus : c_runqueue_lock'[d] = c_runqueue_lock[d]
  BY <1>1, Zenon
<1>17. t_cpu'[cur(c)'] = c
  BY <1>1, <1>2, <1>3, <1>4
<1>18. Moves(c, {t})
  BY <1>1, <1>5, <1>6, <1>7, <1>8, <1>10, <1>11, <1>12, <1>13, <1>14, <1>15, <1>16, <1>17, Zenon DEF Moves
<1> QED BY <1>18, MoveIInv, Zenon

\* switch_pick: the CPU leaves a stack whose thread is on a list, for one whose
\* thread is of its own and on no other CPU's stack.
LEMMA PickIInv ==
  ASSUME SchedIInv, NEW c \in Cpus, switch_pick(c)
  PROVE  SchedIInv'
<1>1. /\ UNCHANGED <<c_zombies, c_ipi, t_cpu, wc_threads, newstate, list, dest, mig>>
      /\ pc[c] = "pick" /\ pc' = [pc EXCEPT ![c] = "exorcise"] /\ c_runqueue[c] # << >>
      /\ c_runqueue' = [c_runqueue EXCEPT ![c] = Tail(c_runqueue[c])]
      /\ c_isidle' = [c_isidle EXCEPT ![c] = FALSE]
      /\ c_curthread' = [c_curthread EXCEPT ![c] = Head(c_runqueue[c])]
      /\ t_state' = [t_state EXCEPT ![Head(c_runqueue[c])] = "S_RUN"]
      /\ c_runqueue_lock' = [c_runqueue_lock EXCEPT ![c] = None]
  BY DEF switch_pick, At, Goto, wchan, locals
<1>0. SchedTypeOK /\ Injective
  BY DEF SchedIInv
<1>2. PICK t \in Threads, q \in Seq(Threads) :
        /\ t = Head(c_runqueue[c]) /\ t \in Rq(c) /\ q = Tail(c_runqueue[c]) /\ IsInjective(q) /\ Range(q) = Rq(c) \ {t}
  BY <1>0, <1>1, ListRemove, Zenon DEF SchedTypeOK, Injective, Rq
<1>3. /\ c_isidle[c] /\ c_runqueue_lock[c] = c /\ list[c] = << >>
  BY <1>1, Zenon DEF SchedIInv, Placed
<1>4. /\ t_cpu[t] = c /\ t_state[t] # "none" /\ t \notin Wc
      /\ \A d \in Cpus : t \notin Zo(d) /\ t \notin Li(d) /\ (t \in Rq(d) => d = c)
  <2>1. LinkedOnce(t)
    BY DEF SchedIInv, Linked
  <2> QED BY <1>2, <2>1, Zenon DEF LinkedOnce
<1>5. /\ c_runqueue'[c] = q /\ c_isidle'[c] = FALSE /\ c_curthread'[c] = t /\ pc'[c] = "exorcise"
      /\ t_state'[t] = "S_RUN" /\ \A u \in Threads : u # t => t_state'[u] = t_state[u]
      /\ \A d \in Cpus : d # c =>
           /\ c_runqueue'[d] = c_runqueue[d] /\ c_isidle'[d] = c_isidle[d] /\ c_curthread'[d] = c_curthread[d]
           /\ pc'[d] = pc[d] /\ c_runqueue_lock'[d] = c_runqueue_lock[d]
  BY <1>0, <1>1, <1>2, Zenon DEF SchedTypeOK
<1>6. SchedTypeOK'
  BY <1>0, <1>1, <1>2, SchedAssumption DEF SchedTypeOK, PcLabels
<1>7. Injective'
  <2>1. \A d \in Cpus : IsInjective(c_runqueue'[d])
    BY <1>0, <1>2, <1>5, Zenon DEF Injective
  <2> QED BY <1>0, <1>1, <2>1, Zenon DEF Injective
<1>8. /\ Wc' = Wc /\ (\A d \in Cpus : Zo(d)' = Zo(d) /\ Li(d)' = Li(d)) /\ \A d \in Cpus : d # c => Rq(d)' = Rq(d)
  BY <1>1, <1>5, Zenon DEF Wc, Zo, Li, Rq
<1>9. Rq(c)' = Rq(c) \ {t}
  BY <1>2, <1>5, Zenon DEF Rq
<1>10. LinkedOnce(t)' /\ ~Listed(t)' /\ ~Listed(cur(c))' /\ Busy(c)'
  BY <1>4, <1>5, <1>8, <1>9 DEF LinkedOnce, Listed, Busy, cur
<1>11. Kept(t)'
  BY <1>1, <1>4, <1>5, <1>10, SchedAssumption, Zenon DEF Kept, cur
<1>12. Placed(c)'
  BY <1>1, <1>3, <1>5, Zenon DEF Placed
<1>13. \A u \in Threads : u \notin {t} => Untouched(u)
  BY <1>1, <1>5, <1>8, <1>9 DEF Untouched
<1>14. \A d \in Cpus : d # c => Aside(d) /\ ListLeft(d, {t}) /\ cur(d) \notin {t}
  <2>1. ASSUME NEW d \in Cpus, d # c PROVE Aside(d)
    <3>1. /\ Len(c_runqueue[d]) <= Len(c_runqueue[d])
          /\ pc[d] = "idle" /\ c_runqueue[d] # << >> => c_ipi[d]
      BY PlacedSays, Zenon
    <3> QED BY <1>1, <1>5, <2>1, <3>1, Zenon DEF Aside
  <2>2. \A d \in Cpus : t_cpu[cur(d)] = d
    BY CurSays, Zenon
  <2> QED BY <1>4, <2>1, <2>2, Zenon DEF ListLeft
<1>15. \A d \in Cpus : c_runqueue_lock'[d] = c_runqueue_lock[d] \/ c_runqueue_lock[d] \in {None, c}
  BY <1>3, <1>5, Zenon
<1>16. t_cpu'[cur(c)'] = c /\ ~Busy(c)
  BY <1>1, <1>3, <1>4, <1>5, Zenon DEF cur, Busy
<1>17. pc[c] = "pick" /\ pc'[c] = "exorcise" /\ (Busy(c)' <=> ~Listed(cur(c))')
  BY <1>1, <1>5, <1>10
<1>18. \A u \in Threads : u \in {t} => LinkedOnce(u)' /\ Kept(u)'
  BY <1>10, <1>11
<1>19. Moves(c, {t})
  BY <1>6, <1>7, <1>12, <1>13, <1>14, <1>15, <1>16, <1>17, <1>18, Zenon DEF Moves
<1> QED BY <1>19, MoveIInv, Zenon

\* exorcise: the zombies are this CPU's, and it is on the stack of none of them.
LEMMA ExorciseIInv ==
  ASSUME SchedIInv, NEW c \in Cpus, exorcise(c)
  PROVE  SchedIInv'
<1>1. /\ UNCHANGED <<c_curthread, c_isidle, c_runqueue, c_runqueue_lock, c_ipi, wc_threads, newstate, list, dest, mig>>
      /\ pc[c] = "exorcise" /\ pc' = [pc EXCEPT ![c] = "run"]
      /\ t_state' = [t \in Threads |-> IF t \in Zo(c) THEN "none" ELSE t_state[t]]
      /\ t_cpu' = [t \in Threads |-> IF t \in Zo(c) THEN None ELSE t_cpu[t]]
      /\ c_zombies' = [c_zombies EXCEPT ![c] = << >>]
  BY DEF exorcise, At, Goto, queues, wchan, locals, Zo
<1>0. SchedTypeOK /\ Injective
  BY DEF SchedIInv
<1>2. PICK M : M = Zo(c)
  BY Zenon
<1>3. ~c_isidle[c] /\ list[c] = << >> /\ Busy(c)
  BY <1>1, Zenon DEF SchedIInv, Placed, Busy
<1>4. \A t \in Threads : t \in M =>
        /\ t_cpu[t] = c /\ t \notin Wc
        /\ \A d \in Cpus : t \notin Rq(d) /\ t \notin Li(d) /\ (t \in Zo(d) => d = c)
  BY <1>2 DEF SchedIInv, Linked, LinkedOnce
<1>5. \A d \in Cpus : cur(d) \notin M /\ cur(d) \in Threads /\ t_cpu[cur(d)] = d
  <2> TAKE d \in Cpus
  <2>1. cur(d) \in Threads /\ t_cpu[cur(d)] = d
    BY CurSays, Zenon
  <2>2. cur(c) \notin Zo(c)
    BY <1>3, CurSays, Zenon
  <2> QED BY <1>2, <1>4, <2>1, <2>2
<1>6. /\ c_zombies'[c] = << >> /\ pc'[c] = "run"
      /\ \A d \in Cpus : d # c => c_zombies'[d] = c_zombies[d] /\ pc'[d] = pc[d]
  BY <1>0, <1>1, Zenon DEF SchedTypeOK
<1>7. SchedTypeOK'
  BY <1>0, <1>1 DEF SchedTypeOK, PcLabels
<1>8. Injective'
  <2>1. IsInjective(<< >>)
    BY DEF IsInjective
  <2> QED BY <1>0, <1>1, <1>6, <2>1 DEF Injective
<1>9. /\ Wc' = Wc /\ (\A d \in Cpus : Rq(d)' = Rq(d) /\ Li(d)' = Li(d) /\ cur(d)' = cur(d) /\ Busy(d)' = Busy(d))
      /\ \A d \in Cpus : d # c => Zo(d)' = Zo(d)
  BY <1>1, <1>3, <1>6, Zenon DEF Wc, Rq, Li, Zo, cur, Busy
<1>10. Zo(c)' = {}
  BY <1>6 DEF Zo, Range
<1>11. \A t \in Threads : t \in M => t_state'[t] = "none" /\ t_cpu'[t] = None
  BY <1>1, <1>2, Zenon
<1>12. \A t \in Threads : t \notin M => t_state'[t] = t_state[t] /\ t_cpu'[t] = t_cpu[t]
  BY <1>1, <1>2
<1>13. \A t \in Threads : t \notin M => Untouched(t)
  BY <1>2, <1>9, <1>10, <1>12, Zenon DEF Untouched
<1>14. \A t \in Threads : t \in M => ~Listed(t)'
  BY <1>4, <1>9, <1>10, Zenon DEF Listed
<1>15. \A t \in Threads : t \in M => LinkedOnce(t)' /\ Kept(t)'
  BY <1>11, <1>14 DEF LinkedOnce, Kept, Listed
<1>16. Placed(c)'
  BY <1>1, <1>3, <1>6, Zenon DEF Placed
<1>17. \A d \in Cpus : d # c => Aside(d) /\ ListLeft(d, M)
  <2>1. ASSUME NEW d \in Cpus, d # c PROVE Aside(d)
    <3>1. /\ Len(c_runqueue[d]) <= Len(c_runqueue[d])
          /\ pc[d] = "idle" /\ c_runqueue[d] # << >> => c_ipi[d]
      BY PlacedSays, Zenon
    <3> QED BY <1>1, <1>6, <2>1, <3>1, Zenon DEF Aside
  <2>2. \A d \in Cpus : Li(d) \subseteq Threads
    BY PlacedSays, Zenon
  <2> QED BY <1>4, <2>1, <2>2, Zenon DEF ListLeft
<1>18. \A d \in Cpus : c_runqueue_lock'[d] = c_runqueue_lock[d]
  BY <1>1, Zenon
<1>19. t_cpu'[cur(c)'] = c /\ Busy(c)' /\ cur(c)' = cur(c) /\ ~Listed(cur(c))'
  <2>1. ~Listed(cur(c)) /\ cur(c) \in Threads
    BY <1>3, CurSays, Zenon DEF Listed
  <2>2. ~Listed(cur(c))'
    BY <1>9, <1>10, <2>1, Zenon DEF Listed
  <2> QED BY <1>3, <1>5, <1>9, <1>12, <2>2, Zenon
<1>20. pc[c] = "exorcise" /\ pc'[c] = "run"
  BY <1>1, <1>6, Zenon
<1>21. Moves(c, M)
  BY <1>5, <1>7, <1>8, <1>13, <1>15, <1>16, <1>17, <1>18, <1>19, <1>20, Zenon DEF Moves
<1> QED BY <1>21, MoveIInv, Zenon

\* wchan_wakeone and wchan_wakeall: a sleeper may still be on its stack.
LEMMA TakeFirstIInv ==
  ASSUME SchedIInv, NEW c \in Cpus, NEW n \in 0 .. Len(wc_threads), TakeFirst(c, n)
  PROVE  SchedIInv'
<1>1. /\ UNCHANGED <<c_curthread, c_isidle, c_runqueue, c_runqueue_lock, c_zombies, c_ipi, t_state, t_cpu, newstate,
                     dest, mig>>
      /\ pc[c] = "wake" /\ pc' = [pc EXCEPT ![c] = "deliver"]
      /\ list' = [list EXCEPT ![c] = SubSeq(wc_threads, 1, n)]
      /\ wc_threads' = SubSeq(wc_threads, n + 1, Len(wc_threads))
  BY DEF TakeFirst, At, Goto, queues, threads
<1>0. SchedTypeOK /\ Injective
  BY DEF SchedIInv
<1>2. PICK a \in Seq(Threads), b \in Seq(Threads) :
        /\ a = SubSeq(wc_threads, 1, n) /\ b = SubSeq(wc_threads, n + 1, Len(wc_threads))
        /\ IsInjective(a) /\ IsInjective(b) /\ Wc = Range(a) \cup Range(b) /\ \A x \in Range(a) : x \notin Range(b)
  <2>1. wc_threads \in Seq(Threads) /\ IsInjective(wc_threads)
    BY <1>0 DEF SchedTypeOK, Injective
  <2>2. LET a == SubSeq(wc_threads, 1, n)
            b == SubSeq(wc_threads, n + 1, Len(wc_threads))
        IN  /\ a \in Seq(Threads) /\ b \in Seq(Threads) /\ IsInjective(a) /\ IsInjective(b)
            /\ Wc = Range(a) \cup Range(b) /\ \A x \in Range(a) : x \notin Range(b)
    BY <2>1, ListSplit, Zenon DEF Wc
  <2> QED BY <2>2, Zenon
<1>3. PICK M : M = Range(a) /\ M \subseteq Wc
  BY <1>2, Zenon
<1>4. list[c] = << >> /\ Li(c) = {}
  <2>1. list[c] = << >>
    BY <1>1, Zenon DEF SchedIInv, Placed
  <2> QED BY <2>1 DEF Li, Range
<1>5. /\ list'[c] = a /\ wc_threads' = b /\ pc'[c] = "deliver"
      /\ \A d \in Cpus : d # c => list'[d] = list[d] /\ pc'[d] = pc[d]
  BY <1>0, <1>1, <1>2, Zenon DEF SchedTypeOK
<1>6. SchedTypeOK'
  BY <1>0, <1>1, <1>2, Zenon DEF SchedTypeOK, PcLabels
<1>7. Injective'
  BY <1>0, <1>1, <1>2, <1>5, Zenon DEF Injective
<1>8. /\ (\A d \in Cpus : Rq(d)' = Rq(d) /\ Zo(d)' = Zo(d) /\ cur(d)' = cur(d) /\ Busy(d)' = Busy(d))
      /\ \A d \in Cpus : d # c => Li(d)' = Li(d)
  BY <1>1, <1>5, Zenon DEF Rq, Zo, Li, cur, Busy
<1>9. Li(c)' = M /\ Wc' = Wc \ M
  <2>1. Li(c)' = Range(a) /\ Wc' = Range(b)
    BY <1>5, Zenon DEF Li, Wc
  <2> QED BY <1>2, <1>3, <2>1, Zenon
<1>10. \A t \in Threads : t \notin M => Untouched(t)
  BY <1>1, <1>4, <1>8, <1>9, Zenon DEF Untouched
<1>11. \A t \in Threads : t \in M =>
         /\ \A d \in Cpus : t \notin Rq(d) /\ t \notin Zo(d) /\ t \notin Li(d)
         /\ t_state[t] # "none" /\ t_cpu[t] # None
  BY <1>3, Zenon DEF SchedIInv, Linked, LinkedOnce, Existing, Kept, Listed
<1>12. \A t \in Threads : t \in M => Listed(t) /\ Listed(t)'
  BY <1>3, <1>9 DEF Listed
<1>13. \A t \in Threads : t \in M => LinkedOnce(t)' /\ Kept(t)'
  BY <1>1, <1>8, <1>9, <1>11, <1>12, Zenon DEF LinkedOnce, Kept
<1>14. Placed(c)'
  BY <1>1, <1>5, Zenon DEF Placed
<1>15. \A d \in Cpus : d # c => Aside(d) /\ ListLeft(d, M)
  BY <1>1, <1>5, <1>11, PlacedSays, Zenon DEF Aside, ListLeft
<1>16. ASSUME NEW d \in Cpus, d # c, cur(d) \in M PROVE StackLeft(d, c)
  <2>1. PICK t \in Threads : t = cur(d) /\ t = cur(d)'
    BY <1>8, CurSays, Zenon
  <2>2. Listed(cur(d))'
    BY <1>9, <1>16, <2>1, Zenon DEF Listed
  <2>3. ~Busy(d) /\ t_cpu[cur(d)] = d
    BY <1>3, <1>16, CurSays
  <2>4. pc[d] = "mark" => newstate[d] = "S_SLEEP"
    BY <1>11, <1>16, <2>1, Zenon DEF SchedIInv, Marked, PutAway
  <2> QED BY <1>1, <1>5, <1>9, <1>16, <2>2, <2>3, <2>4, Zenon DEF StackLeft
<1>17. \A d \in Cpus : c_runqueue_lock'[d] = c_runqueue_lock[d]
  BY <1>1
<1>18. t_cpu'[cur(c)'] = c /\ Busy(c)' = Busy(c) /\ cur(c)' = cur(c) /\ (Busy(c)' <=> ~Listed(cur(c))')
  <2>1. PICK t \in Threads : t = cur(c) /\ t = cur(c)'
    BY <1>8, CurSays, Zenon
  <2>2. Listed(t)' = Listed(t)
    BY <1>10, <1>12, <2>1, Zenon DEF Listed, Untouched
  <2>3. Listed(cur(c))' = Listed(t)' /\ Listed(cur(c)) = Listed(t)
    BY <2>1, Zenon DEF Listed
  <2> QED BY <1>1, <1>8, <2>2, <2>3, CurSays, Zenon DEF SchedIInv, Currents
<1>19. pc[c] = "wake" /\ pc'[c] = "deliver"
  BY <1>1, <1>5
<1>20. Moves(c, M)
  BY <1>6, <1>7, <1>10, <1>13, <1>14, <1>15, <1>16, <1>17, <1>18, <1>19, Zenon DEF Moves
<1> QED BY <1>20, MoveIInv, Zenon

\* thread_fork.
LEMMA ForkIInv ==
  ASSUME SchedIInv, NEW c \in Cpus, thread_fork(c)
  PROVE  SchedIInv'
<1>1. /\ UNCHANGED <<c_curthread, c_isidle, c_runqueue, c_runqueue_lock, c_zombies, c_ipi, wc_threads, newstate, dest, mig>>
      /\ pc[c] = "run" /\ pc' = [pc EXCEPT ![c] = "deliver"]
  BY DEF thread_fork, At, Goto, queues, wchan
<1>0. SchedTypeOK /\ Injective
  BY DEF SchedIInv
<1>2. PICK t \in Threads :
        /\ t_state[t] = "none" /\ t_state' = [t_state EXCEPT ![t] = "S_READY"]
        /\ t_cpu' = [t_cpu EXCEPT ![t] = c] /\ list' = [list EXCEPT ![c] = <<t>>]
  BY Zenon DEF thread_fork
<1>3. /\ t \notin Wc /\ \A d \in Cpus : t \notin Rq(d) /\ t \notin Zo(d) /\ t \notin Li(d)
  BY <1>2, Zenon DEF SchedIInv, Existing, Kept, Listed
<1>4. ~c_isidle[c] /\ list[c] = << >> /\ Busy(c)
  BY <1>1, Zenon DEF SchedIInv, Placed, Busy
<1>5. /\ t_state'[t] = "S_READY" /\ t_cpu'[t] = c /\ pc'[c] = "deliver" /\ list'[c] = <<t>>
      /\ \A u \in Threads : u # t => t_state'[u] = t_state[u] /\ t_cpu'[u] = t_cpu[u]
      /\ \A d \in Cpus : d # c => pc'[d] = pc[d] /\ list'[d] = list[d]
  BY <1>0, <1>1, <1>2 DEF SchedTypeOK
<1>6. Range(<<t>>) = {t} /\ IsInjective(<<t>>) /\ <<t>> \in Seq(Threads)
  BY DEF Range, IsInjective
<1>7. SchedTypeOK'
  BY <1>0, <1>1, <1>2, <1>6, Zenon DEF SchedTypeOK, PcLabels
<1>8. Injective'
  BY <1>0, <1>1, <1>5, <1>6, Zenon DEF Injective
<1>9. /\ Wc' = Wc /\ (\A d \in Cpus : Rq(d)' = Rq(d) /\ Zo(d)' = Zo(d) /\ cur(d)' = cur(d) /\ Busy(d)' = Busy(d))
      /\ \A d \in Cpus : d # c => Li(d)' = Li(d)
  BY <1>1, <1>5, Zenon DEF Wc, Rq, Zo, Li, cur, Busy
<1>10. Li(c)' = {t} /\ Li(c) = {}
  <2>1. Li(c) = {}
    BY <1>4 DEF Li, Range
  <2> QED BY <1>5, <1>6, <2>1, Zenon DEF Li
<1>11. \A u \in Threads : u \notin {t} => Untouched(u)
  BY <1>5, <1>9, <1>10, Zenon DEF Untouched
<1>12. LinkedOnce(t)' /\ Listed(t)'
  BY <1>3, <1>9, <1>10, Zenon DEF LinkedOnce, Listed
<1>13. Kept(t)'
  BY <1>5, <1>12, SchedAssumption, Zenon DEF Kept
<1>14. Placed(c)'
  BY <1>1, <1>5, Zenon DEF Placed
<1>15. \A d \in Cpus : cur(d) # t /\ cur(d) \in Threads
  BY <1>2, CurSays
<1>16. \A d \in Cpus : d # c => Aside(d) /\ ListLeft(d, {t}) /\ cur(d) \notin {t}
  <2>1. ASSUME NEW d \in Cpus, d # c PROVE Aside(d)
    <3>1. /\ Len(c_runqueue[d]) <= Len(c_runqueue[d])
          /\ pc[d] = "idle" /\ c_runqueue[d] # << >> => c_ipi[d]
      BY PlacedSays, Zenon
    <3> QED BY <1>1, <1>5, <2>1, <3>1, Zenon DEF Aside
  <2> QED BY <1>3, <1>15, <2>1, Zenon DEF ListLeft
<1>17. \A d \in Cpus : c_runqueue_lock'[d] = c_runqueue_lock[d]
  BY <1>1
<1>18. t_cpu'[cur(c)'] = c /\ Busy(c)' /\ cur(c)' = cur(c) /\ ~Listed(cur(c))'
  <2>1. PICK u \in Threads : u = cur(c) /\ u = cur(c)' /\ u # t
    BY <1>9, <1>15
  <2>2. ~Listed(u)
    BY <1>4, <2>1, CurSays, Zenon DEF Listed
  <2>3. ~Listed(u)'
    BY <1>11, <2>1, <2>2, Zenon DEF Listed, Untouched
  <2>4. Listed(cur(c))' = Listed(u)'
    BY <2>1 DEF Listed
  <2>5. t_cpu[u] = c /\ t_cpu'[u] = t_cpu[u]
    BY <1>5, <2>1, CurSays, Zenon
  <2> QED BY <1>4, <1>9, <2>1, <2>3, <2>4, <2>5, Zenon
<1>19. pc[c] = "run" /\ pc'[c] = "deliver"
  BY <1>1, <1>5
<1>20. \A u \in Threads : u \in {t} => LinkedOnce(u)' /\ Kept(u)'
  BY <1>12, <1>13
<1>21. Moves(c, {t})
  BY <1>7, <1>8, <1>11, <1>14, <1>16, <1>17, <1>18, <1>19, <1>20, Zenon DEF Moves
<1> QED BY <1>21, MoveIInv, Zenon

\* make_runnable: a CPU that is between placing its thread and marking it holds
\* its run queue's lock, so that the thread is not put there before it is marked.
LEMMA MakeRunnableIInv ==
  ASSUME SchedIInv, NEW c \in Cpus, make_runnable(c)
  PROVE  SchedIInv'
<1>1. /\ UNCHANGED <<c_curthread, c_isidle, c_runqueue_lock, c_zombies, t_cpu, wc_threads, newstate, mig>>
      /\ pc[c] = "mkrun" /\ c_runqueue_lock[dest[c]] = None /\ pc' = [pc EXCEPT ![c] = "deliver"]
      /\ t_state' = [t_state EXCEPT ![Head(list[c])] = "S_READY"]
      /\ c_runqueue' = [c_runqueue EXCEPT ![dest[c]] = Append(c_runqueue[dest[c]], Head(list[c]))]
      /\ c_ipi' = IF c_isidle[dest[c]] /\ dest[c] # c THEN [c_ipi EXCEPT ![dest[c]] = TRUE] ELSE c_ipi
      /\ list' = [list EXCEPT ![c] = Tail(list[c])]
      /\ dest' = [dest EXCEPT ![c] = c]
  BY DEF make_runnable, At, Goto, Free, wchan
<1>0. SchedTypeOK /\ Injective
  BY DEF SchedIInv
<1>2. PICK t \in Threads, l \in Seq(Threads) :
        /\ t = Head(list[c]) /\ t \in Li(c) /\ l = Tail(list[c]) /\ IsInjective(l) /\ Range(l) = Li(c) \ {t}
        /\ dest[c] = t_cpu[t]
  <2>1. list[c] # << >> /\ dest[c] = t_cpu[Head(list[c])]
    BY <1>1, Zenon DEF SchedIInv, Placed
  <2>2. list[c] \in Seq(Threads) /\ IsInjective(list[c])
    BY <1>0, Zenon DEF SchedTypeOK, Injective
  <2> QED BY <2>1, <2>2, ListRemove, Zenon DEF Li
<1>3. /\ t_state[t] # "none" /\ t \notin Wc
      /\ \A d \in Cpus : t \notin Rq(d) /\ t \notin Zo(d) /\ (t \in Li(d) => d = c)
  BY <1>2, Zenon DEF SchedIInv, Linked, LinkedOnce, Existing, Kept, Listed
<1>4. PICK e \in Cpus, q \in Seq(Threads) :
        /\ e = dest[c] /\ t_cpu[t] = e /\ c_runqueue_lock[e] = None
        /\ q = Append(c_runqueue[e], t) /\ IsInjective(q) /\ Range(q) = Rq(e) \cup {t}
        /\ q # << >> /\ Len(c_runqueue[e]) <= Len(q)
  <2>1. dest[c] \in Cpus /\ c_runqueue[dest[c]] \in Seq(Threads) /\ IsInjective(c_runqueue[dest[c]])
    BY <1>0, Zenon DEF SchedTypeOK, Injective
  <2>2. PICK e \in Cpus, p \in Seq(Threads) : e = dest[c] /\ p = c_runqueue[e] /\ IsInjective(p) /\ t \notin Range(p)
    BY <1>3, <2>1, Zenon DEF Rq
  <2>3. Len(p) \in Nat /\ IsInjective(p) /\ t \notin Range(p)
    BY <2>2, LenNat, Zenon
  <2>4. Append(p, t) \in Seq(Threads) /\ IsInjective(Append(p, t)) /\ Range(Append(p, t)) = Range(p) \cup {t}
        /\ Append(p, t) # << >> /\ Len(Append(p, t)) = Len(p) + 1
    BY <2>3, ListAdd
  <2>5. Len(p) <= Len(Append(p, t))
    BY <2>3, <2>4
  <2> QED BY <1>1, <1>2, <2>2, <2>4, <2>5, Zenon DEF Rq
<1>5. /\ t_state'[t] = "S_READY" /\ (\A u \in Threads : u # t => t_state'[u] = t_state[u])
      /\ pc'[c] = "deliver" /\ list'[c] = l
      /\ \A d \in Cpus : d # c => pc'[d] = pc[d] /\ list'[d] = list[d] /\ dest'[d] = dest[d]
      /\ c_runqueue'[e] = q /\ \A d \in Cpus : d # e => c_runqueue'[d] = c_runqueue[d]
  BY <1>0, <1>1, <1>2, <1>4, Zenon DEF SchedTypeOK
<1>6. /\ c_isidle[e] /\ e # c => c_ipi'[e]
      /\ \A d \in Cpus : d # e => c_ipi'[d] = c_ipi[d]
      /\ c_ipi' \in [Cpus -> BOOLEAN]
  BY <1>0, <1>1, <1>4 DEF SchedTypeOK
<1>7. SchedTypeOK'
  BY <1>0, <1>1, <1>2, <1>4, <1>6, Zenon DEF SchedTypeOK, PcLabels
<1>8. Injective'
  <2>1. \A d \in Cpus : IsInjective(c_runqueue'[d])
    BY <1>0, <1>4, <1>5, Zenon DEF Injective
  <2>2. \A d \in Cpus : IsInjective(list'[d])
    BY <1>0, <1>2, <1>5, Zenon DEF Injective
  <2> QED BY <1>0, <1>1, <2>1, <2>2, Zenon DEF Injective
<1>9. /\ Wc' = Wc /\ (\A d \in Cpus : Zo(d)' = Zo(d) /\ cur(d)' = cur(d) /\ Busy(d)' = Busy(d))
      /\ (\A d \in Cpus : d # c => Li(d)' = Li(d)) /\ \A d \in Cpus : d # e => Rq(d)' = Rq(d)
  BY <1>1, <1>5, Zenon DEF Wc, Rq, Zo, Li, cur, Busy
<1>10. Li(c)' = Li(c) \ {t} /\ Rq(e)' = Rq(e) \cup {t}
  <2>1. Li(c)' = Range(l) /\ Rq(e)' = Range(q)
    BY <1>5, Zenon DEF Li, Rq
  <2> QED BY <1>2, <1>4, <2>1, Zenon
<1>11. \A u \in Threads : u \notin {t} => Untouched(u)
  BY <1>1, <1>5, <1>9, <1>10, Zenon DEF Untouched
<1>12. LinkedOnce(t)' /\ Listed(t)' /\ Listed(t)
  <2>1. t_cpu'[t] = e /\ \A d \in Cpus : (t \in Rq(d)' <=> d = e) /\ t \notin Zo(d)' /\ t \notin Li(d)'
    BY <1>1, <1>3, <1>4, <1>9, <1>10, Zenon
  <2> QED BY <1>2, <1>3, <1>5, <1>9, <2>1, Zenon DEF LinkedOnce, Listed
<1>13. Kept(t)'
  BY <1>1, <1>4, <1>5, <1>12, SchedAssumption, Zenon DEF Kept
<1>14. Placed(c)'
  BY <1>1, <1>5, Zenon DEF Placed
<1>15. \A d \in Cpus : d # c => Aside(d) /\ ListLeft(d, {t})
  <2>1. \A d \in Cpus : Len(c_runqueue[d]) <= Len(c_runqueue'[d])
    <3>1. \A d \in Cpus : Len(c_runqueue[d]) <= Len(c_runqueue[d])
      BY MigSays DEF SchedIInv
    <3> QED BY <1>4, <1>5, <3>1, Zenon
  <2>2. \A d \in Cpus : d # c /\ pc[d] = "idle" /\ c_runqueue'[d] # << >> => c_ipi'[d]
    <3>1. \A d \in Cpus : pc[d] = "idle" => c_isidle[d] /\ (c_runqueue[d] # << >> => c_ipi[d])
      BY PlacedSays, Zenon
    <3> QED BY <1>5, <1>6, <3>1, Zenon
  <2> QED BY <1>1, <1>3, <1>5, <2>1, <2>2, Zenon DEF Aside, ListLeft
<1>16. ASSUME NEW d \in Cpus, d # c, cur(d) \in {t} PROVE StackLeft(d, c)
  <2>1. cur(d) = t /\ t = cur(d)' /\ d = e
    BY <1>4, <1>9, <1>16, CurSays, Zenon
  <2>2. Listed(cur(d))'
    BY <1>12, <2>1 DEF Listed
  <2>3. ~Busy(d)
    <3>1. cur(d) \in Li(c)
      BY <1>2, <2>1, Zenon
    <3>2. Busy(d) => \A f \in Cpus : cur(d) \notin Li(f)
      BY CurSays, Zenon
    <3> QED BY <3>1, <3>2, Zenon
  <2>4. pc[d] # "mark"
    <3>1. Placed(d)
      BY Zenon DEF SchedIInv
    <3>2. pc[d] = "mark" => c_runqueue_lock[d] = d
      BY <3>1, Zenon DEF Placed
    <3>3. c_runqueue_lock[d] = None /\ d # None
      BY <1>4, <2>1, SchedAssumption, Zenon
    <3> QED BY <3>2, <3>3, Zenon
  <2> QED BY <1>1, <1>4, <2>1, <2>2, <2>3, <2>4 DEF StackLeft
<1>17. \A d \in Cpus : c_runqueue_lock'[d] = c_runqueue_lock[d]
  BY <1>1, Zenon
<1>18. t_cpu'[cur(c)'] = c /\ Busy(c)' = Busy(c) /\ cur(c)' = cur(c) /\ (Busy(c)' <=> ~Listed(cur(c))')
  <2>1. PICK u \in Threads : u = cur(c) /\ u = cur(c)'
    BY <1>9, CurSays, Zenon
  <2>2. Listed(u)' = Listed(u)
    BY <1>11, <1>12, <2>1, Zenon DEF Listed, Untouched
  <2>3. Listed(cur(c))' = Listed(u)' /\ Listed(cur(c)) = Listed(u)
    BY <2>1, Zenon DEF Listed
  <2> QED BY <1>1, <1>9, <2>2, <2>3, CurSays, Zenon DEF SchedIInv, Currents
<1>19. pc[c] = "mkrun" /\ pc'[c] = "deliver"
  BY <1>1, <1>5, Zenon
<1>20. \A u \in Threads : u \in {t} => LinkedOnce(u)' /\ Kept(u)'
  BY <1>12, <1>13
<1>21. Moves(c, {t})
  BY <1>7, <1>8, <1>11, <1>14, <1>15, <1>16, <1>17, <1>18, <1>19, <1>20, Zenon DEF Moves
<1> QED BY <1>21, MoveIInv, Zenon

\* mig_take: the victims are this CPU's and ready.
LEMMA MigTakeIInv ==
  ASSUME SchedIInv, NEW c \in Cpus, mig_take(c)
  PROVE  SchedIInv'
<1> DEFINE k == Len(c_runqueue[c]) - mig[c].send
<1>1. /\ UNCHANGED <<c_curthread, c_isidle, c_runqueue_lock, c_zombies, c_ipi, t_state, t_cpu, wc_threads, newstate,
                     dest, mig>>
      /\ pc[c] = "mig_take" /\ pc' = [pc EXCEPT ![c] = "mig_give"]
      /\ k >= 0
      /\ list' = [list EXCEPT ![c] = SubSeq(c_runqueue[c], k + 1, Len(c_runqueue[c]))]
      /\ c_runqueue' = [c_runqueue EXCEPT ![c] = SubSeq(c_runqueue[c], 1, k)]
  BY Zenon DEF mig_take, At, Goto, threads, wchan
<1>0. SchedTypeOK /\ Injective
  BY DEF SchedIInv
<1>2. PICK a \in Seq(Threads), b \in Seq(Threads) :
        /\ a = SubSeq(c_runqueue[c], 1, k) /\ b = SubSeq(c_runqueue[c], k + 1, Len(c_runqueue[c]))
        /\ IsInjective(a) /\ IsInjective(b) /\ Rq(c) = Range(a) \cup Range(b) /\ \A x \in Range(a) : x \notin Range(b)
        /\ Len(b) = mig[c].send
  <2>1. c_runqueue[c] \in Seq(Threads) /\ IsInjective(c_runqueue[c])
    BY <1>0, Zenon DEF SchedTypeOK, Injective
  <2>2. k \in 0 .. Len(c_runqueue[c]) /\ Len(c_runqueue[c]) - k = mig[c].send
    <3>1. PICK n \in Nat, m \in Nat : n = Len(c_runqueue[c]) /\ m = mig[c].send
      BY <1>0, MigSays, Zenon
    <3>2. k = n - m /\ n - m >= 0
      BY <1>1, <3>1, Zenon
    <3>3. n - m \in 0 .. n /\ n - (n - m) = m
      BY <3>2
    <3> QED BY <3>1, <3>2, <3>3, Zenon
  <2> HIDE DEF k
  <2>3. LET a == SubSeq(c_runqueue[c], 1, k)
            b == SubSeq(c_runqueue[c], k + 1, Len(c_runqueue[c]))
        IN  /\ a \in Seq(Threads) /\ b \in Seq(Threads) /\ IsInjective(a) /\ IsInjective(b)
            /\ Rq(c) = Range(a) \cup Range(b) /\ \A x \in Range(a) : x \notin Range(b)
            /\ Len(b) = Len(c_runqueue[c]) - k
    BY <2>1, <2>2, ListSplit DEF Rq
  <2> QED BY <2>2, <2>3, Zenon
<1> HIDE DEF k
<1>3. PICK M : M = Range(b) /\ M \subseteq Rq(c)
  BY <1>2, Zenon
<1>4. list[c] = << >> /\ Li(c) = {} /\ mig[c].i = 1 /\ mig[c].send \in Nat
  <2>1. list[c] = << >> /\ mig[c].i = 1
    BY <1>1, Zenon DEF SchedIInv, Placed
  <2>2. Li(c) = {}
    BY <2>1 DEF Li, Range
  <2> QED BY <1>0, <2>1, <2>2, MigSays, Zenon
<1>5. /\ list'[c] = b /\ c_runqueue'[c] = a /\ pc'[c] = "mig_give"
      /\ \A d \in Cpus : d # c => list'[d] = list[d] /\ pc'[d] = pc[d] /\ c_runqueue'[d] = c_runqueue[d]
  BY <1>0, <1>1, <1>2, Zenon DEF SchedTypeOK
<1>6. SchedTypeOK'
  BY <1>0, <1>1, <1>2, Zenon DEF SchedTypeOK, PcLabels
<1>7. Injective'
  BY <1>0, <1>1, <1>2, <1>5, Zenon DEF Injective
<1>8. /\ Wc' = Wc /\ (\A d \in Cpus : Zo(d)' = Zo(d) /\ cur(d)' = cur(d) /\ Busy(d)' = Busy(d))
      /\ \A d \in Cpus : d # c => Li(d)' = Li(d) /\ Rq(d)' = Rq(d)
  BY <1>1, <1>5, Zenon DEF Wc, Rq, Zo, Li, cur, Busy
<1>9. Li(c)' = M /\ Rq(c)' = Rq(c) \ M
  <2>1. Li(c)' = Range(b) /\ Rq(c)' = Range(a)
    BY <1>5, Zenon DEF Li, Rq
  <2> QED BY <1>2, <1>3, <2>1
<1>10. \A t \in Threads : t \notin M => Untouched(t)
  BY <1>1, <1>4, <1>8, <1>9, Zenon DEF Untouched
<1>11. \A t \in Threads : t \in M =>
         /\ t \notin Wc /\ t_state[t] = "S_READY" /\ t_cpu[t] = c
         /\ \A d \in Cpus : (t \in Rq(d) => d = c) /\ t \notin Zo(d) /\ t \notin Li(d)
  BY <1>3, Zenon DEF SchedIInv, Linked, LinkedOnce
<1>12. \A t \in Threads : t \in M => Listed(t) /\ Listed(t)'
  BY <1>3, <1>9 DEF Listed
<1>13. \A t \in Threads : t \in M => LinkedOnce(t)' /\ Kept(t)'
  <2>1. \A t \in Threads : t \in M => LinkedOnce(t)'
    <3> SUFFICES ASSUME NEW t \in Threads, t \in M PROVE LinkedOnce(t)'
      OBVIOUS
    <3>1. t \notin Wc' /\ \A d \in Cpus : t \notin Rq(d)' /\ t \notin Zo(d)' /\ (t \in Li(d)' <=> d = c)
      BY <1>8, <1>9, <1>11, Zenon
    <3> QED BY <3>1, Zenon DEF LinkedOnce
  <2> QED BY <1>1, <1>11, <1>12, <2>1, SchedAssumption, Zenon DEF Kept
<1>14. Placed(c)'
  <2>1. M \subseteq Threads
    BY <1>2, <1>3, ListIn, Zenon
  <2>2. \A t \in Li(c)' : t_state'[t] = "S_READY" /\ t_cpu'[t] = c
    BY <1>1, <1>9, <1>11, <2>1, Zenon
  <2>3. mig'[c].send <= Len(list'[c]) /\ mig'[c].i >= 1
    <3>1. PICK m \in Nat : m = mig[c].send
      BY <1>4, Zenon
    <3>2. mig'[c].send = m /\ Len(list'[c]) = m /\ mig'[c].i = 1
      BY <1>1, <1>2, <1>4, <1>5, <3>1, Zenon
    <3>3. m <= m /\ 1 >= 1
      OBVIOUS
    <3> QED BY <3>2, <3>3, Zenon
  <2> QED BY <1>5, <2>2, <2>3, Zenon DEF Placed
<1>15. \A d \in Cpus : d # c => Aside(d) /\ ListLeft(d, M) /\ cur(d) \notin M
  <2>1. ASSUME NEW d \in Cpus, d # c PROVE Aside(d)
    <3>1. /\ Len(c_runqueue[d]) <= Len(c_runqueue[d])
          /\ pc[d] = "idle" /\ c_runqueue[d] # << >> => c_ipi[d]
      BY PlacedSays, Zenon
    <3> QED BY <1>1, <1>5, <2>1, <3>1, Zenon DEF Aside
  <2>2. \A d \in Cpus : cur(d) \in Threads /\ t_cpu[cur(d)] = d
    BY CurSays, Zenon
  <2>3. \A t \in M : t \in Threads
    BY <1>3, ListIn
  <2> QED BY <1>11, <2>1, <2>2, <2>3, Zenon DEF ListLeft
<1>16. \A d \in Cpus : c_runqueue_lock'[d] = c_runqueue_lock[d]
  BY <1>1, Zenon
<1>17. t_cpu'[cur(c)'] = c /\ Busy(c)' = Busy(c) /\ cur(c)' = cur(c) /\ (Busy(c)' <=> ~Listed(cur(c))')
  <2>1. PICK t \in Threads : t = cur(c) /\ t = cur(c)'
    BY <1>8, CurSays, Zenon
  <2>2. Listed(t)' = Listed(t)
    BY <1>10, <1>12, <2>1, Zenon DEF Listed, Untouched
  <2>3. Listed(cur(c))' = Listed(t)' /\ Listed(cur(c)) = Listed(t)
    BY <2>1, Zenon DEF Listed
  <2> QED BY <1>1, <1>8, <2>2, <2>3, CurSays, Zenon DEF SchedIInv, Currents
<1>18. pc[c] = "mig_take" /\ pc'[c] = "mig_give"
  BY <1>1, <1>5
<1>19. Moves(c, M)
  BY <1>6, <1>7, <1>10, <1>13, <1>14, <1>15, <1>16, <1>17, <1>18, Zenon DEF Moves
<1> QED BY <1>19, MoveIInv, Zenon

\* mig_back: the leftovers go back to where they came from.
LEMMA MigBackIInv ==
  ASSUME SchedIInv, NEW c \in Cpus, mig_back(c)
  PROVE  SchedIInv'
<1>1. /\ UNCHANGED <<c_curthread, c_isidle, c_runqueue_lock, c_zombies, c_ipi, t_state, t_cpu, wc_threads, dest>>
      /\ pc[c] = "mig_give"
      /\ list' = [list EXCEPT ![c] = << >>]
      /\ c_runqueue' = [c_runqueue EXCEPT ![c] = c_runqueue[c] \o list[c]]
      /\ mig' = [mig EXCEPT ![c] = NoMig]
      /\ IF c_isidle[c] THEN pc' = [pc EXCEPT ![c] = "idle_lock"] /\ newstate' = newstate
         ELSE pc' = [pc EXCEPT ![c] = "switch"] /\ newstate' = [newstate EXCEPT ![c] = "S_READY"]
  BY DEF mig_back, At, Goto, threads, wchan, AfterMigration, Enter
<1>0. SchedTypeOK /\ Injective
  BY DEF SchedIInv
<1>2. \A t \in Threads : t \in Li(c) =>
         /\ t \notin Wc /\ t_state[t] = "S_READY" /\ t_cpu[t] = c
         /\ \A d \in Cpus : t \notin Rq(d) /\ t \notin Zo(d) /\ (t \in Li(d) => d = c)
  <2> SUFFICES ASSUME NEW t \in Threads, t \in Li(c)
               PROVE  /\ t \notin Wc /\ t_state[t] = "S_READY" /\ t_cpu[t] = c
                      /\ \A d \in Cpus : t \notin Rq(d) /\ t \notin Zo(d) /\ (t \in Li(d) => d = c)
    BY Zenon
  <2>1. LinkedOnce(t)
    BY DEF SchedIInv, Linked
  <2>2. t_state[t] = "S_READY" /\ t_cpu[t] = c
    BY <1>1, PlacedSays, Zenon
  <2> QED BY <2>1, <2>2, Zenon DEF LinkedOnce
<1>3. PICK q \in Seq(Threads) : q = c_runqueue[c] \o list[c] /\ IsInjective(q) /\ Range(q) = Rq(c) \cup Li(c)
  <2>1. /\ c_runqueue[c] \in Seq(Threads) /\ IsInjective(c_runqueue[c]) /\ list[c] \in Seq(Threads) /\ IsInjective(list[c])
    BY <1>0, Zenon DEF SchedTypeOK, Injective
  <2>2. \A x \in Rq(c) : x \notin Li(c)
    BY <1>2, <2>1, ListIn, Zenon DEF Rq, Li
  <2>3. PICK a \in Seq(Threads), b \in Seq(Threads) :
          /\ a = c_runqueue[c] /\ b = list[c] /\ IsInjective(a) /\ IsInjective(b) /\ \A x \in Range(a) : x \notin Range(b)
    BY <2>1, <2>2, Zenon DEF Rq, Li
  <2>3a. IsInjective(a) /\ IsInjective(b) /\ \A x \in Range(a) : x \notin Range(b)
    BY <2>3, Zenon
  <2>4. a \o b \in Seq(Threads) /\ IsInjective(a \o b) /\ Range(a \o b) = Range(a) \cup Range(b)
    BY <2>3a, ListJoin
  <2> QED BY <2>3, <2>4, Zenon DEF Rq, Li
<1>4. PICK M : M = Li(c) /\ M \subseteq Threads
  BY <1>0, ListIn, Zenon DEF SchedTypeOK, Li
<1>5. /\ list'[c] = << >> /\ c_runqueue'[c] = q /\ pc'[c] = IF c_isidle[c] THEN "idle_lock" ELSE "switch"
      /\ \A d \in Cpus : d # c => /\ list'[d] = list[d] /\ pc'[d] = pc[d] /\ c_runqueue'[d] = c_runqueue[d]
                                  /\ mig'[d] = mig[d] /\ newstate'[d] = newstate[d]
  BY <1>0, <1>1, <1>3, Zenon DEF SchedTypeOK
<1>6. SchedTypeOK'
  <2>1. NoMig \in MigType
    BY DEF NoMig, MigType
  <2>2. pc' \in [Cpus -> PcLabels] /\ newstate' \in [Cpus -> {"S_READY", "S_SLEEP", "S_ZOMBIE"}]
    BY <1>0, <1>1, Zenon DEF SchedTypeOK, PcLabels
  <2>3. /\ list' \in [Cpus -> Seq(Threads)] /\ c_runqueue' \in [Cpus -> Seq(Threads)]
        /\ mig' \in [Cpus -> MigType]
    BY <1>0, <1>1, <1>3, <2>1 DEF SchedTypeOK
  <2> QED BY <1>0, <1>1, <2>2, <2>3, Zenon DEF SchedTypeOK
<1>7. Injective'
  <2>1. IsInjective(<< >>)
    BY DEF IsInjective
  <2> QED BY <1>0, <1>1, <1>3, <1>5, <2>1, Zenon DEF Injective
<1>8. /\ Wc' = Wc /\ (\A d \in Cpus : Zo(d)' = Zo(d) /\ cur(d)' = cur(d) /\ Busy(d)' = Busy(d))
      /\ \A d \in Cpus : d # c => Li(d)' = Li(d) /\ Rq(d)' = Rq(d)
  BY <1>1, <1>5, Zenon DEF Wc, Rq, Zo, Li, cur, Busy
<1>9. Li(c)' = {} /\ Rq(c)' = Rq(c) \cup M
  <2>1. Range(<< >>) = {}
    BY DEF Range
  <2>2. Li(c)' = Range(<< >>) /\ Rq(c)' = Range(q)
    BY <1>5, Zenon DEF Li, Rq
  <2> QED BY <1>3, <1>4, <2>1, <2>2, Zenon
<1>10. \A t \in Threads : t \notin M => Untouched(t)
  BY <1>1, <1>4, <1>8, <1>9, Zenon DEF Untouched
<1>12. \A t \in Threads : t \in M => Listed(t) /\ Listed(t)'
  BY <1>4, <1>9 DEF Listed
<1>13. \A t \in Threads : t \in M => LinkedOnce(t)' /\ Kept(t)'
  <2>1. \A t \in Threads : t \in M => LinkedOnce(t)'
    <3> SUFFICES ASSUME NEW t \in Threads, t \in M PROVE LinkedOnce(t)'
      OBVIOUS
    <3>1. /\ t \notin Wc' /\ t_state'[t] = "S_READY" /\ t_cpu'[t] = c
          /\ \A d \in Cpus : (t \in Rq(d)' <=> d = c) /\ t \notin Zo(d)' /\ t \notin Li(d)'
      <4>1. /\ t \notin Wc /\ t_state[t] = "S_READY" /\ t_cpu[t] = c
            /\ \A d \in Cpus : t \notin Rq(d) /\ t \notin Zo(d) /\ (t \in Li(d) => d = c)
        BY <1>2, <1>4, Zenon
      <4>2. \A d \in Cpus : (t \in Rq(d)' <=> d = c) /\ t \notin Zo(d)' /\ t \notin Li(d)'
        BY <1>8, <1>9, <4>1, Zenon
      <4> QED BY <1>1, <1>8, <4>1, <4>2, Zenon
    <3> QED BY <3>1, Zenon DEF LinkedOnce
  <2> QED BY <1>1, <1>2, <1>4, <1>12, <2>1, SchedAssumption, Zenon DEF Kept
<1>14. Placed(c)'
  BY <1>1, <1>5, Zenon DEF Placed
<1>15. \A d \in Cpus : d # c => Aside(d) /\ ListLeft(d, M) /\ cur(d) \notin M
  <2>1. ASSUME NEW d \in Cpus, d # c PROVE Aside(d)
    <3>1. /\ Len(c_runqueue[d]) <= Len(c_runqueue[d])
          /\ pc[d] = "idle" /\ c_runqueue[d] # << >> => c_ipi[d]
      BY PlacedSays, Zenon
    <3> QED BY <1>1, <1>5, <2>1, <3>1, Zenon DEF Aside
  <2>2. \A d \in Cpus : cur(d) \in Threads /\ t_cpu[cur(d)] = d
    BY CurSays, Zenon
  <2> QED BY <1>1, <1>2, <1>4, <2>1, <2>2, Zenon DEF ListLeft
<1>16. \A d \in Cpus : c_runqueue_lock'[d] = c_runqueue_lock[d]
  BY <1>1, Zenon
<1>17. t_cpu'[cur(c)'] = c /\ Busy(c)' = Busy(c) /\ cur(c)' = cur(c) /\ (Busy(c)' <=> ~Listed(cur(c))')
  <2>1. PICK t \in Threads : t = cur(c) /\ t = cur(c)'
    BY <1>8, CurSays, Zenon
  <2>2. Listed(t)' = Listed(t)
    BY <1>10, <1>12, <2>1, Zenon DEF Listed, Untouched
  <2>3. Listed(cur(c))' = Listed(t)' /\ Listed(cur(c)) = Listed(t)
    BY <2>1, Zenon DEF Listed
  <2> QED BY <1>1, <1>8, <2>2, <2>3, CurSays, Zenon DEF SchedIInv, Currents
<1>18. pc[c] = "mig_give" /\ pc'[c] \in {"idle_lock", "switch"}
  BY <1>1, <1>5
<1>19. Moves(c, M)
  BY <1>6, <1>7, <1>10, <1>13, <1>14, <1>15, <1>16, <1>17, <1>18, Zenon DEF Moves
<1> QED BY <1>19, MoveIInv, Zenon

\* mig_move: the victim is on no CPU's stack, and the queue it goes to is locked.
LEMMA MigMoveIInv ==
  ASSUME SchedIInv, NEW c \in Cpus, mig_move(c)
  PROVE  SchedIInv'
<1> DEFINE m == [mig[c] EXCEPT !.send = mig[c].send - 1]
<1>1. /\ UNCHANGED <<c_curthread, c_isidle, c_runqueue_lock, c_zombies, t_state, wc_threads, newstate, dest, pc>>
      /\ pc[c] = "mig_move" /\ mig[c].send > 0
      /\ mig' = [mig EXCEPT ![c] = m]
  BY DEF mig_move, At, Short, wchan
<1>0. SchedTypeOK /\ Injective /\ Placed(c)
  BY Zenon DEF SchedIInv
<1>2. /\ m \in MigType /\ m.i = mig[c].i /\ m.send = mig[c].send - 1
      /\ mig[c].send \in Nat /\ mig[c].i \in Cpus /\ mig[c].i # c /\ mig[c].send <= Len(list[c]) /\ Len(list[c]) \in Nat
  <2>1. mig[c] \in MigType /\ mig[c].send \in Nat /\ Len(list[c]) \in Nat
    BY <1>0, MigSays
  <2>2. PICK n \in Nat : n = mig[c].send - 1
    BY <1>1, <2>1
  <2>3. m = [mig[c] EXCEPT !.send = n]
    BY <2>2
  <2> HIDE DEF m
  <2>4. m \in MigType /\ m.i = mig[c].i /\ m.send = n
    BY <2>1, <2>3, Zenon DEF MigType
  <2> QED BY <1>0, <1>1, <2>1, <2>2, <2>4, Zenon DEF Placed
<1> HIDE DEF m
<1>3. mig'[c] = m /\ \A d \in Cpus : d # c => mig'[d] = mig[d]
  BY <1>0, <1>1 DEF SchedTypeOK
<1>4. PICK t \in Threads, l \in Seq(Threads) :
        /\ t = Head(list[c]) /\ t \in Li(c) /\ l = Tail(list[c]) /\ IsInjective(l) /\ Range(l) = Li(c) \ {t}
        /\ Len(l) = Len(list[c]) - 1
  <2>1. list[c] \in Seq(Threads) /\ IsInjective(list[c])
    BY <1>0, Zenon DEF SchedTypeOK, Injective
  <2>2. list[c] # << >>
    <3>1. mig[c].send \in Nat /\ mig[c].send > 0 /\ mig[c].send <= Len(list[c]) /\ Len(list[c]) \in Nat
      BY <1>1, <1>2, Zenon
    <3>2. Len(list[c]) # 0
      BY <3>1
    <3> QED BY <3>2
  <2> QED BY <2>1, <2>2, ListRemove, Zenon DEF Li
<1>5. /\ \A u \in Li(c) : t_state[u] = "S_READY" /\ t_cpu[u] = c
      /\ t \notin Wc /\ \A d \in Cpus : t \notin Rq(d) /\ t \notin Zo(d) /\ (t \in Li(d) => d = c)
  BY <1>0, <1>1, <1>4, Zenon DEF SchedIInv, Linked, LinkedOnce, Placed
<1>6. /\ Wc' = Wc /\ \A d \in Cpus : Zo(d)' = Zo(d) /\ cur(d)' = cur(d) /\ Busy(d)' = Busy(d)
  BY <1>1, Zenon DEF Wc, Zo, cur, Busy
<1>7. \A d \in Cpus : c_runqueue_lock'[d] = c_runqueue_lock[d]
  BY <1>1, Zenon
<1>8. \A d \in Cpus : Len(c_runqueue[d]) <= Len(c_runqueue[d])
  BY MigSays DEF SchedIInv
<1>9. CASE t = cur(c)
  <2>1. list' = [list EXCEPT ![c] = Append(l, t)] /\ UNCHANGED <<c_runqueue, t_cpu, c_ipi>>
    BY <1>4, <1>9 DEF mig_move
  <2>2. PICK k \in Seq(Threads) : k = Append(l, t) /\ IsInjective(k) /\ Range(k) = Range(l) \cup {t} /\ Len(k) = Len(l) + 1
    BY <1>4, ListAdd, Zenon
  <2>3. list'[c] = k /\ \A d \in Cpus : d # c => list'[d] = list[d]
    BY <1>0, <2>1, <2>2, Zenon DEF SchedTypeOK
  <2>4. SchedTypeOK'
    BY <1>0, <1>1, <1>2, <2>1, <2>2, Zenon DEF SchedTypeOK
  <2>5. Injective'
    BY <1>0, <1>1, <2>1, <2>2, <2>3, Zenon DEF Injective
  <2>6. Li(c)' = Li(c)
    <3>1. Li(c)' = Range(k)
      BY <2>3, Zenon DEF Li
    <3> QED BY <1>4, <2>2, <3>1
  <2>7. \A d \in Cpus : Rq(d)' = Rq(d) /\ Li(d)' = Li(d)
    BY <2>1, <2>3, <2>6 DEF Rq, Li
  <2>8. \A u \in Threads : u \notin {} => Untouched(u)
    BY <1>1, <1>6, <2>1, <2>7, Zenon DEF Untouched
  <2>9. Placed(c)'
    <3>1. mig'[c].send <= Len(list'[c]) /\ mig'[c].i = mig[c].i
      <4>1. Len(list'[c]) = Len(l) + 1 /\ mig'[c].send = mig[c].send - 1 /\ mig'[c].i = mig[c].i
        BY <1>2, <1>3, <2>2, <2>3, Zenon
      <4>2. Len(l) = Len(list[c]) - 1 /\ mig[c].send <= Len(list[c]) /\ mig[c].send \in Nat /\ Len(list[c]) \in Nat
        BY <1>2, <1>4, Zenon
      <4> QED BY <4>1, <4>2
    <3> QED BY <1>0, <1>1, <1>5, <2>1, <2>7, <3>1, Zenon DEF Placed
  <2>10. \A d \in Cpus : d # c => Aside(d) /\ ListLeft(d, {}) /\ cur(d) \notin {}
    BY <1>1, <1>3, <1>8, <2>1, <2>3, Zenon DEF SchedIInv, Placed, Aside, ListLeft
  <2>11. t_cpu'[cur(c)'] = c /\ Busy(c)' = Busy(c) /\ cur(c)' = cur(c) /\ (Busy(c)' <=> ~Listed(cur(c))')
    <3>1. Listed(cur(c))' = Listed(cur(c))
      BY <1>6, <2>7, Zenon DEF Listed
    <3> QED BY <1>6, <2>1, <3>1, CurSays, Zenon DEF SchedIInv, Currents
  <2>12. pc[c] = "mig_move" /\ pc'[c] = "mig_move"
    BY <1>1
  <2>13. Moves(c, {})
    BY <1>7, <2>4, <2>5, <2>8, <2>9, <2>10, <2>11, <2>12, Zenon DEF Moves
  <2> QED BY <2>13, MoveIInv, Zenon
<1>10. CASE t # cur(c)
  <2>1. PICK e \in Cpus :
          /\ e = mig[c].i /\ e # c
          /\ list' = [list EXCEPT ![c] = l] /\ t_cpu' = [t_cpu EXCEPT ![t] = e]
          /\ c_runqueue' = [c_runqueue EXCEPT ![e] = Append(c_runqueue[e], t)]
          /\ c_ipi' = IF c_isidle[e] THEN [c_ipi EXCEPT ![e] = TRUE] ELSE c_ipi
    BY <1>2, <1>4, <1>10, Zenon DEF mig_move
  <2>2. PICK q \in Seq(Threads) :
          /\ q = Append(c_runqueue[e], t) /\ IsInjective(q) /\ Range(q) = Rq(e) \cup {t}
          /\ q # << >> /\ Len(c_runqueue[e]) <= Len(q)
    <3>1. PICK p \in Seq(Threads) : p = c_runqueue[e] /\ IsInjective(p) /\ t \notin Range(p)
      BY <1>0, <1>5, Zenon DEF SchedTypeOK, Injective, Rq
    <3>2. /\ Append(p, t) \in Seq(Threads) /\ IsInjective(Append(p, t)) /\ Range(Append(p, t)) = Range(p) \cup {t}
          /\ Append(p, t) # << >> /\ Len(Append(p, t)) = Len(p) + 1
      BY <3>1, ListAdd
    <3>3. Len(p) <= Len(Append(p, t))
      BY <3>2
    <3> QED BY <3>1, <3>2, <3>3, Zenon DEF Rq
  <2>3. /\ list'[c] = l /\ (\A d \in Cpus : d # c => list'[d] = list[d])
        /\ t_cpu'[t] = e /\ (\A u \in Threads : u # t => t_cpu'[u] = t_cpu[u])
        /\ c_runqueue'[e] = q /\ (\A d \in Cpus : d # e => c_runqueue'[d] = c_runqueue[d])
        /\ c_isidle[e] => c_ipi'[e]
        /\ \A d \in Cpus : d # e => c_ipi'[d] = c_ipi[d]
        /\ c_ipi' \in [Cpus -> BOOLEAN]
    BY <1>0, <2>1, <2>2, Zenon DEF SchedTypeOK
  <2>4. SchedTypeOK'
    <3>1. /\ list' \in [Cpus -> Seq(Threads)] /\ c_runqueue' \in [Cpus -> Seq(Threads)]
          /\ t_cpu' \in [Threads -> Cpus \cup {None}]
      BY <1>0, <2>1, <2>2 DEF SchedTypeOK
    <3>2. mig' \in [Cpus -> MigType]
      BY <1>0, <1>1, <1>2, Zenon DEF SchedTypeOK
    <3> QED BY <1>0, <1>1, <2>3, <3>1, <3>2, Zenon DEF SchedTypeOK
  <2>5. Injective'
    <3>1. \A d \in Cpus : IsInjective(c_runqueue'[d])
      BY <1>0, <2>2, <2>3, Zenon DEF Injective
    <3>2. \A d \in Cpus : IsInjective(list'[d])
      BY <1>0, <1>4, <2>3, Zenon DEF Injective
    <3> QED BY <1>0, <1>1, <3>1, <3>2, Zenon DEF Injective
  <2>6. Li(c)' = Li(c) \ {t} /\ Rq(e)' = Rq(e) \cup {t}
    <3>1. Li(c)' = Range(l) /\ Rq(e)' = Range(q)
      BY <2>3 DEF Li, Rq
    <3> QED BY <1>4, <2>2, <3>1, Zenon
  <2>7. (\A d \in Cpus : d # c => Li(d)' = Li(d)) /\ \A d \in Cpus : d # e => Rq(d)' = Rq(d)
    BY <2>3 DEF Rq, Li
  <2>8. \A u \in Threads : u \notin {t} => Untouched(u)
    BY <1>1, <1>6, <2>3, <2>6, <2>7, Zenon DEF Untouched
  <2>9. LinkedOnce(t)' /\ Listed(t)' /\ Listed(t)
    <3>1. \A d \in Cpus : (t \in Rq(d)' <=> d = e) /\ t \notin Zo(d)' /\ t \notin Li(d)'
      BY <1>5, <1>6, <2>6, <2>7, Zenon
    <3> QED BY <1>1, <1>4, <1>5, <1>6, <2>3, <3>1, Zenon DEF LinkedOnce, Listed
  <2>10. Kept(t)'
    BY <1>1, <1>4, <1>5, <2>3, <2>9, SchedAssumption, Zenon DEF Kept
  <2>11. Placed(c)'
    <3>1. mig'[c].send <= Len(list'[c]) /\ mig'[c].i = mig[c].i
      <4>1. list'[c] = l /\ mig'[c].send = mig[c].send - 1 /\ mig'[c].i = mig[c].i
        BY <1>2, <1>3, <2>3, Zenon
      <4>2. Len(l) = Len(list[c]) - 1 /\ mig[c].send <= Len(list[c]) /\ mig[c].send \in Nat /\ Len(list[c]) \in Nat
        BY <1>2, <1>4, Zenon
      <4> QED BY <4>1, <4>2
    <3>2. Li(c) \subseteq Threads
      BY <1>0, ListIn DEF SchedTypeOK, Li
    <3>3. \A u \in Li(c)' : t_state'[u] = "S_READY" /\ t_cpu'[u] = c
      BY <1>1, <1>5, <2>3, <2>6, <3>2, Zenon
    <3> QED BY <1>0, <1>1, <3>1, <3>3, Zenon DEF Placed
  <2>12. \A d \in Cpus : d # c => Aside(d) /\ ListLeft(d, {t}) /\ cur(d) \notin {t}
    <3>1. \A d \in Cpus : Len(c_runqueue[d]) <= Len(c_runqueue'[d])
      BY <1>8, <2>2, <2>3, Zenon
    <3>2. \A d \in Cpus : d # c /\ pc[d] = "idle" /\ c_runqueue'[d] # << >> => c_ipi'[d]
      <4>1. \A d \in Cpus : pc[d] = "idle" => c_isidle[d] /\ (c_runqueue[d] # << >> => c_ipi[d])
        BY PlacedSays, Zenon
      <4> QED BY <2>3, <4>1, Zenon
    <3>3. \A d \in Cpus : t_cpu[cur(d)] = d
      BY CurSays, Zenon
    <3>4. \A d \in Cpus : d # c => Aside(d)
      BY <1>1, <1>3, <2>3, <3>1, <3>2, Zenon DEF Aside
    <3>5. t_cpu[t] = c /\ \A d \in Cpus : t \in Li(d) => d = c
      BY <1>4, <1>5, Zenon
    <3>6. \A d \in Cpus : d # c => cur(d) # t
      BY <3>3, <3>5, Zenon
    <3>7. \A d \in Cpus : d # c => ListLeft(d, {t})
      BY <3>5, Zenon DEF ListLeft
    <3> QED BY <3>4, <3>6, <3>7, Zenon
  <2>13. t_cpu'[cur(c)'] = c /\ Busy(c)' = Busy(c) /\ cur(c)' = cur(c) /\ (Busy(c)' <=> ~Listed(cur(c))')
    <3>1. PICK u \in Threads : u = cur(c) /\ u = cur(c)' /\ u # t
      BY <1>6, <1>10, CurSays, Zenon
    <3>2. Listed(u)' = Listed(u)
      BY <2>8, <3>1, Zenon DEF Listed, Untouched
    <3>3. Listed(cur(c))' = Listed(u)' /\ Listed(cur(c)) = Listed(u)
      BY <3>1 DEF Listed
    <3>4. t_cpu[u] = c /\ t_cpu'[u] = c /\ (Busy(c) <=> ~Listed(u))
      BY <2>3, <3>1, <3>3, CurSays, Zenon DEF SchedIInv, Currents
    <3> QED BY <1>6, <3>1, <3>2, <3>3, <3>4, Zenon
  <2>14. pc[c] = "mig_move" /\ pc'[c] = "mig_move"
    BY <1>1, Zenon
  <2>15. \A u \in Threads : u \in {t} => LinkedOnce(u)' /\ Kept(u)'
    BY <2>9, <2>10, Zenon
  <2>16. Moves(c, {t})
    BY <1>7, <2>4, <2>5, <2>8, <2>11, <2>12, <2>13, <2>14, <2>15, Zenon DEF Moves
  <2> QED BY <2>16, MoveIInv, Zenon
<1> QED BY <1>9, <1>10

----------------------------------------------------------------------------
(* The theorems                                                            *)

\* Every step keeps the invariant.
LEMMA SchedNextIInv == SchedIInv /\ [Next]_vars => SchedIInv'
<1> SUFFICES ASSUME SchedIInv, [Next]_vars PROVE SchedIInv'
  OBVIOUS
<1>1. CASE UNCHANGED vars
  <2>1. SchedTypeOK' /\ Injective'
    BY <1>1, Zenon DEF vars, SchedIInv, SchedTypeOK, Injective
  <2>2. /\ Wc' = Wc /\ UNCHANGED <<pc, newstate, t_state, t_cpu>>
        /\ \A c \in Cpus : Rq(c)' = Rq(c) /\ Zo(c)' = Zo(c) /\ Li(c)' = Li(c) /\ cur(c)' = cur(c) /\ Busy(c)' = Busy(c)
    BY <1>1, Zenon DEF vars, Wc, Rq, Zo, Li, cur, Busy
  <2>3. \A t : Listed(t)' = Listed(t)
    BY <2>2, Zenon DEF Listed
  <2>4. Linked'
    <3> SUFFICES ASSUME NEW t \in Threads PROVE LinkedOnce(t)'
      BY DEF Linked
    <3>1. LinkedOnce(t)
      BY DEF SchedIInv, Linked
    <3> QED BY <2>2, <3>1, Zenon DEF LinkedOnce
  <2>5. Existing' /\ Currents'
    BY <2>2, <2>3, Zenon DEF SchedIInv, Existing, Kept, Currents
  <2>6. Marked'
    BY <2>2, Zenon DEF SchedIInv, Marked, PutAway
  <2>7. \A c \in Cpus : Placed(c)'
    <3> SUFFICES ASSUME NEW c \in Cpus PROVE Placed(c)'
      OBVIOUS
    <3>1. Placed(c) /\ Li(c)' = Li(c)
      BY <2>2, Zenon DEF SchedIInv
    <3> QED BY <1>1, <3>1, Zenon DEF vars, queues, threads, wchan, locals, Placed
  <2> QED BY <2>1, <2>4, <2>5, <2>6, <2>7, Zenon DEF SchedIInv
<1>2. ASSUME NEW c \in Cpus, Proceed(c) PROVE SchedIInv'
  <2>1. CASE thread_switch(c)
    BY <2>1, GotoIInv, PlaceIInv, MarkIInv, IdleIInv, PickIInv, ExorciseIInv, Zenon DEF thread_switch
  <2>2. CASE wchan_wakeone(c) \/ wchan_wakeall(c)
    <3>1. wc_threads \in Seq(Threads)
      BY DEF SchedIInv, SchedTypeOK
    <3>2. PICK n \in 0 .. Len(wc_threads) : TakeFirst(c, n)
      <4>1. Len(wc_threads) \in 0 .. Len(wc_threads) /\ 0 \in 0 .. Len(wc_threads)
            /\ (wc_threads # << >> => 1 \in 0 .. Len(wc_threads))
        BY <3>1
      <4>2. CASE wchan_wakeone(c) /\ wc_threads = << >>
        BY <4>1, <4>2 DEF wchan_wakeone
      <4>3. CASE wchan_wakeone(c) /\ wc_threads # << >>
        BY <4>1, <4>3 DEF wchan_wakeone
      <4>4. CASE wchan_wakeall(c)
        BY <4>1, <4>4 DEF wchan_wakeall
      <4> QED BY <2>2, <4>2, <4>3, <4>4
    <3> QED BY <3>2, TakeFirstIInv, Zenon
  <2>3. CASE deliver(c)
    BY <2>2, <2>3, MakeRunnableCpuIInv, MakeRunnableIInv, ReturnIInv, Zenon DEF deliver
  <2>4. CASE thread_consider_migration(c)
    BY <2>4, MigCountIInv, MigDecideIInv, MigTakeIInv, MigLockIInv, MigMoveIInv, MigBackIInv, Zenon
       DEF thread_consider_migration
  <2> QED BY <1>2, <2>1, <2>3, <2>4, ReturnIInv, Zenon DEF Proceed
<1>3. ASSUME NEW c \in Cpus, Start(c) PROVE SchedIInv'
  BY <1>3, EnterIInv, GotoIInv, ForkIInv, MigrateIInv, Zenon DEF Start
<1> QED BY <1>1, <1>2, <1>3, Zenon DEF Next

\* The invariant holds in every reachable state.
LEMMA SchedInvariant == Safe => []SchedIInv
<1>1. Init => SchedIInv
  BY SchedInitIInv
<1> QED BY <1>1, SchedNextIInv, PTL DEF Safe

\* The lists a thread is on, by kind.
LEMMA OnSays ==
  ASSUME NEW t
  PROVE  /\ On(t) = {} <=> ~Listed(t)
         /\ \A k \in On(t) : \/ \E c \in Cpus : k = <<"rq", c>> /\ t \in Rq(c)
                             \/ \E c \in Cpus : k = <<"zombies", c>> /\ t \in Zo(c)
                             \/ \E c \in Cpus : k = <<"list", c>> /\ t \in Li(c)
                             \/ k = <<"wchan", None>> /\ t \in Wc
<1>1. \A k \in On(t) : \/ \E c \in Cpus : k = <<"rq", c>> /\ t \in Rq(c)
                       \/ \E c \in Cpus : k = <<"zombies", c>> /\ t \in Zo(c)
                       \/ \E c \in Cpus : k = <<"list", c>> /\ t \in Li(c)
                       \/ k = <<"wchan", None>> /\ t \in Wc
  BY Zenon DEF On, Rq, Zo, Li, Wc
<1>2. /\ \A c \in Cpus : /\ t \in Rq(c) => <<"rq", c>> \in On(t)
                         /\ t \in Zo(c) => <<"zombies", c>> \in On(t)
                         /\ t \in Li(c) => <<"list", c>> \in On(t)
      /\ t \in Wc => <<"wchan", None>> \in On(t)
  BY Zenon DEF On, Rq, Zo, Li, Wc
<1> QED BY <1>1, <1>2, Zenon DEF Listed

\* Threads are neither lost nor linked twice by switching, waking, forking,
\* exiting and migrating; what is on a run queue is S_READY and that CPU's.
THEOREM SchedQueuesExact == Safe => []QueuesExact
<1>1. SchedIInv => QueuesExact
  <2> SUFFICES ASSUME SchedIInv PROVE QueuesExact
    OBVIOUS
  <2>1. ASSUME NEW t \in Threads, NEW k \in On(t), NEW l \in On(t) PROVE k = l
    <3>1. LinkedOnce(t)
      BY Zenon DEF SchedIInv, Linked
    <3>2. \A c, d \in Cpus :
            /\ t \in Rq(c) => t \notin Wc /\ t \notin Zo(d) /\ t \notin Li(d) /\ (t \in Rq(d) => c = d)
            /\ t \in Zo(c) => t \notin Wc /\ t \notin Li(d) /\ (t \in Zo(d) => c = d)
            /\ t \in Li(c) => t \notin Wc /\ (t \in Li(d) => c = d)
      BY <3>1, Zenon DEF LinkedOnce
    <3> QED BY <3>2, OnSays, Zenon
  <2>2. ASSUME NEW t \in Threads
        PROVE  /\ t_state[t] = "none" => On(t) = {}
               /\ t_state[t] # "none" => On(t) # {} \/ \E c \in Cpus : cur(c) = t
    <3>1. Kept(t)
      BY Zenon DEF SchedIInv, Existing
    <3> QED BY <3>1, OnSays, Zenon DEF Kept
  <2>3. QueuedIsReady
    <3> SUFFICES ASSUME NEW c \in Cpus, NEW t \in Range(c_runqueue[c]) PROVE t_state[t] = "S_READY" /\ t_cpu[t] = c
      BY Zenon DEF QueuedIsReady
    <3>1. t \in Threads
      BY ListIn DEF SchedIInv, SchedTypeOK
    <3> QED BY <3>1, Zenon DEF SchedIInv, Linked, LinkedOnce, Rq
  <2>4. Injective
    BY DEF SchedIInv
  <2> QED BY <2>1, <2>2, <2>3, <2>4 DEF QueuesExact, NoThreadLostOrDuplicated, Injective
<1> QED BY <1>1, SchedInvariant, PTL

\* No two CPUs are on one stack, nobody else can pick up the thread whose stack
\* a CPU is on, and no stack is destroyed under a CPU.
THEOREM SchedStackUsedByOneCpu == Safe => []StackUsedByOneCpu
<1>1. SchedIInv => StackUsedByOneCpu
  <2> SUFFICES ASSUME SchedIInv, NEW c \in Cpus, NEW d \in Cpus
               PROVE  /\ c # d => cur(c) # cur(d) /\ cur(c) \notin Range(c_runqueue[d])
                      /\ t_state[cur(c)] # "none"
                      /\ At(d, "exorcise") => cur(c) \notin Range(c_zombies[d])
    BY Zenon DEF StackUsedByOneCpu
  <2>1. cur(c) \in Threads /\ t_cpu[cur(c)] = c /\ t_state[cur(c)] # "none" /\ (cur(d) = cur(c) => d = c)
    BY CurSays, Zenon
  <2>2. (cur(c) \in Rq(d) => d = c) /\ (cur(c) \in Zo(d) => d = c)
    BY <2>1, Zenon DEF SchedIInv, Linked, LinkedOnce
  <2>3. pc[c] = "exorcise" => cur(c) \notin Zo(c)
    <3>1. pc[c] = "exorcise" => Busy(c)
      BY Zenon DEF SchedIInv, Placed, Busy
    <3> QED BY <3>1, CurSays
  <2> QED BY <2>1, <2>2, <2>3, Zenon DEF At, Rq, Zo
<1> QED BY <1>1, SchedInvariant, PTL

\* No wakeup is missed between the unlock and the wait for an interrupt, and
\* the threads that migration counted are there when it takes them.
THEOREM SchedUnlockedReadsHold == Safe => []UnlockedReadsHold
<1>1. SchedIInv => UnlockedReadsHold
  BY Zenon DEF SchedIInv, Placed, UnlockedReadsHold, IdleCpuIsPoked, VictimsStillThere, At
<1> QED BY <1>1, SchedInvariant, PTL

============================================================================
