------------------------------ MODULE VfsProofs -----------------------------
(***************************************************************************)
(* Proof that the count of a directory's vnode is the number of references *)
(* to it, and that a volume somebody has a directory of stays mounted, for *)
(* any threads, processes and devices.  References are of five kinds; for  *)
(* each kind a step changes the number by some n, and Balance adds up.     *)
(***************************************************************************)
EXTENDS Vfs, FiniteSetTheorems, TLAPS

\* Where a thread can be, and what a vnode pointer can be.
VfsPcs == {"out", "setcurdir", "setcurdir_swap", "getcwd", "getcurdir", "decref", "bootfs", "reclaim", "bootfs_reclaim"}
Vns == Devs \cup {Nothing}

\* What the variables hold.
VfsTypeOK ==
  /\ kd_fs \in [Devs -> {"NULL", "SWAP_FS", "fs"}] /\ vn_refcount \in [Devs -> Int] /\ failed \subseteq Devs
  /\ p_cwd \in [Procs -> Vns] /\ bootfs_vnode \in Vns /\ vpc \in [Callers -> VfsPcs]
  /\ newvn \in [Callers -> Vns] /\ drop \in [Callers -> Seq(Devs)]

\* Vnodes wait to be released only where they are released, and two at most; a
\* directory that is to be made the current one, or named, has been found.
VfsPlaced(t) ==
  /\ vpc[t] \notin {"decref", "bootfs", "reclaim", "bootfs_reclaim"} => drop[t] = << >>
  /\ vpc[t] \in {"reclaim", "bootfs_reclaim"} => drop[t] # << >>
  /\ vpc[t] \in {"setcurdir", "setcurdir_swap", "getcwd"} => newvn[t] # Nothing
  /\ Len(drop[t]) <= 2

\* The holders of the root of d.
CwdOf(d) == {p \in Procs : p_cwd[p] = d}
FoundBy(d) == {t \in Callers : newvn[t] = d}
Counted(d) == IsFiniteSet(CwdOf(d)) /\ IsFiniteSet(FoundBy(d)) /\ IsFiniteSet(Releases(d))

\* The inductive invariant: the types, where the threads are, that there are
\* finitely many references, and the property itself.
VfsIInv ==
  /\ VfsTypeOK /\ (\A t \in Callers : VfsPlaced(t)) /\ (\A d \in Devs : Counted(d))
  /\ DirectoriesStayMounted

----------------------------------------------------------------------------
(* Counting                                                                *)

\* How many references a condition stands for.
One(b) == IF b THEN 1 ELSE 0

\* Where d is the value of f.
Holders(f, d) == {x \in DOMAIN f : f[x] = d}

\* One value of a function is replaced: how often d is a value of it.
Recounted(f, y, v, d) ==
  LET A == Holders(f, d)
      B == Holders([f EXCEPT ![y] = v], d)
  IN  /\ IsFiniteSet(B) /\ Cardinality(A) \in Nat
      /\ Cardinality(B) = Cardinality(A) - One(f[y] = d) + One(v = d)
      /\ f[y] = d => Cardinality(A) >= 1

\* The count moves by what the old and the new value contribute.
LEMMA Recount ==
  ASSUME NEW S, NEW V, NEW f \in [S -> V], NEW y \in S, NEW v \in V, NEW d, IsFiniteSet(Holders(f, d))
  PROVE  Recounted(f, y, v, d)
<1>1. PICK A : A = Holders(f, d)
  BY Zenon
<1>2. PICK B : B = Holders([f EXCEPT ![y] = v], d)
  BY Zenon
<1>3. IsFiniteSet(A) /\ Cardinality(A) \in Nat
  BY <1>1, FS_CardinalityType, Zenon
<1>4. (f[y] = d <=> y \in A) /\ (v = d <=> y \in B)
  BY <1>1, <1>2 DEF Holders
<1>5. B \ {y} = A \ {y}
  BY <1>1, <1>2 DEF Holders
<1>6. PICK C : C = A \ {y} /\ y \notin C
  <2>1. y \notin A \ {y}
    BY Zenon
  <2> QED BY <2>1, Zenon
<1>7. IsFiniteSet(C) /\ Cardinality(C) = Cardinality(A) - One(f[y] = d) /\ Cardinality(C) \in Nat
  <2>1. CASE y \in A
    BY <1>3, <1>4, <1>6, <2>1, FS_RemoveElement, FS_CardinalityType DEF One
  <2>2. CASE y \notin A
    <3>1. C = A
      BY <1>6, <2>2, Zenon
    <3> QED BY <1>3, <1>4, <2>2, <3>1 DEF One
  <2> QED BY <2>1, <2>2
<1>8. IsFiniteSet(B) /\ Cardinality(B) = Cardinality(C) + One(v = d)
  <2>1. CASE y \in B
    <3>1. B = C \cup {y}
      <4>1. B = (B \ {y}) \cup {y}
        BY <2>1
      <4> QED BY <1>5, <1>6, <4>1, Zenon
    <3>2. IsFiniteSet(B) /\ Cardinality(B) = Cardinality(C) + 1
      BY <1>6, <1>7, <3>1, FS_AddElement, Zenon
    <3> QED BY <1>4, <2>1, <3>2, Zenon DEF One
  <2>2. CASE y \notin B
    <3>1. B = C
      BY <1>5, <1>6, <2>2, Zenon
    <3> QED BY <1>4, <1>7, <2>2, <3>1 DEF One
  <2> QED BY <2>1, <2>2
<1>9. Cardinality(B) = Cardinality(A) - One(f[y] = d) + One(v = d)
  BY <1>7, <1>8, Zenon
<1>10. f[y] = d => Cardinality(A) >= 1
  BY <1>3, <1>7 DEF One
<1> QED BY <1>1, <1>2, <1>3, <1>8, <1>9, <1>10, Zenon DEF Recounted

\* What a thread still has to release.
Slots == Callers \X {1, 2}
Slot(q, i) == IF i <= Len(q) THEN q[i] ELSE Nothing
Times(q, d) == One(Slot(q, 1) = d) + One(Slot(q, 2) = d)

\* What a thread has still to release is replaced.
LEMMA RecountReleases ==
  ASSUME VfsTypeOK, NEW t \in Callers, NEW q \in Seq(Devs), drop' = [drop EXCEPT ![t] = q], NEW d \in Devs,
         IsFiniteSet(Releases(d))
  PROVE  /\ IsFiniteSet(Releases(d)') /\ Cardinality(Releases(d)) \in Nat
         /\ Cardinality(Releases(d)') = Cardinality(Releases(d)) - Times(drop[t], d) + Times(q, d)
         /\ Slot(drop[t], 1) = d => Cardinality(Releases(d)) >= 1
<1> DEFINE f == [x \in Slots |-> Slot(drop[x[1]], x[2])]
           a == <<t, 1>>
           b == <<t, 2>>
           g == [f EXCEPT ![a] = Slot(q, 1)]
           h == [g EXCEPT ![b] = Slot(q, 2)]
<1>0. d # Nothing
  BY VfsAssumption
<1>1. /\ \A x \in Slots : x[1] \in Callers /\ x[2] \in {1, 2} /\ drop[x[1]] \in Seq(Devs)
      /\ a \in Slots /\ b \in Slots /\ a # b /\ a[1] = t /\ a[2] = 1 /\ b[1] = t /\ b[2] = 2
      /\ \A x \in Slots : x[1] = t => x = a \/ x = b
  BY DEF Slots, VfsTypeOK
<1>2. \A p \in Seq(Devs), i \in {1, 2} : Slot(p, i) \in Vns
  BY DEF Slot, Vns
<1>3. f \in [Slots -> Vns] /\ Slot(q, 1) \in Vns /\ Slot(q, 2) \in Vns
  BY <1>1, <1>2
<1>4. Releases(d) = {x \in Slots : f[x] = d}
  BY <1>0 DEF Releases, Slots, Slot
<1>5. \A x \in Slots : h[x] = Slot(drop'[x[1]], x[2])
  <2> SUFFICES ASSUME NEW x \in Slots PROVE h[x] = Slot(drop'[x[1]], x[2])
    OBVIOUS
  <2>1. CASE x[1] = t
    <3>1. drop'[x[1]] = q
      BY <2>1 DEF VfsTypeOK
    <3> QED BY <1>1, <1>3, <2>1, <3>1, Zenon
  <2>2. CASE x[1] # t
    <3>1. drop'[x[1]] = drop[x[1]] /\ x # a /\ x # b
      BY <1>1, <2>2 DEF VfsTypeOK
    <3> QED BY <1>3, <3>1, Zenon
  <2> QED BY <2>1, <2>2
<1>6. Releases(d)' = {x \in Slots : h[x] = d}
  <2>1. \A x \in Slots : (x[2] <= Len(drop'[x[1]]) /\ drop'[x[1]][x[2]] = d) <=> Slot(drop'[x[1]], x[2]) = d
    BY <1>0 DEF Slot
  <2> HIDE DEF h
  <2> QED BY <1>5, <2>1 DEF Releases, Slots
<1>7. f[a] = Slot(drop[t], 1) /\ g[b] = Slot(drop[t], 2) /\ g \in [Slots -> Vns]
  BY <1>1, <1>3
<1>8. PICK A, B, C : A = Holders(f, d) /\ B = Holders(g, d) /\ C = Holders(h, d)
  BY Zenon
<1>11. A = Releases(d) /\ C = Releases(d)'
  <2>1. DOMAIN f = Slots /\ DOMAIN h = Slots
    BY <1>7
  <2> HIDE DEF f, g, h
  <2> QED BY <1>4, <1>6, <1>8, <2>1, Zenon DEF Holders
<1> HIDE DEF f, a, b
<1>9. /\ IsFiniteSet(B) /\ Cardinality(A) \in Nat
      /\ Cardinality(B) = Cardinality(A) - One(Slot(drop[t], 1) = d) + One(Slot(q, 1) = d)
      /\ Slot(drop[t], 1) = d => Cardinality(A) >= 1
  <2>2. IsFiniteSet(Holders(f, d)) /\ f \in [Slots -> Vns] /\ a \in Slots /\ Slot(q, 1) \in Vns
    BY <1>1, <1>3, <1>8, <1>11, Zenon
  <2>3. Recounted(f, a, Slot(q, 1), d)
    BY <2>2, Recount, Zenon
  <2> QED BY <1>7, <1>8, <2>3, Zenon DEF Recounted
<1> HIDE DEF g
<1>10. /\ IsFiniteSet(C) /\ Cardinality(B) \in Nat
       /\ Cardinality(C) = Cardinality(B) - One(Slot(drop[t], 2) = d) + One(Slot(q, 2) = d)
  <2>2. IsFiniteSet(Holders(g, d)) /\ g \in [Slots -> Vns] /\ b \in Slots /\ Slot(q, 2) \in Vns
    BY <1>1, <1>3, <1>7, <1>8, <1>9, Zenon
  <2>3. Recounted(g, b, Slot(q, 2), d)
    BY <2>2, Recount, Zenon
  <2> QED BY <1>7, <1>8, <2>3, Zenon DEF Recounted
<1>12. Cardinality(C) = Cardinality(A) - Times(drop[t], d) + Times(q, d)
  <2>1. \A e : One(e) \in Int
    BY DEF One
  <2>2. One(Slot(drop[t], 1) = d) \in Int /\ One(Slot(drop[t], 2) = d) \in Int
        /\ One(Slot(q, 1) = d) \in Int /\ One(Slot(q, 2) = d) \in Int
    BY <2>1, Zenon
  <2> QED BY <1>9, <1>10, <2>2 DEF Times
<1> QED BY <1>9, <1>10, <1>11, <1>12, Zenon

\* By how much a step changes the number of references of each kind to d.
CwdBy(d, n) == IsFiniteSet(CwdOf(d)') /\ Cardinality(CwdOf(d)') = Cardinality(CwdOf(d)) + n
BootBy(d, n) == One(bootfs_vnode' = d) = One(bootfs_vnode = d) + n
FindsBy(d, n) == IsFiniteSet(FoundBy(d)') /\ Cardinality(FoundBy(d)') = Cardinality(FoundBy(d)) + n
ReleasesBy(d, n) == IsFiniteSet(Releases(d)') /\ Cardinality(Releases(d)') = Cardinality(Releases(d)) + n
FailedBy(d, n) == One(d \in failed') = One(d \in failed) + n

\* The invariant for one directory.
Held(d) ==
  /\ Counted(d) /\ vn_refcount[d] = References(d)
  /\ References(d) # 0 => kd_fs[d] = "fs"

\* What the invariant says of one directory.
LEMMA CountedNow ==
  ASSUME VfsIInv, NEW d \in Devs
  PROVE  /\ Cardinality(CwdOf(d)) \in Nat /\ Cardinality(FoundBy(d)) \in Nat /\ Cardinality(Releases(d)) \in Nat
         /\ Held(d) /\ VfsTypeOK /\ vn_refcount[d] \in Int
<1>1. Held(d) /\ VfsTypeOK /\ Counted(d)
  BY Zenon DEF VfsIInv, Held, DirectoriesStayMounted, VnodeCountExact, ReferencedIsMounted
<1>2. vn_refcount[d] \in Int
  BY <1>1 DEF VfsTypeOK
<1> QED BY <1>1, <1>2, FS_CardinalityType, Zenon DEF Counted

\* A condition contributes one reference or none.
LEMMA OneIs == \A b : One(b) \in {0, 1} /\ (b => One(b) = 1) /\ (~b => One(b) = 0)
BY DEF One

\* The same for a pointer compared with a directory.
LEMMA OneSays == ASSUME NEW a, NEW b PROVE One(a = b) \in Int /\ One(a = b) = IF a = b THEN 1 ELSE 0
BY DEF One

\* The references of the five kinds, before and after a step.
LEMMA RefsAre ==
  ASSUME NEW d
  PROVE  /\ References(d) = Cardinality(CwdOf(d)) + One(bootfs_vnode = d) + Cardinality(FoundBy(d))
                              + Cardinality(Releases(d)) + One(d \in failed)
         /\ References(d)' = Cardinality(CwdOf(d)') + One(bootfs_vnode' = d) + Cardinality(FoundBy(d)')
                               + Cardinality(Releases(d)') + One(d \in failed')
BY Zenon DEF References, CwdOf, FoundBy, One

\* The count follows the references, which only a mounted volume may gain.
LEMMA Balance ==
  ASSUME VfsIInv, NEW d \in Devs, NEW c \in Int, NEW b \in Int, NEW f \in Int, NEW r \in Int, NEW x \in Int,
         CwdBy(d, c), BootBy(d, b), FindsBy(d, f), ReleasesBy(d, r), FailedBy(d, x),
         vn_refcount'[d] = vn_refcount[d] + (c + b + f + r + x),
         kd_fs'[d] = kd_fs[d], c + b + f + r + x <= 0 \/ kd_fs[d] = "fs"
  PROVE  Held(d)'
<1>1. PICK i \in Nat, j \in Nat, k \in Nat, u \in Int, v \in Int :
        /\ i = Cardinality(CwdOf(d)) /\ j = Cardinality(FoundBy(d)) /\ k = Cardinality(Releases(d))
        /\ u = One(bootfs_vnode = d) /\ v = One(d \in failed) /\ u >= 0 /\ v >= 0
  <2>1. One(bootfs_vnode = d) \in Int /\ One(d \in failed) \in Int /\ One(bootfs_vnode = d) >= 0 /\ One(d \in failed) >= 0
    BY OneIs
  <2> QED BY <2>1, CountedNow, Zenon
<1>2. References(d) = i + u + j + k + v /\ vn_refcount[d] = References(d) /\ (References(d) # 0 => kd_fs[d] = "fs")
  BY <1>1, RefsAre, CountedNow, Zenon DEF Held
<1>3. References(d)' = (i + c) + (u + b) + (j + f) + (k + r) + (v + x) /\ References(d)' \in Nat
  <2>1. /\ References(d)' = Cardinality(CwdOf(d)') + One(bootfs_vnode' = d) + Cardinality(FoundBy(d)')
                               + Cardinality(Releases(d)') + One(d \in failed')
    BY RefsAre, Zenon
  <2>2. /\ Cardinality(CwdOf(d)') = i + c /\ One(bootfs_vnode' = d) = u + b /\ Cardinality(FoundBy(d)') = j + f
        /\ Cardinality(Releases(d)') = k + r /\ One(d \in failed') = v + x
    BY <1>1, Zenon DEF CwdBy, BootBy, FindsBy, ReleasesBy, FailedBy
  <2>3. /\ i + c \in Nat /\ j + f \in Nat /\ k + r \in Nat
    BY <2>2, FS_CardinalityType, Zenon DEF CwdBy, FindsBy, ReleasesBy
  <2>4. u + b \in {0, 1} /\ v + x \in {0, 1}
    BY <2>2, OneIs, Zenon
  <2>5. References(d)' = (i + c) + (u + b) + (j + f) + (k + r) + (v + x)
    BY <2>1, <2>2, Zenon
  <2> QED BY <2>3, <2>4, <2>5
<1>4. References(d)' = References(d) + (c + b + f + r + x) /\ References(d) \in Nat
  BY <1>1, <1>2, <1>3
<1>5. vn_refcount'[d] = References(d)'
  BY <1>2, <1>4, Zenon
<1>6. References(d)' # 0 => kd_fs'[d] = "fs"
  BY <1>2, <1>3, <1>4
<1>7. Counted(d)'
  BY Zenon DEF CwdBy, FindsBy, ReleasesBy, Counted
<1> QED BY <1>5, <1>6, <1>7, Zenon DEF Held

\* How the references of each kind change.
LEMMA NoChange ==
  ASSUME VfsIInv, NEW d \in Devs
  PROVE  /\ p_cwd' = p_cwd => CwdBy(d, 0)
         /\ bootfs_vnode' = bootfs_vnode => BootBy(d, 0)
         /\ newvn' = newvn => FindsBy(d, 0)
         /\ drop' = drop => ReleasesBy(d, 0)
         /\ failed' = failed => FailedBy(d, 0)
<1>1. PICK i \in Nat, j \in Nat, k \in Nat, u \in Int, v \in Int :
        /\ i = Cardinality(CwdOf(d)) /\ j = Cardinality(FoundBy(d)) /\ k = Cardinality(Releases(d))
        /\ u = One(bootfs_vnode = d) /\ v = One(d \in failed)
  <2>1. One(bootfs_vnode = d) \in Int /\ One(d \in failed) \in Int
    BY OneIs
  <2> QED BY <2>1, CountedNow, Zenon
<1>2. i = i + 0 /\ j = j + 0 /\ k = k + 0 /\ u = u + 0 /\ v = v + 0
  OBVIOUS
<1>3. IsFiniteSet(CwdOf(d)) /\ IsFiniteSet(FoundBy(d)) /\ IsFiniteSet(Releases(d))
  BY CountedNow, Zenon DEF Held, Counted
<1>4. p_cwd' = p_cwd => CwdBy(d, 0)
  <2> SUFFICES ASSUME p_cwd' = p_cwd PROVE CwdBy(d, 0)
    OBVIOUS
  <2>1. CwdOf(d)' = CwdOf(d)
    BY Zenon DEF CwdOf
  <2> QED BY <1>1, <1>2, <1>3, <2>1, Zenon DEF CwdBy
<1>5. newvn' = newvn => FindsBy(d, 0)
  <2> SUFFICES ASSUME newvn' = newvn PROVE FindsBy(d, 0)
    OBVIOUS
  <2>1. FoundBy(d)' = FoundBy(d)
    BY Zenon DEF FoundBy
  <2> QED BY <1>1, <1>2, <1>3, <2>1, Zenon DEF FindsBy
<1>6. drop' = drop => ReleasesBy(d, 0)
  <2> SUFFICES ASSUME drop' = drop PROVE ReleasesBy(d, 0)
    OBVIOUS
  <2>1. Releases(d)' = Releases(d)
    BY Zenon DEF Releases
  <2> QED BY <1>1, <1>2, <1>3, <2>1, Zenon DEF ReleasesBy
<1>7. bootfs_vnode' = bootfs_vnode => BootBy(d, 0)
  BY <1>1, <1>2, Zenon DEF BootBy
<1>8. failed' = failed => FailedBy(d, 0)
  BY <1>1, <1>2, Zenon DEF FailedBy
<1> QED BY <1>4, <1>5, <1>6, <1>7, <1>8, Zenon

\* A process's current directory is replaced.
LEMMA CwdChange ==
  ASSUME VfsIInv, NEW d \in Devs, NEW p \in Procs, NEW v \in Vns, p_cwd' = [p_cwd EXCEPT ![p] = v]
  PROVE  CwdBy(d, One(v = d) - One(p_cwd[p] = d))
<1>1. p_cwd \in [Procs -> Vns] /\ IsFiniteSet(CwdOf(d))
  BY CountedNow, Zenon DEF VfsTypeOK, Held, Counted
<1>2. CwdOf(d) = Holders(p_cwd, d) /\ CwdOf(d)' = Holders([p_cwd EXCEPT ![p] = v], d)
  BY <1>1 DEF CwdOf, Holders
<1>3. Recounted(p_cwd, p, v, d)
  BY <1>1, <1>2, Recount, Zenon
<1>4. /\ IsFiniteSet(CwdOf(d)') /\ Cardinality(CwdOf(d)) \in Nat
      /\ Cardinality(CwdOf(d)') = Cardinality(CwdOf(d)) - One(p_cwd[p] = d) + One(v = d)
  BY <1>2, <1>3, Zenon DEF Recounted
<1>5. One(p_cwd[p] = d) \in Int /\ One(v = d) \in Int
  BY OneIs
<1>6. Cardinality(CwdOf(d)') = Cardinality(CwdOf(d)) + (One(v = d) - One(p_cwd[p] = d))
  BY <1>4, <1>5
<1> QED BY <1>4, <1>6, Zenon DEF CwdBy

\* What a thread has found is replaced.
LEMMA FoundChange ==
  ASSUME VfsIInv, NEW d \in Devs, NEW t \in Callers, NEW v \in Vns, newvn' = [newvn EXCEPT ![t] = v]
  PROVE  FindsBy(d, One(v = d) - One(newvn[t] = d))
<1>1. newvn \in [Callers -> Vns] /\ IsFiniteSet(FoundBy(d))
  BY CountedNow, Zenon DEF VfsTypeOK, Held, Counted
<1>2. FoundBy(d) = Holders(newvn, d) /\ FoundBy(d)' = Holders([newvn EXCEPT ![t] = v], d)
  BY <1>1 DEF FoundBy, Holders
<1>3. Recounted(newvn, t, v, d)
  BY <1>1, <1>2, Recount, Zenon
<1>4. /\ IsFiniteSet(FoundBy(d)') /\ Cardinality(FoundBy(d)) \in Nat
      /\ Cardinality(FoundBy(d)') = Cardinality(FoundBy(d)) - One(newvn[t] = d) + One(v = d)
  BY <1>2, <1>3, Zenon DEF Recounted
<1>5. One(newvn[t] = d) \in Int /\ One(v = d) \in Int
  BY OneIs
<1>6. Cardinality(FoundBy(d)') = Cardinality(FoundBy(d)) + (One(v = d) - One(newvn[t] = d))
  BY <1>4, <1>5
<1> QED BY <1>4, <1>6, Zenon DEF FindsBy

\* What a thread has still to release is replaced, as a change of the count.
LEMMA ReleasesChange ==
  ASSUME VfsIInv, NEW d \in Devs, NEW t \in Callers, NEW q \in Seq(Devs), drop' = [drop EXCEPT ![t] = q]
  PROVE  /\ ReleasesBy(d, Times(q, d) - Times(drop[t], d))
         /\ Slot(drop[t], 1) = d => Cardinality(Releases(d)) >= 1
<1>1. VfsTypeOK /\ IsFiniteSet(Releases(d))
  BY CountedNow, Zenon DEF Held, Counted
<1>2. /\ IsFiniteSet(Releases(d)') /\ Cardinality(Releases(d)) \in Nat
      /\ Cardinality(Releases(d)') = Cardinality(Releases(d)) - Times(drop[t], d) + Times(q, d)
      /\ Slot(drop[t], 1) = d => Cardinality(Releases(d)) >= 1
  BY <1>1, RecountReleases, Zenon
<1>3. Times(q, d) \in Int /\ Times(drop[t], d) \in Int
  BY OneIs DEF Times
<1>4. Cardinality(Releases(d)') = Cardinality(Releases(d)) + (Times(q, d) - Times(drop[t], d))
  BY <1>2, <1>3
<1> QED BY <1>2, <1>4, Zenon DEF ReleasesBy

\* How often a directory is among the vnodes to be released.
LEMMA TimesAre ==
  ASSUME NEW d \in Devs
  PROVE  /\ Times(<< >>, d) = 0
         /\ \A e \in Devs : Times(<<e>>, d) = One(e = d) /\ <<e>> \in Seq(Devs) /\ Len(<<e>>) <= 2
         /\ \A o, e \in Devs : /\ Times(<<o, e>>, d) = One(o = d) + One(e = d)
                               /\ <<o, e>> \in Seq(Devs) /\ Len(<<o, e>>) <= 2
         /\ \A q \in Seq(Devs) : q # << >> /\ Len(q) <= 2 =>
              /\ Tail(q) \in Seq(Devs) /\ Len(Tail(q)) <= 2 /\ Head(q) \in Devs /\ Slot(q, 1) = Head(q)
              /\ Times(Tail(q), d) = Times(q, d) - One(Head(q) = d)
<1>1. d # Nothing /\ One(Nothing = d) = 0
  BY VfsAssumption, OneIs, Zenon
<1>2. Times(<< >>, d) = 0
  BY <1>1 DEF Times, Slot, One
<1>3. ASSUME NEW e \in Devs PROVE Times(<<e>>, d) = One(e = d) /\ <<e>> \in Seq(Devs) /\ Len(<<e>>) <= 2
  <2>1. Slot(<<e>>, 1) = e /\ Slot(<<e>>, 2) = Nothing
    BY DEF Slot
  <2> QED BY <1>1, <2>1, OneIs DEF Times
<1>4. ASSUME NEW o \in Devs, NEW e \in Devs
      PROVE  Times(<<o, e>>, d) = One(o = d) + One(e = d) /\ <<o, e>> \in Seq(Devs) /\ Len(<<o, e>>) <= 2
  <2>1. Slot(<<o, e>>, 1) = o /\ Slot(<<o, e>>, 2) = e
    BY DEF Slot
  <2> QED BY <2>1 DEF Times
<1>5. ASSUME NEW q \in Seq(Devs), q # << >>, Len(q) <= 2
      PROVE  /\ Tail(q) \in Seq(Devs) /\ Len(Tail(q)) <= 2 /\ Head(q) \in Devs /\ Slot(q, 1) = Head(q)
             /\ Times(Tail(q), d) = Times(q, d) - One(Head(q) = d)
  <2>1. /\ Tail(q) \in Seq(Devs) /\ Len(Tail(q)) = Len(q) - 1 /\ Len(q) \in {1, 2} /\ Head(q) = q[1] /\ q[1] \in Devs
        /\ Len(q) = 2 => Tail(q)[1] = q[2]
    <3>1. Len(q) \in Nat /\ Len(q) # 0
      BY <1>5
    <3>2. Len(q) \in {1, 2}
      <4>1. \A n \in Nat : n # 0 /\ n <= 2 => n \in {1, 2}
        OBVIOUS
      <4> QED BY <1>5, <3>1, <4>1, Zenon
    <3>3. Tail(q) \in Seq(Devs) /\ Len(Tail(q)) = Len(q) - 1 /\ Head(q) = q[1]
      BY <1>5
    <3>4. q[1] \in Devs
      BY <3>2
    <3>5. Len(q) = 2 => Tail(q)[1] = q[2]
      BY <1>5
    <3> QED BY <3>2, <3>3, <3>4, <3>5, Zenon
  <2>2. Slot(q, 1) = Head(q) /\ Slot(Tail(q), 1) = Slot(q, 2) /\ Slot(Tail(q), 2) = Nothing
    BY <2>1 DEF Slot
  <2>3. PICK i \in Int, j \in Int : i = One(Slot(q, 1) = d) /\ j = One(Slot(q, 2) = d)
    <3>1. One(Slot(q, 1) = d) \in Int /\ One(Slot(q, 2) = d) \in Int
      BY OneIs
    <3> QED BY <3>1, Zenon
  <2>4. Times(q, d) = i + j /\ Times(Tail(q), d) = j + 0 /\ One(Head(q) = d) = i
    BY <1>1, <2>2, <2>3, Zenon DEF Times
  <2> QED BY <2>1, <2>2, <2>4
<1> QED BY <1>2, <1>3, <1>4, <1>5, Zenon

\* The volume of a directory somebody has is mounted.
LEMMA HeldMounted ==
  ASSUME VfsIInv, NEW d \in Devs,
         (\E p \in Procs : p_cwd[p] = d) \/ bootfs_vnode = d \/ \E t \in Callers : newvn[t] = d
  PROVE  kd_fs[d] = "fs"
<1>1. PICK i \in Nat, j \in Nat, k \in Nat, u \in Int, v \in Int :
        /\ i = Cardinality(CwdOf(d)) /\ j = Cardinality(FoundBy(d)) /\ k = Cardinality(Releases(d))
        /\ u = One(bootfs_vnode = d) /\ v = One(d \in failed) /\ u >= 0 /\ v >= 0
  <2>1. One(bootfs_vnode = d) \in Int /\ One(d \in failed) \in Int /\ One(bootfs_vnode = d) >= 0 /\ One(d \in failed) >= 0
    BY OneIs
  <2> QED BY <2>1, CountedNow, Zenon
<1>2. References(d) = i + u + j + k + v /\ (References(d) # 0 => kd_fs[d] = "fs")
  BY <1>1, RefsAre, CountedNow, Zenon DEF Held
<1>3. IsFiniteSet(CwdOf(d)) /\ IsFiniteSet(FoundBy(d))
  BY CountedNow, Zenon DEF Held, Counted
<1>4. CwdOf(d) # {} \/ FoundBy(d) # {} \/ bootfs_vnode = d
  BY Zenon DEF CwdOf, FoundBy
<1>5. i # 0 \/ j # 0 \/ u = 1
  BY <1>1, <1>3, <1>4, FS_EmptySet, OneIs, Zenon
<1>6. i + u + j + k + v # 0
  <2>1. u \in Nat /\ v \in Nat
    <3>1. \A n \in Int : n >= 0 => n \in Nat
      OBVIOUS
    <3> QED BY <1>1, <3>1, Zenon
  <2>2. \A a, b, c, n, m \in Nat : a + b + c + n + m = 0 => a = 0 /\ b = 0 /\ c = 0
    OBVIOUS
  <2>3. CASE i + u + j + k + v = 0
    <3>1. i = 0 /\ u = 0 /\ j = 0
      BY <2>1, <2>2, <2>3, Zenon
    <3> QED BY <1>5, <3>1
  <2> QED BY <2>3, Zenon
<1> QED BY <1>2, <1>6, Zenon

\* A step of t keeps the invariant if it keeps that of t and of each directory.
LEMMA VfsStep ==
  ASSUME VfsIInv, VfsTypeOK', NEW t \in Callers, VfsPlaced(t)', \A d \in Devs : Held(d)',
         \A u \in Callers : u # t => vpc'[u] = vpc[u] /\ newvn'[u] = newvn[u] /\ drop'[u] = drop[u]
  PROVE  VfsIInv'
<1>1. ASSUME NEW u \in Callers, u # t PROVE VfsPlaced(u)'
  BY <1>1, Zenon DEF VfsIInv, VfsPlaced
<1>2. \A d \in Devs : Counted(d)' /\ vn_refcount'[d] = References(d)' /\ (References(d)' # 0 => kd_fs'[d] = "fs")
  BY Zenon DEF Held
<1>3. DirectoriesStayMounted'
  BY <1>2, Zenon DEF DirectoriesStayMounted, VnodeCountExact, ReferencedIsMounted
<1> QED BY <1>1, <1>2, <1>3, Zenon DEF VfsIInv

\* The types of what belongs to one thread.
LEMMA Typed ==
  ASSUME VfsIInv, NEW t \in Callers
  PROVE  /\ VfsTypeOK /\ VfsPlaced(t) /\ newvn[t] \in Vns /\ drop[t] \in Seq(Devs) /\ vpc[t] \in VfsPcs
         /\ Kproc \in Procs /\ p_cwd[Kproc] \in Vns /\ bootfs_vnode \in Vns /\ Nothing \notin Devs
BY VfsAssumption DEF VfsIInv, VfsTypeOK, Procs

----------------------------------------------------------------------------
(* The steps                                                               *)

\* A directory that is found, for vfs_open, vfs_chdir, vfs_getcwd and
\* vfs_setbootfs.
LEMMA FindStep ==
  ASSUME VfsIInv, NEW t \in Callers, NEW e \in Devs, NEW l \in VfsPcs, kd_fs[e] = "fs", newvn[t] = Nothing,
         drop[t] = << >>, l \in {"out", "setcurdir", "getcwd"}, vpc' = [vpc EXCEPT ![t] = l],
         VOP_INCREF(e), newvn' = [newvn EXCEPT ![t] = e], UNCHANGED <<kd_fs, failed, p_cwd, bootfs_vnode, drop>>
  PROVE  VfsIInv'
<1>1. /\ VfsTypeOK /\ VfsPlaced(t) /\ Nothing \notin Devs
      /\ vn_refcount' = [vn_refcount EXCEPT ![e] = @ + 1]
  BY Typed, Zenon DEF VOP_INCREF
<1>2. VfsTypeOK'
  BY <1>1 DEF VfsTypeOK, Vns
<1>3. VfsPlaced(t)'
  BY <1>1 DEF VfsTypeOK, VfsPlaced
<1>4. \A u \in Callers : u # t => vpc'[u] = vpc[u] /\ newvn'[u] = newvn[u] /\ drop'[u] = drop[u]
  BY <1>1, Zenon DEF VfsTypeOK
<1>5. ASSUME NEW d \in Devs PROVE Held(d)'
  <2>1. CwdBy(d, 0) /\ BootBy(d, 0) /\ ReleasesBy(d, 0) /\ FailedBy(d, 0)
    BY NoChange, Zenon
  <2>2. One(newvn[t] = d) = 0 /\ One(e = d) \in Int /\ One(e = d) = IF e = d THEN 1 ELSE 0
    BY <1>1, OneSays, Zenon
  <2>3. FindsBy(d, One(e = d))
    <3>1. FindsBy(d, One(e = d) - One(newvn[t] = d))
      BY FoundChange, Zenon DEF Vns
    <3>2. One(e = d) - One(newvn[t] = d) = One(e = d)
      BY <2>2
    <3> QED BY <3>1, <3>2, Zenon
  <2>4. vn_refcount'[d] = vn_refcount[d] + (0 + 0 + One(e = d) + 0 + 0)
    <3>1. vn_refcount'[d] = vn_refcount[d] + One(e = d)
      BY <1>1, <2>2 DEF VfsTypeOK
    <3>2. 0 + 0 + One(e = d) + 0 + 0 = One(e = d)
      BY <2>2
    <3> QED BY <3>1, <3>2, Zenon
  <2>5. 0 + 0 + One(e = d) + 0 + 0 <= 0 \/ kd_fs[d] = "fs"
    BY <2>2
  <2>6. kd_fs'[d] = kd_fs[d] /\ 0 \in Int
    OBVIOUS
  <2> QED BY <2>1, <2>2, <2>3, <2>4, <2>5, <2>6, Balance, Zenon
<1> QED BY <1>2, <1>3, <1>4, <1>5, VfsStep, Zenon

\* Steps that touch no reference.
LEMMA QuietStep ==
  ASSUME VfsIInv, NEW t \in Callers, NEW l \in VfsPcs, vpc' = [vpc EXCEPT ![t] = l], VfsPlaced(t)',
         UNCHANGED <<kd_fs, vn_refcount, failed, p_cwd, bootfs_vnode, newvn, drop>>
  PROVE  VfsIInv'
<1>1. VfsTypeOK
  BY Zenon DEF VfsIInv
<1>2. VfsTypeOK'
  BY <1>1 DEF VfsTypeOK
<1>3. \A u \in Callers : u # t => vpc'[u] = vpc[u] /\ newvn'[u] = newvn[u] /\ drop'[u] = drop[u]
  BY <1>1, Zenon DEF VfsTypeOK
<1>4. ASSUME NEW d \in Devs PROVE Held(d)'
  <2>1. Held(d) /\ UNCHANGED <<kd_fs, vn_refcount, failed, p_cwd, bootfs_vnode, newvn, drop>>
    BY CountedNow, Zenon
  <2> QED BY <2>1, Zenon DEF Held, Counted, CwdOf, FoundBy, Releases, References
<1> QED BY <1>2, <1>3, <1>4, VfsStep, Zenon

\* A reference is given up, to be released: vfs_close, vfs_clearcurdir,
\* vfs_getcwd, proc_destroy and vfs_clearbootfs.
GivesUp(d, o) == \E c, b, f \in Int : CwdBy(d, c) /\ BootBy(d, b) /\ FindsBy(d, f) /\ c + b + f = 0 - One(o = d)

\* Such a step: nothing is counted down yet.
LEMMA GiveUpStep ==
  ASSUME VfsIInv, NEW t \in Callers, NEW o \in Devs, NEW l \in {"decref", "bootfs"}, VfsTypeOK', drop[t] = << >>,
         vpc' = [vpc EXCEPT ![t] = l], drop' = [drop EXCEPT ![t] = <<o>>], UNCHANGED <<kd_fs, vn_refcount, failed>>,
         \A u \in Callers : u # t => newvn'[u] = newvn[u],
         \A d \in Devs : GivesUp(d, o)
  PROVE  VfsIInv'
<1>1. VfsTypeOK /\ Nothing \notin Devs
  BY Typed, Zenon
<1>2. <<o>> \in Seq(Devs) /\ Len(<<o>>) <= 2 /\ <<o>> # << >>
  OBVIOUS
<1>3. VfsPlaced(t)'
  <2>1. vpc'[t] = l /\ drop'[t] = <<o>>
    BY <1>1 DEF VfsTypeOK
  <2> QED BY <1>2, <2>1 DEF VfsPlaced
<1>4. \A u \in Callers : u # t => vpc'[u] = vpc[u] /\ newvn'[u] = newvn[u] /\ drop'[u] = drop[u]
  BY <1>1, Zenon DEF VfsTypeOK
<1>5. ASSUME NEW d \in Devs PROVE Held(d)'
  <2>1. PICK c \in Int, b \in Int, f \in Int : CwdBy(d, c) /\ BootBy(d, b) /\ FindsBy(d, f) /\ c + b + f = 0 - One(o = d)
    BY Zenon DEF GivesUp
  <2>2. One(o = d) \in Int
    BY OneSays, Zenon
  <2>3. ReleasesBy(d, One(o = d)) /\ FailedBy(d, 0)
    <3>1. Times(<<o>>, d) = One(o = d) /\ Times(<< >>, d) = 0
      BY TimesAre, Zenon
    <3>2. ReleasesBy(d, Times(<<o>>, d) - Times(drop[t], d))
      BY <1>2, ReleasesChange, Zenon
    <3>3. One(o = d) - 0 = One(o = d)
      BY <2>2
    <3>4. FailedBy(d, 0)
      BY NoChange, Zenon
    <3> QED BY <3>1, <3>2, <3>3, <3>4, Zenon
  <2>4. c + b + f + One(o = d) + 0 = 0
    <3>1. c + b + f = 0 - One(o = d)
      BY <2>1, Zenon
    <3> QED BY <2>2, <3>1
  <2>5. vn_refcount'[d] = vn_refcount[d] + (c + b + f + One(o = d) + 0) /\ kd_fs'[d] = kd_fs[d]
    <3>1. vn_refcount[d] = vn_refcount[d] + 0
      BY CountedNow
    <3> QED BY <2>4, <3>1, Zenon
  <2>6. c + b + f + One(o = d) + 0 <= 0 /\ 0 \in Int
    BY <2>4
  <2> QED BY <2>1, <2>2, <2>3, <2>5, <2>6, Balance, Zenon
<1> QED BY <1>3, <1>4, <1>5, VfsStep, Zenon

\* vfs_close and the end of vfs_getcwd give up the directory that t has found.
LEMMA FoundGivenUp ==
  ASSUME VfsIInv, NEW t \in Callers, drop[t] = << >>, newvn[t] # Nothing, Drops(t, <<newvn[t]>>),
         newvn' = [newvn EXCEPT ![t] = Nothing], VfsGoto(t, "decref"),
         UNCHANGED <<kd_fs, vn_refcount, failed, p_cwd, bootfs_vnode>>
  PROVE  VfsIInv'
<1>1. PICK o \in Devs : o = newvn[t]
  BY Typed, Zenon DEF Vns
<1>2. VfsTypeOK /\ Nothing \notin Devs /\ drop' = [drop EXCEPT ![t] = <<o>>] /\ vpc' = [vpc EXCEPT ![t] = "decref"]
  BY <1>1, Typed, Zenon DEF Drops, VfsGoto
<1>3. VfsTypeOK'
  BY <1>2 DEF VfsTypeOK, Vns, VfsPcs
<1>4. \A u \in Callers : u # t => newvn'[u] = newvn[u]
  BY <1>2, Zenon DEF VfsTypeOK
<1>5. ASSUME NEW d \in Devs PROVE GivesUp(d, o)
  <2>1. CwdBy(d, 0) /\ BootBy(d, 0)
    BY NoChange, Zenon
  <2>2. FindsBy(d, One(Nothing = d) - One(o = d))
    BY <1>1, FoundChange, Zenon DEF Vns
  <2>3. One(Nothing = d) = 0 /\ One(o = d) \in Int
    BY <1>2, OneSays, Zenon
  <2>4. 0 - One(o = d) \in Int /\ 0 + 0 + (0 - One(o = d)) = 0 - One(o = d) /\ 0 \in Int
    BY <2>3
  <2>5. FindsBy(d, 0 - One(o = d))
    BY <2>2, <2>3, Zenon
  <2> QED BY <2>1, <2>4, <2>5, Zenon DEF GivesUp
<1> QED BY <1>2, <1>3, <1>4, <1>5, GiveUpStep, Zenon

\* vfs_clearcurdir and proc_destroy give up the current directory of a process.
LEMMA CwdGivenUp ==
  ASSUME VfsIInv, NEW t \in Callers, NEW p \in Procs, drop[t] = << >>, p_cwd[p] # Nothing, Drops(t, <<p_cwd[p]>>),
         p_cwd' = [p_cwd EXCEPT ![p] = Nothing], VfsGoto(t, "decref"),
         UNCHANGED <<kd_fs, vn_refcount, failed, bootfs_vnode, newvn>>
  PROVE  VfsIInv'
<1>1. PICK o \in Devs : o = p_cwd[p]
  <2>1. p_cwd[p] \in Vns
    BY DEF VfsIInv, VfsTypeOK
  <2> QED BY <2>1, Zenon DEF Vns
<1>2. VfsTypeOK /\ Nothing \notin Devs /\ drop' = [drop EXCEPT ![t] = <<o>>] /\ vpc' = [vpc EXCEPT ![t] = "decref"]
  BY <1>1, Typed, Zenon DEF Drops, VfsGoto
<1>3. VfsTypeOK'
  BY <1>2 DEF VfsTypeOK, Vns, VfsPcs
<1>5. ASSUME NEW d \in Devs PROVE GivesUp(d, o)
  <2>1. FindsBy(d, 0) /\ BootBy(d, 0)
    BY NoChange, Zenon
  <2>2. CwdBy(d, One(Nothing = d) - One(o = d))
    BY <1>1, CwdChange, Zenon DEF Vns
  <2>3. One(Nothing = d) = 0 /\ One(o = d) \in Int
    BY <1>2, OneSays, Zenon
  <2>4. 0 - One(o = d) \in Int /\ (0 - One(o = d)) + 0 + 0 = 0 - One(o = d) /\ 0 \in Int
    BY <2>3
  <2>5. CwdBy(d, 0 - One(o = d))
    BY <2>2, <2>3, Zenon
  <2> QED BY <2>1, <2>4, <2>5, Zenon DEF GivesUp
<1> QED BY <1>2, <1>3, <1>5, GiveUpStep, Zenon

\* vfs_clearbootfs gives up the boot file system.
LEMMA BootfsGivenUp ==
  ASSUME VfsIInv, NEW t \in Callers, vfs_clearbootfs(t)
  PROVE  VfsIInv'
<1>1. PICK o \in Devs : o = bootfs_vnode
  BY Typed, Zenon DEF Vns, vfs_clearbootfs
<1>2. /\ VfsTypeOK /\ Nothing \notin Devs /\ drop[t] = << >> /\ UNCHANGED <<kd_fs, vn_refcount, failed, p_cwd, newvn>>
      /\ bootfs_vnode' = Nothing /\ vpc' = [vpc EXCEPT ![t] = "bootfs"]
  BY Typed, Zenon DEF VfsPlaced, vfs_clearbootfs, VfsGoto, VfsAt, mounts, refs
<1>3. drop' = [drop EXCEPT ![t] = <<o>>]
  BY <1>1, <1>2, Zenon DEF vfs_clearbootfs, Drops, NonNull
<1>4. VfsTypeOK'
  BY <1>2, <1>3 DEF VfsTypeOK, Vns, VfsPcs
<1>5. ASSUME NEW d \in Devs PROVE GivesUp(d, o)
  <2>1. CwdBy(d, 0) /\ FindsBy(d, 0)
    BY <1>2, NoChange, Zenon
  <2>3. One(bootfs_vnode' = d) = 0 /\ One(o = d) \in Int /\ One(bootfs_vnode = d) = One(o = d)
    BY <1>1, <1>2, OneSays, Zenon
  <2>4. /\ 0 - One(o = d) \in Int /\ 0 + (0 - One(o = d)) + 0 = 0 - One(o = d) /\ 0 \in Int
        /\ 0 = One(o = d) + (0 - One(o = d))
    BY <2>3
  <2>5. BootBy(d, 0 - One(o = d))
    BY <2>3, <2>4, Zenon DEF BootBy
  <2> QED BY <2>1, <2>4, <2>5, Zenon DEF GivesUp
<1> QED BY <1>2, <1>3, <1>4, <1>5, GiveUpStep, Zenon

\* root_decref, and VOP_RECLAIM when it succeeds: a reference goes, and is counted
\* no more.
LEMMA ReleaseStep ==
  ASSUME VfsIInv, NEW t \in Callers, drop[t] # << >>, NEW l \in {"decref", "bootfs"}, vpc' = [vpc EXCEPT ![t] = l],
         vn_refcount' = [vn_refcount EXCEPT ![Head(drop[t])] = @ - 1], drop' = [drop EXCEPT ![t] = Tail(@)],
         UNCHANGED <<kd_fs, failed, p_cwd, bootfs_vnode, newvn>>
  PROVE  VfsIInv'
<1>1. /\ VfsTypeOK /\ drop[t] \in Seq(Devs) /\ Len(drop[t]) <= 2
  BY Typed, Zenon DEF VfsPlaced
<1>2. PICK h \in Devs, q \in Seq(Devs) : h = Head(drop[t]) /\ q = Tail(drop[t]) /\ Len(q) <= 2
  <2>1. PICK d \in Devs : d = Head(drop[t])
    BY <1>1
  <2> QED BY <1>1, <2>1, TimesAre, Zenon
<1>3. drop' = [drop EXCEPT ![t] = q] /\ vn_refcount' = [vn_refcount EXCEPT ![h] = @ - 1]
  BY <1>1, <1>2, Zenon
<1>4. VfsTypeOK'
  BY <1>1, <1>3 DEF VfsTypeOK, VfsPcs
<1>5. VfsPlaced(t)'
  <2>1. vpc'[t] = l /\ drop'[t] = q
    BY <1>1, <1>3 DEF VfsTypeOK
  <2> QED BY <1>2, <2>1, Zenon DEF VfsPlaced
<1>6. \A u \in Callers : u # t => vpc'[u] = vpc[u] /\ newvn'[u] = newvn[u] /\ drop'[u] = drop[u]
  BY <1>1, Zenon DEF VfsTypeOK
<1>7. ASSUME NEW d \in Devs PROVE Held(d)'
  <2>1. CwdBy(d, 0) /\ BootBy(d, 0) /\ FindsBy(d, 0) /\ FailedBy(d, 0)
    BY NoChange, Zenon
  <2>2. One(h = d) \in Int /\ One(h = d) = IF h = d THEN 1 ELSE 0
    BY OneSays, Zenon
  <2>3. ReleasesBy(d, 0 - One(h = d))
    <3>1. Times(q, d) = Times(drop[t], d) - One(h = d)
      BY <1>1, <1>2, TimesAre, Zenon
    <3>2. ReleasesBy(d, Times(q, d) - Times(drop[t], d))
      BY <1>3, ReleasesChange, Zenon
    <3>3. Times(drop[t], d) \in Int
      BY OneIs DEF Times
    <3>4. Times(q, d) - Times(drop[t], d) = 0 - One(h = d)
      BY <2>2, <3>1, <3>3
    <3> QED BY <3>2, <3>4, Zenon
  <2>4. /\ 0 + 0 + 0 + (0 - One(h = d)) + 0 = 0 - One(h = d) /\ 0 - One(h = d) <= 0
        /\ 0 - One(h = d) \in Int /\ 0 \in Int
    BY <2>2
  <2>5. vn_refcount'[d] = vn_refcount[d] + (0 - One(h = d))
    <3>1. vn_refcount'[d] = (IF h = d THEN vn_refcount[d] - 1 ELSE vn_refcount[d]) /\ vn_refcount[d] \in Int
      BY <1>1, <1>3 DEF VfsTypeOK
    <3> QED BY <2>2, <3>1
  <2> QED BY <2>1, <2>3, <2>4, <2>5, Balance, Zenon
<1> QED BY <1>4, <1>5, <1>6, <1>7, VfsStep, Zenon

\* VOP_RECLAIM fails: what was the last reference stays.
LEMMA ReclaimFailsStep ==
  ASSUME VfsIInv, NEW t \in Callers, drop[t] # << >>, NEW l \in {"decref", "bootfs"}, vpc' = [vpc EXCEPT ![t] = l],
         vn_refcount[Head(drop[t])] = 1, failed' = failed \cup {Head(drop[t])}, drop' = [drop EXCEPT ![t] = Tail(@)],
         UNCHANGED <<kd_fs, vn_refcount, p_cwd, bootfs_vnode, newvn>>
  PROVE  VfsIInv'
<1>1. /\ VfsTypeOK /\ drop[t] \in Seq(Devs) /\ Len(drop[t]) <= 2
  BY Typed, Zenon DEF VfsPlaced
<1>2. PICK h \in Devs, q \in Seq(Devs) : h = Head(drop[t]) /\ q = Tail(drop[t]) /\ Len(q) <= 2
  <2>1. PICK d \in Devs : d = Head(drop[t])
    BY <1>1
  <2> QED BY <1>1, <2>1, TimesAre, Zenon
<1>3. drop' = [drop EXCEPT ![t] = q] /\ failed' = failed \cup {h} /\ vn_refcount[h] = 1
  BY <1>1, <1>2, Zenon
<1>4. VfsTypeOK'
  BY <1>1, <1>3 DEF VfsTypeOK, VfsPcs
<1>5. VfsPlaced(t)'
  <2>1. vpc'[t] = l /\ drop'[t] = q
    BY <1>1, <1>3 DEF VfsTypeOK
  <2> QED BY <1>2, <2>1, Zenon DEF VfsPlaced
<1>6. \A u \in Callers : u # t => vpc'[u] = vpc[u] /\ newvn'[u] = newvn[u] /\ drop'[u] = drop[u]
  BY <1>1, Zenon DEF VfsTypeOK
<1>8. h \notin failed
  <2>1. PICK i \in Nat, j \in Nat, k \in Nat, u \in Int, v \in Int :
          /\ i = Cardinality(CwdOf(h)) /\ j = Cardinality(FoundBy(h)) /\ k = Cardinality(Releases(h))
          /\ u = One(bootfs_vnode = h) /\ v = One(h \in failed) /\ u >= 0
    <3>1. One(bootfs_vnode = h) \in Int /\ One(h \in failed) \in Int /\ One(bootfs_vnode = h) >= 0
      BY OneIs
    <3> QED BY <3>1, CountedNow, Zenon
  <2>2. i + u + j + k + v = 1
    <3>1. References(h) = i + u + j + k + v
      BY <2>1, RefsAre, Zenon
    <3>2. vn_refcount[h] = References(h)
      BY CountedNow, Zenon DEF Held
    <3> QED BY <1>3, <3>1, <3>2, Zenon
  <2>3. k >= 1
    <3>1. Slot(drop[t], 1) = h
      BY <1>1, <1>2, TimesAre, Zenon
    <3> QED BY <1>3, <2>1, <3>1, ReleasesChange, Zenon
  <2>4. u >= 0
    BY <2>1, Zenon
  <2>5. v # 1
    BY <2>2, <2>3, <2>4
  <2> QED BY <2>1, <2>5, OneIs, Zenon
<1>7. ASSUME NEW d \in Devs PROVE Held(d)'
  <2>1. CwdBy(d, 0) /\ BootBy(d, 0) /\ FindsBy(d, 0)
    BY NoChange, Zenon
  <2>2. One(h = d) \in Int /\ One(h = d) = IF h = d THEN 1 ELSE 0
    BY OneSays, Zenon
  <2>3. ReleasesBy(d, 0 - One(h = d))
    <3>1. Times(q, d) = Times(drop[t], d) - One(h = d)
      BY <1>1, <1>2, TimesAre, Zenon
    <3>2. ReleasesBy(d, Times(q, d) - Times(drop[t], d))
      BY <1>3, ReleasesChange, Zenon
    <3>3. Times(drop[t], d) \in Int
      BY OneIs DEF Times
    <3>4. Times(q, d) - Times(drop[t], d) = 0 - One(h = d)
      BY <2>2, <3>1, <3>3
    <3> QED BY <3>2, <3>4, Zenon
  <2>4. FailedBy(d, One(h = d))
    <3>1. CASE d = h
      <4>1. One(d \in failed) = 0 /\ One(d \in failed') = 1 /\ One(h = d) = 1
        BY <1>3, <1>8, <3>1, OneIs, Zenon
      <4> QED BY <4>1 DEF FailedBy
    <3>2. CASE d # h
      <4>1. d \in failed' <=> d \in failed
        BY <1>3, <3>2, Zenon
      <4>2. One(d \in failed') = One(d \in failed) /\ One(h = d) = 0 /\ One(d \in failed) \in Int
        BY <2>2, <3>2, <4>1, OneIs
      <4> QED BY <4>2 DEF FailedBy
    <3> QED BY <3>1, <3>2
  <2>5. /\ 0 + 0 + 0 + (0 - One(h = d)) + One(h = d) = 0 /\ 0 <= 0
        /\ 0 - One(h = d) \in Int /\ 0 \in Int
    BY <2>2
  <2>6. vn_refcount'[d] = vn_refcount[d] + 0 /\ kd_fs'[d] = kd_fs[d]
    BY CountedNow
  <2>7. /\ vn_refcount'[d] = vn_refcount[d] + (0 + 0 + 0 + (0 - One(h = d)) + One(h = d))
        /\ 0 + 0 + 0 + (0 - One(h = d)) + One(h = d) <= 0 /\ One(h = d) \in Int
    BY <2>2, <2>5, <2>6, Zenon
  <2> QED BY <2>1, <2>3, <2>4, <2>5, <2>6, <2>7, Balance, Zenon
<1> QED BY <1>4, <1>5, <1>6, <1>7, VfsStep, Zenon

\* A vnode to be released, or NULL.
LEMMA NonNullOne ==
  ASSUME NEW o \in Vns, NEW d \in Devs
  PROVE  NonNull(o) \in Seq(Devs) /\ Len(NonNull(o)) <= 2 /\ Times(NonNull(o), d) = One(o = d)
<1>1. CASE o = Nothing
  <2>1. NonNull(o) = << >>
    BY <1>1, Zenon DEF NonNull
  <2>2. << >> \in Seq(Devs) /\ Len(<< >>) <= 2
    OBVIOUS
  <2>3. One(o = d) = 0
    BY <1>1, VfsAssumption, OneSays, Zenon
  <2> QED BY <2>1, <2>2, <2>3, TimesAre, Zenon
<1>2. CASE o \in Devs
  <2>1. NonNull(o) = <<o>>
    BY <1>2, VfsAssumption, Zenon DEF NonNull
  <2>2. Times(<<o>>, d) = One(o = d) /\ <<o>> \in Seq(Devs) /\ Len(<<o>>) <= 2
    BY <1>2, TimesAre, Zenon
  <2> QED BY <2>1, <2>2, Zenon
<1> QED BY <1>1, <1>2, Zenon DEF Vns

\* Such a vnode, and another.
LEMMA NonNullTwo ==
  ASSUME NEW o \in Vns, NEW e \in Devs, NEW d \in Devs
  PROVE  /\ NonNull(o) \o <<e>> \in Seq(Devs) /\ Len(NonNull(o) \o <<e>>) <= 2
         /\ Times(NonNull(o) \o <<e>>, d) = One(o = d) + One(e = d)
<1>1. CASE o = Nothing
  <2>1. NonNull(o) = << >>
    BY <1>1, Zenon DEF NonNull
  <2>2. << >> \o <<e>> = <<e>>
    OBVIOUS
  <2>3. One(o = d) = 0 /\ One(e = d) \in Int
    BY <1>1, VfsAssumption, OneSays, Zenon
  <2>4. 0 + One(e = d) = One(e = d)
    BY <2>3
  <2>5. Times(<<e>>, d) = One(e = d) /\ <<e>> \in Seq(Devs) /\ Len(<<e>>) <= 2
    BY TimesAre, Zenon
  <2> QED BY <2>1, <2>2, <2>3, <2>4, <2>5, Zenon
<1>2. CASE o \in Devs
  <2>1. NonNull(o) = <<o>>
    BY <1>2, VfsAssumption, Zenon DEF NonNull
  <2>2. PICK q : q = <<o>> \o <<e>>
    BY Zenon
  <2>3. q \in Seq(Devs) /\ Len(q) = 2 /\ q[1] = o /\ q[2] = e
    BY <1>2, <2>2
  <2>4. Times(q, d) = One(o = d) + One(e = d) /\ Len(q) <= 2
    BY <2>3 DEF Times, Slot
  <2> QED BY <2>1, <2>2, <2>3, <2>4, Zenon
<1> QED BY <1>1, <1>2, Zenon DEF Vns

\* vfs_setcurdir: the directory found becomes the current one.
LEMMA SetcurdirStep ==
  ASSUME VfsIInv, NEW t \in Callers, vfs_setcurdir(t)
  PROVE  VfsIInv'
<1>1. PICK e \in Devs, o \in Vns : e = newvn[t] /\ o = p_cwd[Kproc]
  BY Typed, Zenon DEF vfs_setcurdir, VfsAt, VfsPlaced, Vns
<1>2. PICK q : q = NonNull(o) \o <<e>>
  BY Zenon
<1>3. /\ VfsTypeOK /\ Nothing \notin Devs /\ drop[t] = << >> /\ UNCHANGED <<kd_fs, failed, bootfs_vnode>>
      /\ vn_refcount' = [vn_refcount EXCEPT ![e] = @ + 1] /\ p_cwd' = [p_cwd EXCEPT ![Kproc] = e]
      /\ newvn' = [newvn EXCEPT ![t] = Nothing] /\ vpc' = [vpc EXCEPT ![t] = "decref"]
      /\ drop' = [drop EXCEPT ![t] = q] /\ Kproc \in Procs
  <2>1. VfsTypeOK /\ Nothing \notin Devs /\ drop[t] = << >> /\ Kproc \in Procs
    BY Typed, Zenon DEF vfs_setcurdir, VfsAt, VfsPlaced
  <2> QED BY <1>1, <1>2, <2>1, Zenon DEF vfs_setcurdir, VOP_INCREF, Drops, VfsGoto, mounts
<1>4. q \in Seq(Devs) /\ Len(q) <= 2
  BY <1>2, NonNullTwo, Zenon
<1>5. VfsTypeOK'
  BY <1>3, <1>4 DEF VfsTypeOK, Vns, VfsPcs
<1>6. VfsPlaced(t)'
  <2>1. vpc'[t] = "decref" /\ drop'[t] = q
    BY <1>3 DEF VfsTypeOK
  <2> QED BY <1>4, <2>1 DEF VfsPlaced
<1>7. \A u \in Callers : u # t => vpc'[u] = vpc[u] /\ newvn'[u] = newvn[u] /\ drop'[u] = drop[u]
  BY <1>3, Zenon DEF VfsTypeOK
<1>8. ASSUME NEW d \in Devs PROVE Held(d)'
  <2>1. BootBy(d, 0) /\ FailedBy(d, 0)
    BY <1>3, NoChange, Zenon
  <2>2. PICK i \in Int, j \in Int : /\ i = One(e = d) /\ j = One(o = d) /\ i = IF e = d THEN 1 ELSE 0
    BY OneSays, Zenon
  <2>3. CwdBy(d, i - j)
    <3>1. CwdBy(d, One(e = d) - One(p_cwd[Kproc] = d))
      BY <1>3, CwdChange, Zenon DEF Vns
    <3> QED BY <1>1, <2>2, <3>1, Zenon
  <2>4. FindsBy(d, 0 - i)
    <3>1. FindsBy(d, One(Nothing = d) - One(e = d))
      BY <1>1, <1>3, FoundChange, Zenon DEF Vns
    <3>2. One(Nothing = d) = 0
      BY <1>3, OneSays, Zenon
    <3> QED BY <2>2, <3>1, <3>2, Zenon
  <2>5. ReleasesBy(d, (j + i) - 0)
    <3>1. ReleasesBy(d, Times(q, d) - Times(drop[t], d))
      BY <1>3, <1>4, ReleasesChange, Zenon
    <3>2. Times(q, d) = One(o = d) + One(e = d)
      <4>1. Times(NonNull(o) \o <<e>>, d) = One(o = d) + One(e = d)
        BY NonNullTwo
      <4> QED BY <1>2, <4>1, Zenon
    <3>3. Times(drop[t], d) = 0
      BY <1>3, TimesAre, Zenon
    <3> QED BY <2>2, <3>1, <3>2, <3>3, Zenon
  <2>6. /\ (i - j) + 0 + (0 - i) + ((j + i) - 0) + 0 = i
        /\ i - j \in Int /\ 0 - i \in Int /\ (j + i) - 0 \in Int /\ 0 \in Int
    OBVIOUS
  <2>7. vn_refcount'[d] = vn_refcount[d] + i
    <3>1. i = IF e = d THEN 1 ELSE 0
      BY <2>2, Zenon
    <3> QED BY <1>3, <3>1 DEF VfsTypeOK
  <2>8. i <= 0 \/ kd_fs[d] = "fs"
    <3>1. kd_fs[e] = "fs"
      BY <1>1, HeldMounted, Zenon
    <3>2. CASE e = d
      BY <3>1, <3>2, Zenon
    <3>3. CASE e # d
      <4>1. i = 0
        BY <2>2, <3>3, Zenon
      <4> QED BY <4>1
    <3> QED BY <3>2, <3>3
  <2>9. kd_fs'[d] = kd_fs[d]
    BY <1>3, Zenon
  <2> QED BY <2>1, <2>3, <2>4, <2>5, <2>6, <2>7, <2>8, <2>9, Balance, Zenon
<1> QED BY <1>5, <1>6, <1>7, <1>8, VfsStep, Zenon

\* vfs_setbootfs: the current directory becomes the boot file system.
LEMMA GetcurdirStep ==
  ASSUME VfsIInv, NEW t \in Callers, setbootfs_getcurdir(t)
  PROVE  VfsIInv'
<1>1. PICK e \in Devs, o \in Vns : e = p_cwd[Kproc] /\ o = bootfs_vnode
  BY Typed, Zenon DEF setbootfs_getcurdir, Vns
<1>2. PICK q : q = NonNull(o)
  BY Zenon
<1>3. /\ VfsTypeOK /\ Nothing \notin Devs /\ drop[t] = << >> /\ UNCHANGED <<kd_fs, failed, p_cwd, newvn>>
      /\ vn_refcount' = [vn_refcount EXCEPT ![e] = @ + 1] /\ bootfs_vnode' = e
      /\ vpc' = [vpc EXCEPT ![t] = "bootfs"] /\ drop' = [drop EXCEPT ![t] = q] /\ Kproc \in Procs
  <2>1. VfsTypeOK /\ Nothing \notin Devs /\ drop[t] = << >> /\ Kproc \in Procs
    BY Typed, Zenon DEF setbootfs_getcurdir, VfsAt, VfsPlaced
  <2> QED BY <1>1, <1>2, <2>1, Zenon DEF setbootfs_getcurdir, VOP_INCREF, Drops, VfsGoto, mounts
<1>4. q \in Seq(Devs) /\ Len(q) <= 2
  BY <1>1, <1>2, NonNullOne, Zenon
<1>5. VfsTypeOK'
  BY <1>3, <1>4 DEF VfsTypeOK, Vns, VfsPcs
<1>6. VfsPlaced(t)'
  <2>1. vpc'[t] = "bootfs" /\ drop'[t] = q
    BY <1>3 DEF VfsTypeOK
  <2> QED BY <1>4, <2>1 DEF VfsPlaced
<1>7. \A u \in Callers : u # t => vpc'[u] = vpc[u] /\ newvn'[u] = newvn[u] /\ drop'[u] = drop[u]
  BY <1>3, Zenon DEF VfsTypeOK
<1>8. ASSUME NEW d \in Devs PROVE Held(d)'
  <2>1. CwdBy(d, 0) /\ FindsBy(d, 0) /\ FailedBy(d, 0)
    BY <1>3, NoChange, Zenon
  <2>2. PICK i \in Int, j \in Int : /\ i = One(e = d) /\ j = One(o = d) /\ i = IF e = d THEN 1 ELSE 0
    BY OneSays, Zenon
  <2>3. BootBy(d, i - j)
    <3>1. i = j + (i - j)
      OBVIOUS
    <3> QED BY <1>1, <1>3, <2>2, <3>1, Zenon DEF BootBy
  <2>5. ReleasesBy(d, j - 0)
    <3>1. ReleasesBy(d, Times(q, d) - Times(drop[t], d))
      BY <1>3, <1>4, ReleasesChange, Zenon
    <3>2. Times(q, d) = One(o = d)
      <4>1. Times(NonNull(o), d) = One(o = d)
        BY NonNullOne
      <4> QED BY <1>2, <4>1, Zenon
    <3>3. Times(drop[t], d) = 0
      BY <1>3, TimesAre, Zenon
    <3> QED BY <2>2, <3>1, <3>2, <3>3, Zenon
  <2>6. 0 + (i - j) + 0 + (j - 0) + 0 = i /\ i - j \in Int /\ j - 0 \in Int /\ 0 \in Int
    OBVIOUS
  <2>7. vn_refcount'[d] = vn_refcount[d] + i
    <3>1. i = IF e = d THEN 1 ELSE 0
      BY <2>2, Zenon
    <3> QED BY <1>3, <3>1 DEF VfsTypeOK
  <2>8. i <= 0 \/ kd_fs[d] = "fs"
    <3>1. kd_fs[e] = "fs"
      BY <1>1, <1>3, HeldMounted, Zenon
    <3>2. CASE e = d
      BY <3>1, <3>2, Zenon
    <3>3. CASE e # d
      <4>1. i = 0
        BY <2>2, <3>3, Zenon
      <4> QED BY <4>1
    <3> QED BY <3>2, <3>3
  <2>9. kd_fs'[d] = kd_fs[d]
    BY <1>3, Zenon
  <2> QED BY <2>1, <2>3, <2>5, <2>6, <2>7, <2>8, <2>9, Balance, Zenon
<1> QED BY <1>5, <1>6, <1>7, <1>8, VfsStep, Zenon

\* proc_create_runprogram: a new process has the current directory too.
LEMMA InheritStep ==
  ASSUME VfsIInv, NEW t \in Callers, proc_create_runprogram(t)
  PROVE  VfsIInv'
<1>1. PICK e \in Devs : e = p_cwd[Kproc]
  BY Typed, Zenon DEF proc_create_runprogram, Vns
<1>2. PICK k \in Kids : p_cwd[k] = Nothing /\ p_cwd' = [p_cwd EXCEPT ![k] = e]
  BY <1>1, Zenon DEF proc_create_runprogram
<1>3. /\ VfsTypeOK /\ Nothing \notin Devs /\ VfsPlaced(t) /\ Kproc \in Procs /\ k \in Procs
      /\ UNCHANGED <<kd_fs, failed, bootfs_vnode, vpc, newvn, drop>>
      /\ vn_refcount' = [vn_refcount EXCEPT ![e] = @ + 1]
  <2>1. VfsTypeOK /\ Nothing \notin Devs /\ VfsPlaced(t) /\ Kproc \in Procs
    BY Typed, Zenon
  <2>2. k \in Procs
    BY DEF Procs
  <2> QED BY <1>1, <2>1, <2>2, Zenon DEF proc_create_runprogram, VOP_INCREF, mounts
<1>5. VfsTypeOK'
  BY <1>2, <1>3 DEF VfsTypeOK, Vns
<1>6. VfsPlaced(t)'
  BY <1>3, Zenon DEF VfsPlaced
<1>7. \A u \in Callers : u # t => vpc'[u] = vpc[u] /\ newvn'[u] = newvn[u] /\ drop'[u] = drop[u]
  BY <1>3, Zenon
<1>8. ASSUME NEW d \in Devs PROVE Held(d)'
  <2>1. BootBy(d, 0) /\ FindsBy(d, 0) /\ ReleasesBy(d, 0) /\ FailedBy(d, 0)
    BY <1>3, NoChange, Zenon
  <2>2. PICK i \in Int : i = One(e = d) /\ i = IF e = d THEN 1 ELSE 0
    BY OneSays, Zenon
  <2>3. CwdBy(d, i - 0)
    <3>1. CwdBy(d, One(e = d) - One(p_cwd[k] = d))
      BY <1>2, <1>3, CwdChange, Zenon DEF Vns
    <3>2. One(p_cwd[k] = d) = 0
      BY <1>2, <1>3, OneSays, Zenon
    <3> QED BY <2>2, <3>1, <3>2, Zenon
  <2>6. (i - 0) + 0 + 0 + 0 + 0 = i /\ i - 0 \in Int /\ 0 \in Int
    OBVIOUS
  <2>7. vn_refcount'[d] = vn_refcount[d] + i
    <3>1. i = IF e = d THEN 1 ELSE 0
      BY <2>2, Zenon
    <3> QED BY <1>3, <3>1 DEF VfsTypeOK
  <2>8. i <= 0 \/ kd_fs[d] = "fs"
    <3>1. kd_fs[e] = "fs"
      BY <1>1, <1>3, HeldMounted, Zenon
    <3>2. CASE e = d
      BY <3>1, <3>2, Zenon
    <3>3. CASE e # d
      <4>1. i = 0
        BY <2>2, <3>3, Zenon
      <4> QED BY <4>1
    <3> QED BY <3>2, <3>3
  <2>9. kd_fs'[d] = kd_fs[d]
    BY <1>3, Zenon
  <2> QED BY <2>1, <2>3, <2>6, <2>7, <2>8, <2>9, Balance, Zenon
<1> QED BY <1>5, <1>6, <1>7, <1>8, VfsStep, Zenon

\* Only a volume nobody has a directory of is unmounted, and swap is no file
\* system.
LEMMA MountingStep ==
  ASSUME VfsIInv, NEW t \in Callers, Mounting(t)
  PROVE  VfsIInv'
<1>1. VfsTypeOK /\ VfsPlaced(t) /\ UNCHANGED <<vn_refcount, failed, p_cwd, bootfs_vnode, vpc, newvn, drop>>
  BY Typed, Zenon DEF Mounting, refs
<1>2. /\ kd_fs' \in [Devs -> {"NULL", "SWAP_FS", "fs"}]
      /\ \A d \in Devs : kd_fs[d] = "fs" /\ vn_refcount[d] # 0 => kd_fs'[d] = "fs"
  <2>1. kd_fs \in [Devs -> {"NULL", "SWAP_FS", "fs"}]
    BY <1>1, Zenon DEF VfsTypeOK
  <2>2. CASE \E e \in Devs : vfs_mount(e) \/ vfs_swapon(e) \/ vfs_swapoff(e) \/ vfs_unmount(e)
    BY <2>1, <2>2 DEF vfs_mount, vfs_swapon, vfs_swapoff, vfs_unmount, unmountable, SetFs
  <2>3. CASE \E S \in SUBSET Devs : vfs_unmountall(S)
    BY <2>1, <2>3 DEF vfs_unmountall, unmountable
  <2> QED BY <2>2, <2>3, Zenon DEF Mounting
<1>3. VfsTypeOK'
  BY <1>1, <1>2, Zenon DEF VfsTypeOK
<1>4. VfsPlaced(t)'
  BY <1>1, Zenon DEF VfsPlaced
<1>5. ASSUME NEW d \in Devs PROVE Held(d)'
  <2>1. Held(d)
    BY CountedNow, Zenon
  <2>2. Counted(d)' /\ References(d)' = References(d) /\ vn_refcount'[d] = vn_refcount[d]
    BY <1>1, <2>1, Zenon DEF Held, Counted, CwdOf, FoundBy, Releases, References
  <2> QED BY <1>2, <2>1, <2>2, Zenon DEF Held
<1> QED BY <1>1, <1>3, <1>4, <1>5, VfsStep, Zenon

\* Steps that find a directory.
LEMMA FindingSteps ==
  ASSUME VfsIInv, NEW t \in Callers, vfs_open(t) \/ vfs_chdir(t) \/ vfs_getcwd(t) \/ vfs_setbootfs(t)
  PROVE  VfsIInv'
<1>1. /\ VfsTypeOK /\ VfsPlaced(t) /\ Kproc \in Procs /\ p_cwd[Kproc] \in Vns /\ bootfs_vnode \in Vns
      /\ VfsAt(t, "out") /\ newvn[t] = Nothing /\ drop[t] = << >>
      /\ UNCHANGED <<kd_fs, failed, p_cwd, bootfs_vnode, drop>>
  <2>1. /\ VfsTypeOK /\ VfsPlaced(t) /\ Kproc \in Procs /\ p_cwd[Kproc] \in Vns /\ bootfs_vnode \in Vns
    BY Typed, Zenon
  <2>2. VfsAt(t, "out") /\ newvn[t] = Nothing /\ UNCHANGED <<kd_fs, failed, p_cwd, bootfs_vnode, drop>>
    BY Zenon DEF vfs_open, vfs_chdir, vfs_getcwd, vfs_setbootfs, mounts
  <2>3. drop[t] = << >>
    BY <2>1, <2>2, Zenon DEF VfsPlaced, VfsAt
  <2> QED BY <2>1, <2>2, <2>3, Zenon
<1>2. \A e \in getdevice : e \in Devs /\ kd_fs[e] = "fs"
  <2>1. \A e \in Devs : p_cwd[Kproc] = e \/ bootfs_vnode = e => kd_fs[e] = "fs"
    BY <1>1, HeldMounted, Zenon
  <2> QED BY <1>1, <2>1, Zenon DEF getdevice, vfs_getroot, Vns
<1>3. \E e \in getdevice : VOP_INCREF(e) /\ newvn' = [newvn EXCEPT ![t] = e]
  <2>1. vfs_getcwd(t) => p_cwd[Kproc] \in getdevice
    BY Zenon DEF vfs_getcwd, getdevice
  <2>2. \A e \in vfs_getroot : e \in getdevice
    BY Zenon DEF getdevice
  <2> QED BY <2>1, <2>2, Zenon DEF vfs_open, vfs_chdir, vfs_getcwd, vfs_setbootfs
<1>4. PICK e \in Devs : kd_fs[e] = "fs" /\ VOP_INCREF(e) /\ newvn' = [newvn EXCEPT ![t] = e]
  BY <1>2, <1>3, Zenon
<1>5. \E l \in {"out", "setcurdir", "getcwd"} : vpc' = [vpc EXCEPT ![t] = l]
  <2>1. vpc = [vpc EXCEPT ![t] = "out"]
    BY <1>1 DEF VfsTypeOK, VfsAt
  <2> QED BY <2>1, Zenon DEF vfs_open, vfs_chdir, vfs_getcwd, vfs_setbootfs, VfsGoto
<1>6. PICK l \in {"out", "setcurdir", "getcwd"} : vpc' = [vpc EXCEPT ![t] = l]
  BY <1>5, Zenon
<1>7. l \in VfsPcs
  BY DEF VfsPcs
<1> QED BY <1>1, <1>4, <1>6, <1>7, FindStep, Zenon

\* Steps that move on, with every reference where it was.
LEMMA QuietSteps ==
  ASSUME VfsIInv, NEW t \in Callers,
         setcurdir_gettype(t) \/ setbootfs_fails(t) \/ root_decref_last(t) \/ decref_done(t)
  PROVE  VfsIInv'
<1>1. /\ VfsTypeOK /\ VfsPlaced(t) /\ UNCHANGED <<kd_fs, vn_refcount, failed, p_cwd, bootfs_vnode, newvn, drop>>
  <2>1. UNCHANGED <<kd_fs, vn_refcount, failed, p_cwd, bootfs_vnode, newvn, drop>>
    BY Zenon DEF setcurdir_gettype, setbootfs_fails, root_decref_last, decref_done, mounts, refs
  <2> QED BY <2>1, Typed, Zenon
<1>2. \E l \in VfsPcs :
        /\ vpc' = [vpc EXCEPT ![t] = l]
        /\ \/ l = "setcurdir_swap" /\ newvn[t] # Nothing /\ drop[t] = << >>
           \/ l \in {"out", "getcurdir"} /\ drop[t] = << >>
           \/ l \in {"reclaim", "bootfs_reclaim"} /\ drop[t] # << >>
  <2>1. {"setcurdir_swap", "out", "getcurdir", "reclaim", "bootfs_reclaim"} \subseteq VfsPcs
    BY DEF VfsPcs
  <2>2. CASE setcurdir_gettype(t)
    BY <1>1, <2>1, <2>2, Zenon DEF setcurdir_gettype, VfsPlaced, VfsAt, VfsGoto
  <2>3. CASE setbootfs_fails(t)
    BY <1>1, <2>1, <2>3, Zenon DEF setbootfs_fails, VfsPlaced, VfsAt, VfsGoto
  <2>4. CASE root_decref_last(t)
    BY <2>1, <2>4, Zenon DEF root_decref_last, VfsGoto
  <2>5. CASE decref_done(t)
    BY <2>1, <2>5, Zenon DEF decref_done, VfsGoto
  <2> QED BY <2>2, <2>3, <2>4, <2>5, Zenon
<1>3. PICK l \in VfsPcs :
        /\ vpc' = [vpc EXCEPT ![t] = l]
        /\ \/ l = "setcurdir_swap" /\ newvn[t] # Nothing /\ drop[t] = << >>
           \/ l \in {"out", "getcurdir"} /\ drop[t] = << >>
           \/ l \in {"reclaim", "bootfs_reclaim"} /\ drop[t] # << >>
  BY <1>2, Zenon
<1>4. VfsPlaced(t)'
  <2>1. vpc'[t] = l
    BY <1>1, <1>3, Zenon DEF VfsTypeOK
  <2> QED BY <1>1, <1>3, <2>1 DEF VfsPlaced
<1> QED BY <1>1, <1>3, <1>4, QuietStep, Zenon

\* Steps that release a reference.
LEMMA ReleasingSteps ==
  ASSUME VfsIInv, NEW t \in Callers, root_decref(t) \/ vop_reclaim(t) \/ vop_reclaim_fails(t)
  PROVE  VfsIInv'
<1>1. VfsTypeOK /\ VfsPlaced(t)
  BY Typed, Zenon
<1>2. drop[t] # << >>
  BY <1>1, Zenon DEF VfsPlaced, root_decref, vop_reclaim, vop_reclaim_fails
<1>3. \E l \in {"decref", "bootfs"} : vpc' = [vpc EXCEPT ![t] = l]
  <2>1. vpc[t] \in {"decref", "bootfs"} => vpc = [vpc EXCEPT ![t] = vpc[t]]
    BY <1>1 DEF VfsTypeOK
  <2> QED BY <2>1, Zenon DEF root_decref, vop_reclaim, vop_reclaim_fails, Reclaimed, VfsGoto
<1>4. PICK l \in {"decref", "bootfs"} : vpc' = [vpc EXCEPT ![t] = l]
  BY <1>3, Zenon
<1>5. CASE root_decref(t) \/ vop_reclaim(t)
  <2>1. /\ vn_refcount' = [vn_refcount EXCEPT ![Head(drop[t])] = @ - 1] /\ drop' = [drop EXCEPT ![t] = Tail(@)]
        /\ UNCHANGED <<kd_fs, failed, p_cwd, bootfs_vnode, newvn>>
    BY <1>5, Zenon DEF root_decref, vop_reclaim, Reclaimed, mounts
  <2> QED BY <1>2, <1>4, <2>1, ReleaseStep, Zenon
<1>6. CASE vop_reclaim_fails(t)
  <2>1. /\ vn_refcount[Head(drop[t])] = 1 /\ failed' = failed \cup {Head(drop[t])} /\ drop' = [drop EXCEPT ![t] = Tail(@)]
        /\ UNCHANGED <<kd_fs, vn_refcount, p_cwd, bootfs_vnode, newvn>>
    BY <1>6, Zenon DEF vop_reclaim_fails, Reclaimed, mounts
  <2> QED BY <1>2, <1>4, <2>1, ReclaimFailsStep, Zenon
<1> QED BY <1>5, <1>6

----------------------------------------------------------------------------
(* The theorem                                                             *)

\* Nothing is mounted and nobody has a directory at first.
LEMMA VfsInitIInv == VfsInit => VfsIInv
<1> SUFFICES ASSUME VfsInit PROVE VfsIInv
  OBVIOUS
<1>1. VfsTypeOK
  BY DEF VfsInit, VfsTypeOK, Vns, VfsPcs, Procs
<1>2. ASSUME NEW t \in Callers PROVE VfsPlaced(t)
  <2>1. vpc[t] = "out" /\ drop[t] = << >>
    BY Zenon DEF VfsInit
  <2> QED BY <2>1 DEF VfsPlaced
<1>3. ASSUME NEW d \in Devs PROVE Counted(d) /\ vn_refcount[d] = References(d) /\ References(d) = 0
  <2>1. CwdOf(d) = {} /\ FoundBy(d) = {}
    BY VfsAssumption DEF VfsInit, CwdOf, FoundBy
  <2>2. Releases(d) = {}
    <3>1. ASSUME NEW x \in Callers \X {1, 2} PROVE ~(x[2] <= Len(drop[x[1]]))
      BY DEF VfsInit
    <3> QED BY <3>1, Zenon DEF Releases
  <2>3. One(bootfs_vnode = d) = 0 /\ One(d \in failed) = 0
    <3>1. bootfs_vnode # d /\ d \notin failed
      BY VfsAssumption DEF VfsInit
    <3> QED BY <3>1, Zenon DEF One
  <2>4. References(d) = 0 + 0 + 0 + 0 + 0
    <3>1. Cardinality(CwdOf(d)) = 0 /\ Cardinality(FoundBy(d)) = 0 /\ Cardinality(Releases(d)) = 0
      BY <2>1, <2>2, FS_EmptySet, Zenon
    <3>2. References(d) = Cardinality(CwdOf(d)) + One(bootfs_vnode = d) + Cardinality(FoundBy(d))
                            + Cardinality(Releases(d)) + One(d \in failed)
      BY RefsAre, Zenon
    <3> QED BY <2>3, <3>1, <3>2
  <2>5. vn_refcount[d] = 0
    BY Zenon DEF VfsInit
  <2>6. References(d) = 0
    BY <2>4
  <2> QED BY <2>1, <2>2, <2>5, <2>6, FS_EmptySet, Zenon DEF Counted
<1>4. DirectoriesStayMounted
  BY <1>3, Zenon DEF DirectoriesStayMounted, VnodeCountExact, ReferencedIsMounted
<1> QED BY <1>1, <1>2, <1>3, <1>4, Zenon DEF VfsIInv

\* Every step keeps the invariant.
LEMMA VfsNextIInv == VfsIInv /\ [VfsNext]_vfs_vars => VfsIInv'
<1> SUFFICES ASSUME VfsIInv, [VfsNext]_vfs_vars PROVE VfsIInv'
  OBVIOUS
<1>1. CASE VfsNext
  <2>1. PICK t \in Callers : \/ vfs_open(t) \/ vfs_close(t) \/ Mounting(t)
                             \/ CurdirSteps(t) \/ BootfsSteps(t) \/ DecrefSteps(t)
    BY <1>1, Zenon DEF VfsNext
  <2>2. CASE vfs_open(t) \/ vfs_chdir(t) \/ vfs_getcwd(t) \/ vfs_setbootfs(t)
    BY <2>2, FindingSteps, Zenon
  <2>3. CASE vfs_close(t) \/ getcwd_name(t)
    <3>1. /\ drop[t] = << >> /\ newvn[t] # Nothing /\ Drops(t, <<newvn[t]>>) /\ newvn' = [newvn EXCEPT ![t] = Nothing]
          /\ VfsGoto(t, "decref") /\ UNCHANGED <<kd_fs, vn_refcount, failed, p_cwd, bootfs_vnode>>
      <4>1. VfsPlaced(t)
        BY Typed, Zenon
      <4>2. CASE vfs_close(t)
        BY <4>1, <4>2 DEF vfs_close, VfsAt, VfsPlaced, mounts, refs
      <4>3. CASE getcwd_name(t)
        BY <4>1, <4>3 DEF getcwd_name, VfsAt, VfsPlaced, mounts, refs
      <4> QED BY <2>3, <4>2, <4>3, Zenon
    <3> QED BY <3>1, FoundGivenUp, Zenon
  <2>4. CASE vfs_clearcurdir(t)
    <3>1. /\ drop[t] = << >> /\ p_cwd[Kproc] # Nothing /\ Drops(t, <<p_cwd[Kproc]>>) /\ VfsGoto(t, "decref")
          /\ p_cwd' = [p_cwd EXCEPT ![Kproc] = Nothing] /\ Kproc \in Procs
          /\ UNCHANGED <<kd_fs, vn_refcount, failed, bootfs_vnode, newvn>>
      <4>1. VfsPlaced(t) /\ Kproc \in Procs
        BY Typed, Zenon
      <4> QED BY <2>4, <4>1 DEF vfs_clearcurdir, VfsAt, VfsPlaced, mounts, refs
    <3> QED BY <3>1, CwdGivenUp, Zenon
  <2>5. CASE proc_destroy(t)
    <3>1. /\ drop[t] = << >> /\ VfsGoto(t, "decref") /\ UNCHANGED <<kd_fs, vn_refcount, failed, bootfs_vnode, newvn>>
      <4>1. VfsPlaced(t)
        BY Typed, Zenon
      <4> QED BY <2>5, <4>1 DEF proc_destroy, VfsAt, VfsPlaced, mounts, refs
    <3>2. PICK k \in Kids : /\ p_cwd[k] # Nothing /\ Drops(t, <<p_cwd[k]>>)
                            /\ p_cwd' = [p_cwd EXCEPT ![k] = Nothing]
      BY <2>5, Zenon DEF proc_destroy
    <3>3. k \in Procs
      BY Zenon DEF Procs
    <3> QED BY <3>1, <3>2, <3>3, CwdGivenUp, Zenon
  <2>6. CASE setcurdir_gettype(t) \/ setbootfs_fails(t) \/ root_decref_last(t) \/ decref_done(t)
    BY <2>6, QuietSteps, Zenon
  <2>7. CASE root_decref(t) \/ vop_reclaim(t) \/ vop_reclaim_fails(t)
    BY <2>7, ReleasingSteps, Zenon
  <2>8. CASE vfs_setcurdir(t)
    BY <2>8, SetcurdirStep, Zenon
  <2>9. CASE setbootfs_getcurdir(t)
    BY <2>9, GetcurdirStep, Zenon
  <2>10. CASE vfs_clearbootfs(t)
    BY <2>10, BootfsGivenUp, Zenon
  <2>11. CASE proc_create_runprogram(t)
    BY <2>11, InheritStep, Zenon
  <2>12. CASE Mounting(t)
    BY <2>12, MountingStep, Zenon
  <2> QED BY <2>1, <2>2, <2>3, <2>4, <2>5, <2>6, <2>7, <2>8, <2>9, <2>10, <2>11, <2>12, Zenon
             DEF CurdirSteps, BootfsSteps, DecrefSteps
<1>2. CASE UNCHANGED vfs_vars
  <2>1. UNCHANGED <<kd_fs, vn_refcount, failed, p_cwd, bootfs_vnode, vpc, newvn, drop>>
    BY <1>2, Zenon DEF vfs_vars
  <2>2. VfsTypeOK'
    BY <2>1, Zenon DEF VfsIInv, VfsTypeOK
  <2>3. \A t \in Callers : VfsPlaced(t)'
    BY <2>1, Zenon DEF VfsIInv, VfsPlaced
  <2>4. \A d \in Devs : Counted(d)' /\ References(d)' = References(d) /\ vn_refcount'[d] = vn_refcount[d]
    BY <2>1, Zenon DEF VfsIInv, Counted, CwdOf, FoundBy, Releases, References
  <2>5. DirectoriesStayMounted'
    BY <2>1, <2>4, Zenon DEF VfsIInv, DirectoriesStayMounted, VnodeCountExact, ReferencedIsMounted
  <2> QED BY <2>2, <2>3, <2>4, <2>5, Zenon DEF VfsIInv
<1> QED BY <1>1, <1>2

\* Whatever threads and processes there are, the count of a directory's vnode
\* is the number of references to it, and the volume of a directory somebody
\* has (a current directory, the boot file system, one open, found or about to
\* be released) is mounted.
THEOREM VfsDirectoriesStayMounted == VfsSpec => []DirectoriesStayMounted
<1>1. VfsIInv => DirectoriesStayMounted
  BY Zenon DEF VfsIInv
<1> QED BY <1>1, VfsInitIInv, VfsNextIInv, PTL DEF VfsSpec

============================================================================
