---------------------------- MODULE DeviceProofs ----------------------------
(***************************************************************************)
(* For any number of threads and sectors: the disk driver keeps its card,  *)
(* its semaphores and its requests in step.                                *)
(*                                                                         *)
(* For any number of writers and characters: the console driver keeps its  *)
(* card, its semaphores and its input ring in step.                        *)
(***************************************************************************)
EXTENDS Lhd, Console, FiniteSetTheorems, TLAPS

-----------------------------------------------------------------------------
(* Lhd: the disk driver                                                    *)

Values == Data \cup {None}

UioType == [rw : {"none", "read", "write"}, sector : Int, resid : Int, data : Values, first : Int,
            raw : BOOLEAN]
CardType == [stat : {"idle", "working", "ok", "media"}, rw : {"none", "read", "write"}, sect : Int, buf : Values]

LhdTypeOK ==
  /\ disk \in [Sectors -> Values]
  /\ card \in CardType
  /\ lh_clear \in {0, 1} /\ lh_done \in Nat /\ lh_result \in {0, 1}
  /\ pc \in [Threads -> {"out", "lhd_io", "wait", "returned"}]
  /\ uio \in [Threads -> UioType]
  /\ result \in [Threads -> {0, EIO, EFAULT}]
  /\ tries \in [Threads -> Nat] /\ wrote \in [Threads -> SUBSET Sectors]
  /\ got \in [Threads -> Seq(Values)]
  /\ seen \in [Threads -> [Sectors -> SUBSET Values]]

\* A request lies on the disk, and a read has seen what is there now.
RequestsFit ==
  \A t \in Threads :
    /\ 0 <= uio[t].first /\ uio[t].first <= uio[t].sector
    /\ 0 <= uio[t].resid /\ uio[t].sector + uio[t].resid <= NumSectors
    /\ uio[t].rw = "read" => \A s \in Sectors : disk[s] \in seen[t][s]

\* The card works for the thread that waits.
CardServes ==
  /\ card.stat = "working" => card.sect \in Sectors
  /\ \A t \in Threads : pc[t] = "wait" =>
       /\ uio[t].rw = card.rw
       /\ uio[t].rw = "read" =>
            /\ card.sect = uio[t].sector /\ uio[t].resid > 0
            /\ card.stat = "ok" \/ (lh_done = 1 /\ lh_result = 0) => card.buf \in seen[t][card.sect]

\* What a read has delivered so far.
Delivered ==
  \A t \in Threads :
    uio[t].rw = "read" =>
      /\ Len(got[t]) = uio[t].sector - uio[t].first
      /\ \A i \in 1 .. Len(got[t]) : got[t][i] \in seen[t][uio[t].first + i - 1]

\* What a write has written so far, unless it has been retried: the sectors
\* before the one that the card works on.
WrittenBy(t) ==
  uio[t].rw = "write" /\ tries[t] = 0 =>
    /\ pc[t] = "lhd_io" => wrote[t] = uio[t].first .. uio[t].sector - 1
    /\ pc[t] = "wait" =>
         /\ uio[t].first < uio[t].sector
         /\ card.sect = uio[t].sector - 1 /\ card.buf = uio[t].data
         /\ card.stat = "working" => wrote[t] = uio[t].first .. uio[t].sector - 2
         /\ card.stat = "ok" \/ (lh_done = 1 /\ lh_result = 0) =>
              wrote[t] = uio[t].first .. uio[t].sector - 1
    /\ pc[t] = "returned" /\ result[t] = 0 =>
         uio[t].resid = 0 /\ wrote[t] = uio[t].first .. uio[t].sector - 1

Written == \A t \in Threads : WrittenBy(t)

LhdIInv == LhdTypeOK /\ OneOperation /\ RequestsFit /\ CardServes /\ Delivered /\ Written

\* The disk is idle at first.
LEMMA LhdInitIInv == ASSUME Init PROVE LhdIInv
<1>1. LhdTypeOK
  BY DEF Init, LhdTypeOK, NoUio, UioType, CardType, Values, EIO, EFAULT
<1>2. OneOperation
  BY DEF Init, OneOperation, Owner
<1>3. RequestsFit /\ CardServes /\ Delivered /\ Written
  BY LhdAssumption DEF Init, RequestsFit, CardServes, Delivered, Written, WrittenBy, NoUio
<1> QED BY <1>1, <1>2, <1>3 DEF LhdIInv

\* A step that is not of a thread, and not of the card if that thread waits.
LEMMA WrittenSame ==
  ASSUME NEW v, WrittenBy(v), pc'[v] = pc[v], uio'[v] = uio[v], tries'[v] = tries[v], wrote'[v] = wrote[v],
         result'[v] = result[v], pc[v] # "wait" \/ UNCHANGED <<card, lh_done, lh_result>>
  PROVE  WrittenBy(v)'
BY Zenon DEF WrittenBy

\* sfs_rwblock.
LEMMA RwblockIInv == ASSUME LhdIInv, NEW t \in Threads, sfs_rwblock(t) PROVE LhdIInv'
<1>1. PICK rw \in {"read", "write"}, s \in Sectors, n \in 1 .. MaxLen, d \in Data, raw \in BOOLEAN :
        /\ s + n <= NumSectors /\ (raw => t \in RawThreads)
        /\ uio' = [uio EXCEPT ![t] = [rw |-> rw, sector |-> s, resid |-> n, first |-> s, raw |-> raw,
                                      data |-> IF rw = "write" THEN d ELSE None]]
  BY Zenon DEF sfs_rwblock
<1> DEFINE u == [rw |-> rw, sector |-> s, resid |-> n, first |-> s, raw |-> raw,
                 data |-> IF rw = "write" THEN d ELSE None]
<1>2. /\ u \in UioType /\ u.rw = rw /\ u.sector = s /\ u.first = s /\ u.resid = n
      /\ s \in Int /\ n \in Int /\ n > 0 /\ 0 <= s
  BY LhdAssumption DEF UioType, Values, Sectors
<1>3. uio' = [uio EXCEPT ![t] = u]
  BY <1>1
<1> HIDE DEF u
<1>4. uio'[t] = u /\ \A v \in Threads : v # t => uio'[v] = uio[v]
  BY <1>3 DEF LhdIInv, LhdTypeOK
<1> DEFINE e == [x \in Sectors |-> IF u.rw = "read" THEN {disk[x]} ELSE {}]
<1>5. /\ pc[t] = "out" /\ pc' = [pc EXCEPT ![t] = "lhd_io"]
      /\ got' = [got EXCEPT ![t] = <<>>]
      /\ seen' = [seen EXCEPT ![t] = e]
      /\ tries' = [tries EXCEPT ![t] = 0] /\ wrote' = [wrote EXCEPT ![t] = {}]
      /\ UNCHANGED <<disk, card, lh_clear, lh_done, lh_result, result>>
  BY <1>4, Zenon DEF sfs_rwblock, Goto
<1>6. e \in [Sectors -> SUBSET Values]
  BY DEF LhdIInv, LhdTypeOK
<1>7. u.rw = "read" => \A x \in Sectors : disk[x] \in e[x]
  OBVIOUS
<1> HIDE DEF e
<1>8. LhdTypeOK'
  BY <1>2, <1>3, <1>5, <1>6 DEF LhdIInv, LhdTypeOK
<1>9. OneOperation'
  BY <1>5 DEF LhdIInv, LhdTypeOK, OneOperation, Owner
<1>10. RequestsFit'
  BY <1>1, <1>2, <1>4, <1>5, <1>7 DEF LhdIInv, LhdTypeOK, RequestsFit
<1>11. CardServes'
  BY <1>4, <1>5 DEF LhdIInv, LhdTypeOK, CardServes
<1>12. Delivered'
  BY <1>2, <1>4, <1>5 DEF LhdIInv, LhdTypeOK, Delivered
<1>13. Written'
  <2>1. s .. s - 1 = {}
    BY <1>2
  <2>2. /\ wrote'[t] = {} /\ pc'[t] = "lhd_io"
        /\ \A v \in Threads : v # t => wrote'[v] = wrote[v] /\ pc'[v] = pc[v] /\ tries'[v] = tries[v]
    BY <1>5 DEF LhdIInv, LhdTypeOK
  <2>3. WrittenBy(t)'
    BY <1>2, <1>4, <2>1, <2>2, Zenon DEF WrittenBy
  <2>4. ASSUME NEW v \in Threads, v # t PROVE WrittenBy(v)'
    BY <1>4, <1>5, <2>2, <2>4, WrittenSame, Zenon DEF LhdIInv, Written
  <2> QED BY <2>3, <2>4, Zenon DEF Written
<1> QED BY <1>8, <1>9, <1>10, <1>11, <1>12, <1>13 DEF LhdIInv

\* The end of lhd_io, a fault, and a retry.
LEMMA IoReturnIInv ==
  ASSUME LhdIInv, NEW t \in Threads, io_return(t) \/ io_fault(t) \/ rwblock_retry(t) PROVE LhdIInv'
<1>1. /\ pc[t] # "wait" /\ \E p \in {"lhd_io", "returned"} : pc' = [pc EXCEPT ![t] = p]
      /\ result' \in [Threads -> {0, EIO, EFAULT}]
      /\ tries' \in [Threads -> Nat]
      /\ UNCHANGED <<disk, card, lh_clear, lh_done, lh_result, uio, got, seen, wrote>>
  <2>1. result \in [Threads -> {0, EIO, EFAULT}] /\ tries \in [Threads -> Nat]
    BY DEF LhdIInv, LhdTypeOK
  <2>2. CASE io_return(t)
    BY <2>1, <2>2 DEF io_return, Goto
  <2>3. CASE io_fault(t)
    BY <2>1, <2>3 DEF io_fault, Goto
  <2>4. CASE rwblock_retry(t)
    BY <2>1, <2>4 DEF rwblock_retry, Goto
  <2> QED BY <2>2, <2>3, <2>4
<1>2. LhdTypeOK'
  BY <1>1, Zenon DEF LhdIInv, LhdTypeOK
<1>3. OneOperation'
  BY <1>1 DEF LhdIInv, LhdTypeOK, OneOperation, Owner
<1>4. RequestsFit' /\ Delivered'
  BY <1>1 DEF LhdIInv, RequestsFit, Delivered
<1>5. CardServes'
  BY <1>1 DEF LhdIInv, LhdTypeOK, CardServes
<1>6. Written'
  <2>1. \A v \in Threads : v # t => pc'[v] = pc[v] /\ result'[v] = result[v] /\ tries'[v] = tries[v]
    BY DEF io_return, io_fault, rwblock_retry, Goto, LhdIInv, LhdTypeOK
  <2>2. ASSUME NEW v \in Threads, v # t PROVE WrittenBy(v)'
    BY <1>1, <2>1, <2>2, WrittenSame, Zenon DEF LhdIInv, Written
  <2>3. CASE io_return(t)
    <3>1. pc[t] = "lhd_io" /\ pc'[t] = "returned" /\ tries' = tries /\ uio[t].resid = 0
      BY <2>3 DEF io_return, Goto, LhdIInv, LhdTypeOK
    <3>2. WrittenBy(t)'
      BY <1>1, <3>1, Zenon DEF LhdIInv, Written, WrittenBy
    <3> QED BY <2>2, <3>2, Zenon DEF Written
  <2>4. CASE io_fault(t)
    <3>1. pc'[t] = "returned" /\ result'[t] # 0
      BY <2>4 DEF io_fault, Goto, LhdIInv, LhdTypeOK, EFAULT
    <3>2. WrittenBy(t)'
      BY <3>1, Zenon DEF WrittenBy
    <3> QED BY <2>2, <3>2, Zenon DEF Written
  <2>5. CASE rwblock_retry(t)
    <3>1. PICK n \in Nat : n = tries[t]
      BY DEF LhdIInv, LhdTypeOK
    <3>2. tries'[t] = n + 1
      BY <2>5, <3>1 DEF rwblock_retry, LhdIInv, LhdTypeOK
    <3>3. tries'[t] # 0
      BY <3>2
    <3>4. WrittenBy(t)'
      BY <3>3, Zenon DEF WrittenBy
    <3> QED BY <2>2, <3>4, Zenon DEF Written
  <2> QED BY <2>3, <2>4, <2>5
<1> QED BY <1>2, <1>3, <1>4, <1>5, <1>6 DEF LhdIInv

\* The return from sfs_rwblock.
LEMMA RwblockReturnIInv == ASSUME LhdIInv, NEW t \in Threads, rwblock_return(t) PROVE LhdIInv'
<1> DEFINE e == [s \in Sectors |-> {}]
<1>1. /\ pc[t] = "returned" /\ pc' = [pc EXCEPT ![t] = "out"]
      /\ uio' = [uio EXCEPT ![t] = NoUio]
      /\ result' = [result EXCEPT ![t] = 0]
      /\ got' = [got EXCEPT ![t] = <<>>]
      /\ seen' = [seen EXCEPT ![t] = e]
      /\ tries' = [tries EXCEPT ![t] = 0] /\ wrote' = [wrote EXCEPT ![t] = {}]
      /\ UNCHANGED <<disk, card, lh_clear, lh_done, lh_result>>
  BY DEF rwblock_return, Goto
<1>2. e \in [Sectors -> SUBSET Values]
  OBVIOUS
<1> HIDE DEF e
<1>3. NoUio \in UioType /\ NoUio.rw = "none" /\ NoUio.sector = 0 /\ NoUio.first = 0 /\ NoUio.resid = 0
  BY DEF NoUio, UioType, Values
<1>4. LhdTypeOK'
  BY <1>1, <1>2, <1>3 DEF LhdIInv, LhdTypeOK
<1>5. OneOperation'
  BY <1>1, Zenon DEF LhdIInv, LhdTypeOK, OneOperation, Owner
<1>6. RequestsFit' /\ Delivered'
  BY <1>1, <1>3, LhdAssumption DEF LhdIInv, LhdTypeOK, RequestsFit, Delivered
<1>7. CardServes'
  BY <1>1 DEF LhdIInv, LhdTypeOK, CardServes
<1>8. Written'
  <2>1. /\ uio'[t].rw = "none"
        /\ \A v \in Threads : v # t => /\ pc'[v] = pc[v] /\ result'[v] = result[v] /\ tries'[v] = tries[v]
                                      /\ uio'[v] = uio[v] /\ wrote'[v] = wrote[v]
    BY <1>1, <1>3 DEF LhdIInv, LhdTypeOK
  <2>2. WrittenBy(t)'
    BY <2>1, Zenon DEF WrittenBy
  <2>3. ASSUME NEW v \in Threads, v # t PROVE WrittenBy(v)'
    BY <1>1, <2>1, <2>3, WrittenSame, Zenon DEF LhdIInv, Written
  <2> QED BY <2>2, <2>3, Zenon DEF Written
<1> QED BY <1>4, <1>5, <1>6, <1>7, <1>8 DEF LhdIInv

\* What OneOperation says, without its sets.
LEMMA OneOperationSays ==
  ASSUME LhdTypeOK
  PROVE  OneOperation <=>
           /\ \A t, u \in Threads : pc[t] = "wait" /\ pc[u] = "wait" => t = u
           /\ (\A t \in Threads : pc[t] # "wait") => lh_clear = 1 /\ lh_done = 0 /\ card.stat = "idle"
           /\ (\E t \in Threads : pc[t] = "wait") => lh_clear = 0 /\ lh_done = (IF card.stat = "idle" THEN 1 ELSE 0)
<1> DEFINE inflight == {t \in Threads : Owner(t)}
<1>1. inflight = {} <=> \A t \in Threads : pc[t] # "wait"
  BY DEF Owner
<1>2. (\A t, u \in inflight : t = u) <=> \A t, u \in Threads : pc[t] = "wait" /\ pc[u] = "wait" => t = u
  BY DEF Owner
<1>3. OneOperation <=>
           /\ \A t, u \in inflight : t = u
           /\ lh_clear = 1 <=> inflight = {}
           /\ lh_done + (IF card.stat = "idle" THEN 0 ELSE 1) = (IF inflight = {} THEN 0 ELSE 1)
  BY DEF OneOperation
<1> HIDE DEF inflight
<1> QED BY <1>1, <1>2, <1>3 DEF LhdTypeOK

\* The uio after a sector has been moved.
LEMMA AdvanceSays ==
  ASSUME NEW u \in UioType
  PROVE  /\ Advance(u) \in UioType
         /\ Advance(u).rw = u.rw /\ Advance(u).first = u.first /\ Advance(u).data = u.data
         /\ Advance(u).sector = u.sector + 1 /\ Advance(u).resid = u.resid - 1
<1> DEFINE v == [u EXCEPT !.sector = @ + 1]
<1>1. v \in UioType
  BY DEF UioType
<1>2. Advance(u) = [v EXCEPT !.resid = @ - 1]
  BY Zenon DEF Advance
<1>3. v.rw = u.rw /\ v.first = u.first /\ v.data = u.data /\ v.sector = u.sector + 1 /\ v.resid = u.resid
  BY DEF UioType
<1> HIDE DEF v
<1> QED BY <1>1, <1>2, <1>3 DEF UioType

\* The i-th sector of a request is on the disk.
LEMMA OnTheDisk ==
  ASSUME NEW f \in Int, NEW e \in Int, NEW h \in Int, NEW i \in Int,
         0 <= f, 0 <= h, e + h <= NumSectors, 1 <= i, i <= e - f
  PROVE  f + i - 1 \in Sectors
BY LhdAssumption DEF Sectors

\* What is where after an Append.
LEMMA AppendSays ==
  ASSUME NEW S, NEW q \in Seq(S), NEW b \in S, NEW n \in Nat, n = Len(q)
  PROVE  /\ Append(q, b) \in Seq(S) /\ Len(Append(q, b)) = n + 1
         /\ Append(q, b)[n + 1] = b /\ \A i \in 1 .. n : Append(q, b)[i] = q[i]
OBVIOUS

\* The operation on a sector begins.
LEMMA IoStartIInv == ASSUME LhdIInv, NEW t \in Threads, io_start(t) PROVE LhdIInv'
<1> DEFINE u == uio[t]
           w == IF u.rw = "write" THEN Advance(u) ELSE u
           k == [stat |-> "working", rw |-> u.rw, sect |-> u.sector,
                 buf |-> IF u.rw = "write" THEN u.data ELSE card.buf]
<1>1. /\ pc[t] = "lhd_io" /\ u.resid > 0 /\ pc' = [pc EXCEPT ![t] = "wait"]
      /\ lh_clear > 0 /\ lh_clear' = lh_clear - 1
      /\ card' = k
      /\ UNCHANGED <<disk, lh_done, lh_result, result, got, seen, tries, wrote>>
  BY DEF io_start, Goto
<1>2. uio' = [uio EXCEPT ![t] = w]
  BY Zenon DEF io_start, LhdIInv, LhdTypeOK
<1>3. /\ u \in UioType /\ k \in CardType /\ w \in UioType
      /\ k.stat = "working" /\ k.rw = u.rw /\ k.sect = u.sector
  <2>1. u \in UioType /\ card \in CardType
    BY DEF LhdIInv, LhdTypeOK
  <2> HIDE DEF u
  <2>2. k \in CardType /\ k.stat = "working" /\ k.rw = u.rw /\ k.sect = u.sector
    BY <2>1 DEF UioType, CardType
  <2>3. w \in UioType
    BY <2>1, AdvanceSays
  <2> QED BY <2>1, <2>2, <2>3
<1>4. /\ w.rw = u.rw /\ w.first = u.first
      /\ \/ w.sector = u.sector /\ w.resid = u.resid
         \/ w.sector = u.sector + 1 /\ w.resid = u.resid - 1
      /\ u.rw = "read" => w = u
  <2> HIDE DEF u
  <2>1. CASE u.rw = "write"
    BY <1>3, <2>1, AdvanceSays
  <2>2. CASE u.rw # "write"
    BY <2>2, Zenon
  <2> QED BY <2>1, <2>2
<1>5. lh_clear = 1 /\ lh_clear' = 0
  BY <1>1 DEF LhdIInv, LhdTypeOK
<1>6. /\ \A v \in Threads : pc[v] # "wait"
      /\ lh_done = 0
  BY <1>5, OneOperationSays DEF LhdIInv
<1> HIDE DEF k, w
<1>7. LhdTypeOK'
  BY <1>1, <1>2, <1>3, <1>5 DEF LhdIInv, LhdTypeOK
<1>8. pc'[t] = "wait" /\ \A v \in Threads : v # t => pc'[v] = pc[v] /\ uio'[v] = uio[v]
  BY <1>1, <1>2 DEF LhdIInv, LhdTypeOK
<1>9. uio'[t] = w
  BY <1>2, Zenon DEF LhdIInv, LhdTypeOK
<1>10. OneOperation'
  <2>1. {v \in Threads : pc'[v] = "wait"} = {t}
    BY <1>6, <1>8, Zenon
  <2> QED BY <1>1, <1>3, <1>5, <1>6, <2>1 DEF OneOperation, Owner
<1>11. /\ u.first \in Int /\ u.sector \in Int /\ u.resid \in Int
       /\ 0 <= u.first /\ u.first <= u.sector /\ 0 <= u.resid /\ u.sector + u.resid <= NumSectors
       /\ u.rw = "read" => \A x \in Sectors : disk[x] \in seen[t][x]
  BY <1>3 DEF LhdIInv, RequestsFit, UioType
<1>12. RequestsFit'
  <2>1. ASSUME NEW v \in Threads
        PROVE  /\ 0 <= uio'[v].first /\ uio'[v].first <= uio'[v].sector
               /\ 0 <= uio'[v].resid /\ uio'[v].sector + uio'[v].resid <= NumSectors
               /\ uio'[v].rw = "read" => \A x \in Sectors : disk[x] \in seen[v][x]
    <3>1. CASE v = t
      BY <1>1, <1>4, <1>9, <1>11, <3>1, LhdAssumption
    <3>2. CASE v # t
      BY <1>8, <3>2, Zenon DEF LhdIInv, RequestsFit
    <3> QED BY <3>1, <3>2
  <2> QED BY <1>1, <2>1 DEF RequestsFit
<1>13. CardServes'
  <2>1. u.sector \in Sectors
    BY <1>1, <1>11, LhdAssumption DEF Sectors
  <2> QED BY <1>1, <1>3, <1>4, <1>6, <1>8, <1>9, <2>1 DEF CardServes
<1>14. Delivered'
  <2>1. ASSUME NEW v \in Threads, uio'[v].rw = "read" PROVE uio[v].rw = "read" /\ uio'[v] = uio[v]
    BY <1>4, <1>8, <1>9, <2>1
  <2> QED BY <1>1, <2>1, Zenon DEF LhdIInv, Delivered
<1>15. Written'
  <2>1. ASSUME u.rw = "write" PROVE w.sector = u.sector + 1 /\ w.data = u.data /\ k.buf = u.data
    <3>1. w = Advance(u) /\ k.buf = u.data
      BY <2>1 DEF w, k
    <3> QED BY <1>3, <3>1, AdvanceSays
  <2>2. ASSUME u.rw = "write", tries[t] = 0 PROVE wrote[t] = u.first .. u.sector - 1
    BY <1>1, <2>2, Zenon DEF LhdIInv, Written, WrittenBy
  <2>3. u.sector + 1 - 1 = u.sector /\ u.sector + 1 - 2 = u.sector - 1 /\ u.first < u.sector + 1
    BY <1>11
  <2>4. WrittenBy(t)'
    <3>1. /\ pc'[t] = "wait" /\ uio'[t] = w /\ w.rw = u.rw /\ w.first = u.first
          /\ card'.stat = "working" /\ card'.sect = u.sector /\ card'.buf = k.buf /\ lh_done' = 0
      BY <1>1, <1>3, <1>4, <1>6, <1>8, <1>9
    <3>2. 0 # 1
      OBVIOUS
    <3>3. ASSUME u.rw = "write", tries[t] = 0
          PROVE  w.first < w.sector /\ u.sector = w.sector - 1 /\ wrote[t] = w.first .. w.sector - 2 /\ k.buf = w.data
      BY <1>4, <1>11, <2>1, <2>2, <2>3, <3>3
    <3> QED BY <1>1, <3>1, <3>2, <3>3, Zenon DEF WrittenBy
  <2>5. ASSUME NEW v \in Threads, v # t PROVE WrittenBy(v)'
    BY <1>1, <1>6, <1>8, <2>5, WrittenSame, Zenon DEF LhdIInv, Written
  <2> QED BY <2>4, <2>5, Zenon DEF Written
<1> QED BY <1>7, <1>10, <1>12, <1>13, <1>14, <1>15 DEF LhdIInv

\* The card fails the operation.
LEMMA CardMediaIInv == ASSUME LhdIInv, card_media PROVE LhdIInv'
<1>1. /\ card.stat = "working" /\ card' = [card EXCEPT !.stat = "media"]
      /\ UNCHANGED <<disk, lh_clear, lh_done, lh_result, pc, uio, result, got, seen, tries, wrote>>
  BY DEF card_media, thread
<1>2. card' \in CardType /\ card'.stat = "media" /\ card'.rw = card.rw /\ card'.sect = card.sect /\ card'.buf = card.buf
  BY <1>1, Zenon DEF LhdIInv, LhdTypeOK, CardType
<1>3. LhdTypeOK'
  BY <1>1, <1>2 DEF LhdIInv, LhdTypeOK
<1>4. OneOperation'
  BY <1>1, <1>2 DEF LhdIInv, OneOperation, Owner
<1>5. RequestsFit' /\ Delivered'
  BY <1>1 DEF LhdIInv, RequestsFit, Delivered
<1>6. CardServes' /\ Written'
  BY <1>1, <1>2 DEF LhdIInv, CardServes, Written, WrittenBy
<1> QED BY <1>3, <1>4, <1>5, <1>6 DEF LhdIInv

\* The card reads or writes the sector.
LEMMA CardOkIInv == ASSUME LhdIInv, card_ok PROVE LhdIInv'
<1>1. card \in CardType /\ card.stat = "working" /\ card.sect \in Sectors
  BY DEF card_ok, LhdIInv, LhdTypeOK, CardServes
<1>2. UNCHANGED <<lh_clear, lh_done, lh_result, pc, uio, result, got, tries>>
  BY DEF card_ok, thread
<1>3. card' \in CardType /\ card'.stat = "ok" /\ card'.rw = card.rw /\ card'.sect = card.sect
  <2>1. CASE card.rw = "write"
    <3>1. card' = [card EXCEPT !.stat = "ok"]
      BY <2>1 DEF card_ok
    <3> QED BY <1>1, <3>1 DEF CardType
  <2>2. CASE card.rw # "write"
    <3>1. card' = [card EXCEPT !.stat = "ok", !.buf = disk[card.sect]]
      BY <2>2 DEF card_ok
    <3> DEFINE v == [card EXCEPT !.stat = "ok"]
    <3>2. v \in CardType /\ v.stat = "ok" /\ v.rw = card.rw /\ v.sect = card.sect
      BY <1>1 DEF CardType
    <3>3. card' = [v EXCEPT !.buf = disk[card.sect]]
      BY <3>1, Zenon
    <3>4. disk[card.sect] \in Values
      BY <1>1, Zenon DEF LhdIInv, LhdTypeOK
    <3> HIDE DEF v
    <3> QED BY <3>2, <3>3, <3>4 DEF CardType
  <2> QED BY <2>1, <2>2
\* Nothing that was seen is forgotten, and every reader has seen the new value.
<1>4. /\ disk' \in [Sectors -> Values]
      /\ seen' \in [Threads -> [Sectors -> SUBSET Values]]
      /\ \A t \in Threads, x \in Sectors : seen[t][x] \subseteq seen'[t][x]
      /\ \A t \in Threads, x \in Sectors :
           uio[t].rw = "read" /\ disk[x] \in seen[t][x] => disk'[x] \in seen'[t][x]
  <2>1. CASE card.rw = "write"
    <3>1. /\ disk' = [disk EXCEPT ![card.sect] = card.buf]
          /\ seen' = [t \in Threads |-> IF uio[t].rw = "read"
                                        THEN [seen[t] EXCEPT ![card.sect] = @ \cup {card.buf}] ELSE seen[t]]
      BY <2>1 DEF card_ok
    <3>2. card.buf \in Values
      BY <1>1 DEF CardType
    <3>3. disk \in [Sectors -> Values] /\ seen \in [Threads -> [Sectors -> SUBSET Values]]
      BY DEF LhdIInv, LhdTypeOK
    <3>4. disk' \in [Sectors -> Values]
      BY <1>1, <3>1, <3>2, <3>3, Zenon
    <3>5. ASSUME NEW t \in Threads
          PROVE  /\ seen'[t] \in [Sectors -> SUBSET Values]
                 /\ \A x \in Sectors : seen[t][x] \subseteq seen'[t][x]
                 /\ uio[t].rw = "read" => card.buf \in seen'[t][card.sect]
      <4>1. CASE uio[t].rw = "read"
        <5>1. seen'[t] = [seen[t] EXCEPT ![card.sect] = @ \cup {card.buf}] /\ seen[t] \in [Sectors -> SUBSET Values]
          BY <3>1, <3>3, <4>1
        <5> QED BY <1>1, <3>2, <5>1
      <4>2. CASE uio[t].rw # "read"
        BY <3>1, <3>3, <4>2
      <4> QED BY <4>1, <4>2
    <3>6. \A x \in Sectors : disk'[x] = IF x = card.sect THEN card.buf ELSE disk[x]
      BY <3>1, <3>3
    <3>7. seen' \in [Threads -> [Sectors -> SUBSET Values]]
      <4>1. seen' = [t \in Threads |-> seen'[t]]
        BY <3>1
      <4> QED BY <3>5, <4>1
    <3> QED BY <1>1, <3>4, <3>5, <3>6, <3>7
  <2>2. CASE card.rw # "write"
    BY <2>2 DEF card_ok, LhdIInv, LhdTypeOK
  <2> QED BY <2>1, <2>2
<1>10. /\ wrote' \in [Threads -> SUBSET Sectors]
       /\ \A t \in Threads :
            /\ pc[t] # "wait" => wrote'[t] = wrote[t]
            /\ pc[t] = "wait" /\ card.rw = "write" /\ card.buf = uio[t].data => wrote'[t] = wrote[t] \cup {card.sect}
  <2>1. CASE card.rw = "write"
    <3>1. wrote' = [t \in Threads |-> IF Owner(t) /\ card.buf = uio[t].data
                                      THEN wrote[t] \cup {card.sect} ELSE wrote[t]]
      BY <2>1 DEF card_ok
    <3> QED BY <1>1, <3>1 DEF LhdIInv, LhdTypeOK, Owner
  <2>2. CASE card.rw # "write"
    BY <2>2, Zenon DEF card_ok, LhdIInv, LhdTypeOK
  <2> QED BY <2>1, <2>2
<1>5. LhdTypeOK'
  BY <1>2, <1>3, <1>4, <1>10 DEF LhdIInv, LhdTypeOK
<1>6. OneOperation'
  BY <1>1, <1>2, <1>3, Zenon DEF LhdIInv, OneOperation, Owner
<1>7. RequestsFit'
  BY <1>2, <1>4, Zenon DEF LhdIInv, RequestsFit
<1>8. CardServes'
  <2>1. ASSUME NEW t \in Threads, pc[t] = "wait", uio[t].rw = "read"
        PROVE  card'.buf \in seen'[t][card.sect]
    <3>1. card.rw = "read"
      BY <2>1 DEF LhdIInv, CardServes
    <3>2. card' = [card EXCEPT !.stat = "ok", !.buf = disk[card.sect]] /\ disk' = disk
      BY <3>1 DEF card_ok
    <3>3. card'.buf = disk[card.sect]
      BY <1>1, <3>2 DEF CardType
    <3> QED BY <1>1, <1>4, <2>1, <3>2, <3>3 DEF LhdIInv, RequestsFit
  <2> QED BY <1>1, <1>2, <1>3, <2>1 DEF LhdIInv, CardServes
<1>9. Delivered'
  <2>1. ASSUME NEW t \in Threads, uio[t].rw = "read", NEW i \in 1 .. Len(got[t])
        PROVE  got[t][i] \in seen'[t][uio[t].first + i - 1]
    <3>1. /\ got[t][i] \in seen[t][uio[t].first + i - 1] /\ Len(got[t]) = uio[t].sector - uio[t].first
          /\ 0 <= uio[t].first /\ 0 <= uio[t].resid /\ uio[t].sector + uio[t].resid <= NumSectors
          /\ uio[t].first \in Int /\ uio[t].sector \in Int /\ uio[t].resid \in Int
      BY <2>1, Zenon DEF LhdIInv, LhdTypeOK, Delivered, RequestsFit, UioType
    <3>2. i \in Int /\ 1 <= i /\ i <= uio[t].sector - uio[t].first
      BY <3>1
    <3>3. uio[t].first + i - 1 \in Sectors
      BY <3>1, <3>2, OnTheDisk, Zenon
    <3> QED BY <1>4, <3>1, <3>3
  <2> QED BY <1>2, <2>1, Zenon DEF LhdIInv, Delivered
<1>11. Written'
  <2>1. ASSUME NEW t \in Threads, uio[t].rw = "write", tries[t] = 0, pc[t] = "wait"
        PROVE  /\ uio[t].first < uio[t].sector
               /\ card'.sect = uio[t].sector - 1 /\ card'.buf = uio[t].data
               /\ wrote'[t] = uio[t].first .. uio[t].sector - 1
    <3>1. /\ uio[t].first < uio[t].sector /\ card.sect = uio[t].sector - 1 /\ card.buf = uio[t].data
          /\ wrote[t] = uio[t].first .. uio[t].sector - 2 /\ card.rw = "write"
      BY <1>1, <2>1, Zenon DEF LhdIInv, Written, WrittenBy, CardServes
    <3>2. wrote'[t] = wrote[t] \cup {card.sect}
      BY <1>10, <2>1, <3>1, Zenon
    <3>3. card' = [card EXCEPT !.stat = "ok"]
      BY <3>1 DEF card_ok
    <3>4. card'.buf = card.buf
      BY <1>1, <3>3 DEF CardType
    <3>5. PICK f \in Int, e \in Int : f = uio[t].first /\ e = uio[t].sector
      BY Zenon DEF LhdIInv, LhdTypeOK, UioType
    <3>6. f .. e - 1 = (f .. e - 2) \cup {e - 1}
      BY <3>1, <3>5
    <3> QED BY <1>3, <3>1, <3>2, <3>4, <3>5, <3>6
  <2>2. ASSUME NEW t \in Threads, pc[t] # "wait" PROVE wrote'[t] = wrote[t]
    BY <1>10, <2>2
  <2> QED BY <1>2, <1>3, <2>1, <2>2 DEF LhdIInv, Written, WrittenBy
<1> QED BY <1>5, <1>6, <1>7, <1>8, <1>9, <1>11 DEF LhdIInv

\* The interrupt handler tells the thread that waits.
LEMMA LhdIrqIInv == ASSUME LhdIInv, lhd_irq PROVE LhdIInv'
<1>1. /\ card.stat \in {"ok", "media"} /\ card' = [card EXCEPT !.stat = "idle"]
      /\ lh_result' = (IF card.stat = "ok" THEN 0 ELSE EIO) /\ lh_done' = lh_done + 1
      /\ UNCHANGED <<disk, lh_clear, pc, uio, result, got, seen, tries, wrote>>
  BY DEF lhd_irq, thread
<1>2. card' \in CardType /\ card'.stat = "idle" /\ card'.rw = card.rw /\ card'.sect = card.sect /\ card'.buf = card.buf
  BY <1>1, Zenon DEF LhdIInv, LhdTypeOK, CardType
<1>3. LhdTypeOK'
  BY <1>1, <1>2 DEF LhdIInv, LhdTypeOK, EIO
<1>4. OneOperation'
  BY <1>1, <1>2 DEF LhdIInv, LhdTypeOK, OneOperation, Owner
<1>5. RequestsFit' /\ Delivered'
  BY <1>1 DEF LhdIInv, RequestsFit, Delivered
<1>6. CardServes' /\ Written'
  BY <1>1, <1>2 DEF LhdIInv, CardServes, Written, WrittenBy, EIO
<1> QED BY <1>3, <1>4, <1>5, <1>6 DEF LhdIInv

\* The thread takes the completion.
LEMMA IoDoneIInv == ASSUME LhdIInv, NEW t \in Threads, io_done(t) PROVE LhdIInv'
<1>1. /\ pc[t] = "wait" /\ lh_done > 0 /\ lh_done' = lh_done - 1 /\ lh_clear' = lh_clear + 1
      /\ UNCHANGED <<disk, card, lh_result, seen, tries, wrote>>
  BY DEF io_done
<1>2. PICK p \in {"lhd_io", "returned"}, moves \in BOOLEAN :
        /\ pc' = [pc EXCEPT ![t] = p]
        /\ moves => lh_result = 0 /\ uio[t].rw = "read"
        /\ uio' = IF moves THEN [uio EXCEPT ![t] = Advance(@)] ELSE uio
        /\ got' = IF moves THEN [got EXCEPT ![t] = Append(@, card.buf)] ELSE got
        /\ p = "lhd_io" => lh_result = 0
        /\ p = "returned" => result'[t] # 0
  <2>1. result \in [Threads -> {0, EIO, EFAULT}]
    BY DEF LhdIInv, LhdTypeOK
  <2>2. CASE lh_result # 0 /\ pc' = [pc EXCEPT ![t] = "returned"] /\ result' = [result EXCEPT ![t] = lh_result] /\ UNCHANGED <<uio, got>>
    <3>1. result'[t] = lh_result
      BY <2>1, <2>2
    <3> QED BY <2>2, <3>1, Zenon
  <2>3. CASE lh_result = 0 /\ pc' = [pc EXCEPT ![t] = "lhd_io"] /\ UNCHANGED <<uio, got>>
    BY <2>3, Zenon
  <2>4. CASE /\ lh_result = 0 /\ uio[t].rw = "read" /\ pc' = [pc EXCEPT ![t] = "lhd_io"]
             /\ uio' = [uio EXCEPT ![t] = Advance(@)] /\ got' = [got EXCEPT ![t] = Append(@, card.buf)]
    BY <2>4, Zenon
  <2>5. CASE pc' = [pc EXCEPT ![t] = "returned"] /\ result' = [result EXCEPT ![t] = EFAULT] /\ UNCHANGED <<uio, got>>
    <3>1. result'[t] # 0
      BY <2>1, <2>5 DEF EFAULT
    <3> QED BY <2>5, <3>1, Zenon
  <2> QED BY <2>2, <2>3, <2>4, <2>5, Zenon DEF io_done, Goto
<1> DEFINE u == uio[t]
           w == IF moves THEN Advance(u) ELSE u
           g == IF moves THEN Append(got[t], card.buf) ELSE got[t]
<1>3. /\ result' \in [Threads -> {0, EIO, EFAULT}]
      /\ \A v \in Threads : v # t => result'[v] = result[v]
  BY Zenon DEF io_done, LhdIInv, LhdTypeOK, EIO
<1>4. uio' = [uio EXCEPT ![t] = w] /\ got' = [got EXCEPT ![t] = g]
  BY <1>2, Zenon DEF LhdIInv, LhdTypeOK
<1>5. /\ \A v \in Threads : pc[v] = "wait" => v = t
      /\ lh_clear = 0 /\ lh_done = 1 /\ card.stat = "idle"
  BY <1>1, OneOperationSays DEF LhdIInv
<1>6. /\ u \in UioType /\ got[t] \in Seq(Values) /\ card.buf \in Values
  BY DEF LhdIInv, LhdTypeOK, CardType
<1>7. moves => /\ card.buf \in seen[t][u.sector] /\ u.resid > 0 /\ u.rw = "read"
  BY <1>1, <1>2, <1>5, Zenon DEF LhdIInv, CardServes
<1>8. /\ u.first \in Int /\ u.sector \in Int /\ u.resid \in Int
      /\ 0 <= u.first /\ u.first <= u.sector /\ 0 <= u.resid /\ u.sector + u.resid <= NumSectors
  BY <1>6 DEF LhdIInv, RequestsFit, UioType
<1>9. u.rw = "read" => /\ Len(got[t]) = u.sector - u.first
                       /\ \A i \in 1 .. Len(got[t]) : got[t][i] \in seen[t][u.first + i - 1]
  BY Zenon DEF LhdIInv, Delivered
<1> HIDE DEF u
<1>10. /\ w \in UioType /\ w.rw = u.rw /\ w.first = u.first /\ g \in Seq(Values)
       /\ moves => w.sector = u.sector + 1 /\ w.resid = u.resid - 1
       /\ ~moves => w = u
  BY <1>6, AdvanceSays
<1>11. u.rw = "read" => /\ Len(g) = w.sector - w.first
                        /\ \A i \in 1 .. Len(g) : g[i] \in seen[t][w.first + i - 1]
  <2>1. CASE moves
    <3>1. PICK n \in Nat : n = Len(got[t]) /\ n = u.sector - u.first
      BY <1>6, <1>7, <1>8, <1>9, <2>1
    <3>2. g = Append(got[t], card.buf)
      BY <2>1
    <3> HIDE DEF g, w
    <3>3. Len(g) = n + 1 /\ g[n + 1] = card.buf /\ \A i \in 1 .. n : g[i] = got[t][i]
      <4> DEFINE q == got[t]
                 b == card.buf
      <4>1. q \in Seq(Values) /\ b \in Values /\ n = Len(q) /\ g = Append(q, b)
        BY <1>6, <3>1, <3>2
      <4> HIDE DEF q, b
      <4>2. Len(g) = n + 1 /\ g[n + 1] = b /\ \A i \in 1 .. n : g[i] = q[i]
        BY <4>1, AppendSays
      <4> QED BY <4>2 DEF q, b
    <3>4. ASSUME NEW i \in 1 .. n + 1 PROVE g[i] \in seen[t][u.first + i - 1]
      <4>1. CASE i = n + 1
        <5>1. u.first + i - 1 = u.sector
          BY <1>8, <3>1, <4>1
        <5> QED BY <1>7, <2>1, <3>3, <4>1, <5>1
      <4>2. CASE i # n + 1
        <5>1. i \in 1 .. n
          BY <4>2
        <5> QED BY <1>7, <1>9, <2>1, <3>1, <3>3, <5>1
      <4> QED BY <4>1, <4>2, Zenon
    <3>5. Len(g) = w.sector - w.first
      BY <1>8, <1>10, <2>1, <3>1, <3>3
    <3> QED BY <1>10, <3>3, <3>4, <3>5, Zenon
  <2>2. CASE ~moves
    BY <1>9, <1>10, <2>2
  <2> QED BY <2>1, <2>2, Zenon
<1> HIDE DEF w, g
<1>12. /\ uio'[t] = w /\ got'[t] = g /\ pc'[t] # "wait"
       /\ \A v \in Threads : v # t => uio'[v] = uio[v] /\ got'[v] = got[v] /\ pc'[v] = pc[v]
  BY <1>2, <1>4, Zenon DEF LhdIInv, LhdTypeOK
<1>13. LhdTypeOK'
  BY <1>1, <1>2, <1>3, <1>4, <1>5, <1>10 DEF LhdIInv, LhdTypeOK
<1>14. OneOperation'
  <2>1. {v \in Threads : pc'[v] = "wait"} = {}
    BY <1>5, <1>12
  <2>2. lh_clear' = 1 /\ lh_done' = 0 /\ card'.stat = "idle"
    BY <1>1, <1>5
  <2> QED BY <2>1, <2>2 DEF OneOperation, Owner
<1>15. RequestsFit'
  <2>1. ASSUME NEW v \in Threads
        PROVE  /\ 0 <= uio'[v].first /\ uio'[v].first <= uio'[v].sector
               /\ 0 <= uio'[v].resid /\ uio'[v].sector + uio'[v].resid <= NumSectors
               /\ uio'[v].rw = "read" => \A x \in Sectors : disk[x] \in seen[v][x]
    <3>1. CASE v = t
      <4>1. /\ 0 <= w.first /\ w.first <= w.sector /\ 0 <= w.resid /\ w.sector + w.resid <= NumSectors
        <5>1. CASE moves
          BY <1>7, <1>8, <1>10, <5>1, LhdAssumption
        <5>2. CASE ~moves
          BY <1>8, <1>10, <5>2
        <5> QED BY <5>1, <5>2, Zenon
      <4>2. w.rw = "read" => \A x \in Sectors : disk[x] \in seen[t][x]
        BY <1>10, Zenon DEF LhdIInv, RequestsFit, u
      <4> QED BY <1>12, <3>1, <4>1, <4>2
    <3>2. CASE v # t
      BY <1>12, <3>2 DEF LhdIInv, RequestsFit
    <3> QED BY <3>1, <3>2, Zenon
  <2> QED BY <1>1, <2>1, Zenon DEF RequestsFit
<1>16. CardServes'
  BY <1>1, <1>5, <1>12, Zenon DEF CardServes
<1>17. Delivered'
  BY <1>1, <1>10, <1>11, <1>12, Zenon DEF LhdIInv, Delivered
<1>18. Written'
  <2>1. ASSUME u.rw = "write" PROVE w = u
    BY <1>2, <1>10, <2>1, Zenon DEF u
  <2>2. ASSUME u.rw = "write", tries[t] = 0, lh_result = 0 PROVE wrote[t] = u.first .. u.sector - 1
    BY <1>1, <1>5, <2>2 DEF LhdIInv, Written, WrittenBy, u
  <2>3. pc'[t] = p
    BY <1>2, Zenon DEF LhdIInv, LhdTypeOK
  <2>4. WrittenBy(t)'
    <3>1. ASSUME u.rw = "write", tries[t] = 0, pc'[t] = "lhd_io" PROVE wrote[t] = u.first .. u.sector - 1
      BY <1>2, <2>2, <2>3, <3>1
    <3>2. pc'[t] \in {"lhd_io", "returned"} /\ (pc'[t] = "returned" => result'[t] # 0)
      BY <1>2, <2>3
    <3> QED BY <1>1, <1>10, <1>12, <2>1, <3>1, <3>2, Zenon DEF WrittenBy
  <2>5. ASSUME NEW v \in Threads, v # t PROVE WrittenBy(v)'
    BY <1>1, <1>3, <1>5, <1>12, <2>5, WrittenSame, Zenon DEF LhdIInv, Written
  <2> QED BY <2>4, <2>5, Zenon DEF Written
<1> QED BY <1>13, <1>14, <1>15, <1>16, <1>17, <1>18, Zenon DEF LhdIInv

\* Every step of a thread, of the card and of the handler.
LEMMA LhdNextIInv == ASSUME LhdIInv, [Next]_vars PROVE LhdIInv'
<1>1. CASE Next
  BY <1>1, RwblockIInv, IoReturnIInv, RwblockReturnIInv, IoStartIInv, CardMediaIInv, CardOkIInv, LhdIrqIInv,
     IoDoneIInv DEF Next, Device, Proceed
<1>2. CASE UNCHANGED vars
  BY <1>2, Zenon DEF vars, thread, LhdIInv, LhdTypeOK, OneOperation, Owner, RequestsFit, CardServes, Delivered,
     Written, WrittenBy
<1> QED BY <1>1, <1>2

\* The disk card does one operation at a time, a read that succeeds has delivered
\* what was on the disk, and a write that succeeds without a retry has written
\* all it was to write (lhd_io, lhd_irq, sfs_rwblock).
THEOREM DiskRight == Spec => []DiskExact
<1>1. Init => LhdIInv
  BY LhdInitIInv
<1>2. LhdIInv /\ [Next]_vars => LhdIInv'
  BY LhdNextIInv
<1>3. ASSUME LhdIInv PROVE DiskExact
  <2>1. WritesAreGood
    <3>1. ASSUME NEW t \in Threads, uio[t].resid = 0 PROVE Requested(t) = uio[t].first .. uio[t].sector - 1
      <4>1. uio[t].sector \in Int
        BY <1>3 DEF LhdIInv, LhdTypeOK, UioType
      <4>2. uio[t].sector + uio[t].resid - 1 = uio[t].sector - 1
        BY <3>1, <4>1
      <4> QED BY <4>2 DEF Requested
    <3> QED BY <1>3, <3>1, Zenon DEF LhdIInv, Written, WrittenBy, WritesAreGood
  <2> QED BY <1>3, <2>1 DEF LhdIInv, DiskExact, Delivered, ReadsAreGood
<1> QED BY <1>1, <1>2, <1>3, PTL DEF Spec

-----------------------------------------------------------------------------
(* Console: the console driver                                             *)

PollPcs == {"poll_until_write", "send_pending", "poll_pending", "send_polled", "poll_polled"}
WirqType == [enable : BOOLEAN, force : BOOLEAN, active : BOOLEAN]
IrqType == [at : {"idle", "callbacks"}, clear_to_write : BOOLEAN, ch : Chars \cup {NoChar}]
Slots == 0 .. INPUT_BUFFER - 1

ConTypeOK ==
  /\ WIRQ \in WirqType /\ sending \in BOOLEAN /\ rchar \in Chars \cup {NoChar}
  /\ ls_lock \in Writers \cup {Free} /\ ls_wbusy \in BOOLEAN
  /\ cs_wsem \in Nat /\ cs_rsem \in Nat
  /\ cs_gotchars \in [Slots -> Chars \cup {NoChar}]
  /\ cs_gotchars_head \in Slots /\ cs_gotchars_tail \in Slots
  /\ irq \in IrqType
  /\ wpc \in [Writers -> {"out", "send"} \cup PollPcs]
  /\ rpc \in [Readers -> {"out", "getch", "fetch", "store"}]
  /\ ch \in [Readers -> Chars \cup {NoChar}] /\ tail \in [Readers -> Slots]
  /\ together \in BOOLEAN
  /\ typed \in Seq(Chars)

\* The writer that polls is the one that holds ls_lock.
PollerHolds == \A w \in Writers : wpc[w] \in PollPcs <=> ls_lock = w

\* What the card and ls_wbusy are, by who holds ls_lock and where they are.
CardMatches ==
  /\ ~(sending /\ WIRQ.active)
  /\ ls_lock = Free =>
       /\ WIRQ.enable
       /\ ls_wbusy <=> sending \/ WIRQ.active
  /\ \A w \in Writers :
       /\ wpc[w] \in {"poll_until_write", "poll_pending"} => WIRQ.enable /\ ls_wbusy /\ (sending \/ WIRQ.active)
       /\ wpc[w] = "send_pending" => WIRQ.enable /\ ls_wbusy /\ ~sending /\ ~WIRQ.active
       /\ wpc[w] = "send_polled" => ~ls_wbusy /\ ~sending /\ ~WIRQ.active
       /\ wpc[w] = "poll_polled" => ~ls_wbusy

Senders == {w \in Writers : wpc[w] = "send"}

\* Of the end of a write one of ls_wbusy and the interrupt handler knows.
OneEnd ==
  /\ ~(ls_wbusy /\ irq.clear_to_write)
  /\ irq.at = "idle" => ~irq.clear_to_write
  /\ cs_wsem + (IF ls_wbusy \/ irq.clear_to_write THEN 1 ELSE 0) + Cardinality(Senders) = 1

\* A reader in con_io holds con_userlock_read, and unless two readers have been
\* behind P(cs_rsem) together there is one there at most.
ReadersMatch ==
  /\ \A r \in Readers : r \notin Kgets /\ rpc[r] # "out" => con_userlock_read = r
  /\ ~together => \A r, q \in Readers : Taking(r) /\ Taking(q) => r = q
  /\ together => Kgets # {}

ConIInv == ConTypeOK /\ PollerHolds /\ CardMatches /\ OneEnd /\ ReadersMatch /\ InputInOrder

\* Nothing is going on at first.
LEMMA ConInitIInv == ASSUME ConInit PROVE ConIInv
<1>1. ConTypeOK
  <2>1. 0 \in Slots /\ cs_gotchars \in [Slots -> Chars \cup {NoChar}]
    BY ConAssumption DEF ConInit, Slots
  <2>2. /\ rpc \in [Readers -> {"out", "getch", "fetch", "store"}]
        /\ ch \in [Readers -> Chars \cup {NoChar}] /\ tail \in [Readers -> Slots]
    BY <2>1 DEF ConInit
  <2>3. WIRQ \in WirqType /\ irq \in IrqType
    BY Zenon DEF ConInit, WirqType, IrqType
  <2>4. wpc \in [Writers -> {"out", "send"} \cup PollPcs] /\ typed \in Seq(Chars) /\ 0 \in Nat /\ 1 \in Nat
    BY DEF ConInit
  <2> QED BY <2>1, <2>2, <2>3, <2>4, Zenon DEF ConInit, ConTypeOK
<1>2. PollerHolds /\ CardMatches
  BY ConAssumption, Zenon DEF ConInit, PollerHolds, CardMatches, PollPcs
<1>3. OneEnd
  <2>1. Senders = {}
    BY DEF ConInit, Senders
  <2>2. Cardinality(Senders) = 0
    BY <2>1, FS_EmptySet, Zenon
  <2> QED BY <2>2 DEF ConInit, OneEnd
<1>4. InputInOrder /\ ReadersMatch
  <2>1. (0 - 0) % INPUT_BUFFER = 0
    BY ConAssumption
  <2>2. \A r \in Readers : ~Taking(r) /\ (r \notin Kgets => rpc[r] = "out")
    BY DEF ConInit, Taking
  <2> QED BY <2>1, <2>2 DEF ConInit, InputInOrder, ReadersMatch, Taking
<1> QED BY <1>1, <1>2, <1>3, <1>4 DEF ConIInv

\* Those that are to write by interrupt, without and with a writer that joins or
\* leaves them.
LEMMA SendersSame ==
  ASSUME ConTypeOK, NEW w \in Writers, NEW p, wpc' = [wpc EXCEPT ![w] = p], wpc[w] # "send", p # "send"
  PROVE  Cardinality(Senders') = Cardinality(Senders) /\ Cardinality(Senders) \in Nat
<1>1. IsFiniteSet(Senders)
  BY FS_Subset, ConAssumption DEF Senders
<1>2. Senders' = Senders
  BY DEF ConTypeOK, Senders
<1> QED BY <1>1, <1>2, FS_CardinalityType

\* putch_intr.
LEMMA SendersMore ==
  ASSUME ConTypeOK, NEW w \in Writers, wpc' = [wpc EXCEPT ![w] = "send"], wpc[w] # "send"
  PROVE  Cardinality(Senders') = Cardinality(Senders) + 1 /\ Cardinality(Senders) \in Nat
<1>1. IsFiniteSet(Senders)
  BY FS_Subset, ConAssumption, Zenon DEF Senders
<1>2. Senders' = Senders \cup {w} /\ w \notin Senders
  BY DEF ConTypeOK, Senders
<1> QED BY <1>1, <1>2, FS_CardinalityType, FS_AddElement, Zenon

\* lser_write.
LEMMA SendersLess ==
  ASSUME ConTypeOK, NEW w \in Writers, wpc' = [wpc EXCEPT ![w] = "out"], wpc[w] = "send"
  PROVE  /\ Cardinality(Senders') = Cardinality(Senders) - 1
         /\ Cardinality(Senders) \in Nat /\ Cardinality(Senders) > 0
<1>1. IsFiniteSet(Senders)
  BY FS_Subset, ConAssumption DEF Senders
<1>2. Senders' = Senders \ {w} /\ w \in Senders
  BY DEF ConTypeOK, Senders
<1>3. Cardinality(Senders') = Cardinality(Senders) - 1
  BY <1>1, <1>2, FS_RemoveElement
<1>4. Cardinality(Senders) # 0
  BY <1>1, <1>2, FS_EmptySet
<1> QED BY <1>1, <1>3, <1>4, FS_CardinalityType

\* The one writer that polls, and the others.
LEMMA OnePoller ==
  ASSUME ConIInv, NEW w \in Writers, wpc[w] \in PollPcs
  PROVE  ls_lock = w /\ ls_lock # Free /\ \A v \in Writers : v # w => wpc[v] \notin PollPcs
BY ConAssumption, Zenon DEF ConIInv, PollerHolds

\* putch_intr.
LEMMA PutchIntrIInv == ASSUME ConIInv, NEW w \in Writers, putch_intr(w) PROVE ConIInv'
<1>1. /\ wpc[w] = "out" /\ wpc' = [wpc EXCEPT ![w] = "send"]
      /\ cs_wsem > 0 /\ cs_wsem' = cs_wsem - 1
      /\ UNCHANGED <<WIRQ, sending, ls_lock, ls_wbusy>>
  BY DEF putch_intr, WGoto, card_vars
<1>2. /\ UNCHANGED <<cs_rsem, cs_gotchars, cs_gotchars_head, cs_gotchars_tail, typed, irq, rchar>>
      /\ UNCHANGED <<con_userlock_read, rpc, ch, tail, together>>
  BY Zenon DEF putch_intr, ring, card_vars, readers
<1>3. ConTypeOK'
  BY <1>1, <1>2 DEF ConIInv, ConTypeOK, WirqType, PollPcs
<1>4. PollerHolds'
  BY <1>1, ConAssumption, Zenon DEF ConIInv, ConTypeOK, PollerHolds, PollPcs
<1>5. CardMatches'
  BY <1>1, ConAssumption, Zenon DEF ConIInv, ConTypeOK, PollerHolds, CardMatches, PollPcs, OneEnd, WirqType
<1>6. OneEnd'
  <2>1. Cardinality(Senders') = Cardinality(Senders) + 1 /\ Cardinality(Senders) \in Nat
    BY <1>1, SendersMore, Zenon DEF ConIInv
  <2> QED BY <1>1, <1>2, <2>1 DEF ConIInv, ConTypeOK, OneEnd
<1>7. InputInOrder' /\ ReadersMatch'
  BY <1>2, Zenon DEF ConIInv, InputInOrder, ReadersMatch, Taking
<1> QED BY <1>3, <1>4, <1>5, <1>6, <1>7 DEF ConIInv

\* lser_write.
LEMMA LserWriteIInv == ASSUME ConIInv, NEW w \in Writers, lser_write(w) PROVE ConIInv'
<1>1. /\ wpc[w] = "send" /\ wpc' = [wpc EXCEPT ![w] = "out"]
      /\ ls_lock = Free /\ ls_wbusy = FALSE /\ ls_wbusy' = TRUE /\ sending' = TRUE
      /\ UNCHANGED <<WIRQ, ls_lock, cs_wsem>>
  BY DEF lser_write, WGoto, ConIInv, ConTypeOK
<1>2. /\ UNCHANGED <<cs_rsem, cs_gotchars, cs_gotchars_head, cs_gotchars_tail, typed, irq, rchar>>
      /\ UNCHANGED <<con_userlock_read, rpc, ch, tail, together>>
  BY Zenon DEF lser_write, ring, card_vars, readers
<1>3. ConTypeOK'
  BY <1>1, <1>2 DEF ConIInv, ConTypeOK, WirqType, PollPcs
<1>4. PollerHolds'
  BY <1>1, ConAssumption, Zenon DEF ConIInv, ConTypeOK, PollerHolds, PollPcs
<1>5. CardMatches'
  BY <1>1, ConAssumption, Zenon DEF ConIInv, ConTypeOK, PollerHolds, CardMatches, PollPcs, OneEnd, WirqType
<1>6. OneEnd'
  <2>1. Cardinality(Senders') = Cardinality(Senders) - 1 /\ Cardinality(Senders) \in Nat /\ Cardinality(Senders) > 0
    BY <1>1, SendersLess, Zenon DEF ConIInv
  <2> QED BY <1>1, <1>2, <2>1 DEF ConIInv, ConTypeOK, OneEnd
<1>7. InputInOrder' /\ ReadersMatch'
  BY <1>2, Zenon DEF ConIInv, InputInOrder, ReadersMatch, Taking
<1> QED BY <1>3, <1>4, <1>5, <1>6, <1>7, Zenon DEF ConIInv

\* lser_writepolled while a write is in progress.
LEMMA WritepolledBusyIInv == ASSUME ConIInv, NEW w \in Writers, writepolled_busy(w) PROVE ConIInv'
<1>1. /\ wpc[w] = "out" /\ wpc' = [wpc EXCEPT ![w] = "poll_until_write"]
      /\ ls_lock = Free /\ ls_lock' = w /\ ls_wbusy = TRUE
      /\ UNCHANGED <<WIRQ, sending, ls_wbusy, cs_wsem>>
  BY DEF writepolled_busy, WGoto, card_vars, ConIInv, ConTypeOK
<1>2. /\ UNCHANGED <<cs_rsem, cs_gotchars, cs_gotchars_head, cs_gotchars_tail, typed, irq, rchar>>
      /\ UNCHANGED <<con_userlock_read, rpc, ch, tail, together>>
  BY DEF writepolled_busy, ring, card_vars, readers
<1>3. ConTypeOK'
  BY <1>1, <1>2, Zenon DEF ConIInv, ConTypeOK, WirqType, PollPcs
<1>4. PollerHolds'
  BY <1>1, ConAssumption, Zenon DEF ConIInv, ConTypeOK, PollerHolds, PollPcs
<1>5. CardMatches'
  BY <1>1, ConAssumption, Zenon DEF ConIInv, ConTypeOK, PollerHolds, CardMatches, PollPcs, OneEnd, WirqType
<1>6. OneEnd'
  <2>1. Cardinality(Senders') = Cardinality(Senders) /\ Cardinality(Senders) \in Nat
    BY <1>1, SendersSame, Zenon DEF ConIInv
  <2> QED BY <1>1, <1>2, <2>1, Zenon DEF ConIInv, ConTypeOK, OneEnd
<1>7. InputInOrder' /\ ReadersMatch'
  BY <1>2, Zenon DEF ConIInv, InputInOrder, ReadersMatch, Taking
<1> QED BY <1>3, <1>4, <1>5, <1>6, <1>7 DEF ConIInv

\* The write is over, and its interrupt kept.
LEMMA WritepolledForceIInv == ASSUME ConIInv, NEW w \in Writers, writepolled_force(w) PROVE ConIInv'
<1>1. /\ wpc[w] = "poll_until_write" /\ wpc' = [wpc EXCEPT ![w] = "send_pending"]
      /\ WIRQ.active /\ WIRQ' = [enable |-> TRUE, force |-> TRUE, active |-> FALSE]
      /\ UNCHANGED <<sending, ls_lock, ls_wbusy, cs_wsem>>
  BY DEF writepolled_force, WGoto, SetWIRQ
<1>2. /\ UNCHANGED <<cs_rsem, cs_gotchars, cs_gotchars_head, cs_gotchars_tail, typed, irq, rchar>>
      /\ UNCHANGED <<con_userlock_read, rpc, ch, tail, together>>
  BY Zenon DEF writepolled_force, ring, card_vars, readers
<1>3. ConTypeOK'
  <2>1. WIRQ' \in WirqType /\ wpc' \in [Writers -> {"out", "send"} \cup PollPcs]
    BY <1>1, Zenon DEF ConIInv, ConTypeOK, WirqType, PollPcs
  <2> QED BY <1>1, <1>2, <2>1, Zenon DEF ConIInv, ConTypeOK
<1>4. PollerHolds'
  BY <1>1, ConAssumption, Zenon DEF ConIInv, ConTypeOK, PollerHolds, PollPcs
<1>5. CardMatches'
  <2>1. ls_lock # Free /\ \A v \in Writers : v # w => wpc[v] \notin PollPcs
    BY <1>1, OnePoller DEF PollPcs
  <2>2. WIRQ'.enable = TRUE /\ WIRQ'.active = FALSE
    BY <1>1
  <2>3. wpc'[w] = "send_pending" /\ \A v \in Writers : v # w => wpc'[v] = wpc[v]
    BY <1>1 DEF ConIInv, ConTypeOK
  <2>4. ls_wbusy /\ ~sending
    BY <1>1, Zenon DEF ConIInv, CardMatches
  <2> QED BY <1>1, <2>1, <2>2, <2>3, <2>4, Zenon DEF CardMatches, PollPcs
<1>6. OneEnd'
  <2>1. Cardinality(Senders') = Cardinality(Senders) /\ Cardinality(Senders) \in Nat
    BY <1>1, SendersSame, Zenon DEF ConIInv
  <2> QED BY <1>1, <1>2, <2>1 DEF ConIInv, ConTypeOK, OneEnd
<1>7. InputInOrder' /\ ReadersMatch'
  BY <1>2, Zenon DEF ConIInv, InputInOrder, ReadersMatch, Taking
<1> QED BY <1>3, <1>4, <1>5, <1>6, <1>7, Zenon DEF ConIInv

\* lser_writepolled while no write is in progress.
LEMMA WritepolledIdleIInv == ASSUME ConIInv, NEW w \in Writers, writepolled_idle(w) PROVE ConIInv'
<1>1. /\ wpc[w] = "out" /\ wpc' = [wpc EXCEPT ![w] = "send_polled"]
      /\ ls_lock = Free /\ ls_lock' = w /\ ls_wbusy = FALSE
      /\ WIRQ' = [enable |-> FALSE, force |-> FALSE, active |-> FALSE]
      /\ UNCHANGED <<sending, ls_wbusy, cs_wsem>>
  BY DEF writepolled_idle, WGoto, SetWIRQ, ConIInv, ConTypeOK
<1>2. /\ UNCHANGED <<cs_rsem, cs_gotchars, cs_gotchars_head, cs_gotchars_tail, typed, irq, rchar>>
      /\ UNCHANGED <<con_userlock_read, rpc, ch, tail, together>>
  BY Zenon DEF writepolled_idle, ring, card_vars, readers
<1>3. ConTypeOK'
  BY <1>1, <1>2 DEF ConIInv, ConTypeOK, WirqType, PollPcs
<1>4. PollerHolds'
  BY <1>1, ConAssumption, Zenon DEF ConIInv, ConTypeOK, PollerHolds, PollPcs
<1>5. CardMatches'
  BY <1>1, ConAssumption, Zenon DEF ConIInv, ConTypeOK, PollerHolds, CardMatches, PollPcs, OneEnd, WirqType
<1>6. OneEnd'
  <2>1. Cardinality(Senders') = Cardinality(Senders) /\ Cardinality(Senders) \in Nat
    BY <1>1, SendersSame, Zenon DEF ConIInv
  <2> QED BY <1>1, <1>2, <2>1 DEF ConIInv, ConTypeOK, OneEnd
<1>7. InputInOrder' /\ ReadersMatch'
  BY <1>2, Zenon DEF ConIInv, InputInOrder, ReadersMatch, Taking
<1> QED BY <1>3, <1>4, <1>5, <1>6, <1>7, Zenon DEF ConIInv

\* The character is given to the card.
LEMMA WritepolledSendIInv == ASSUME ConIInv, NEW w \in Writers, writepolled_send(w) PROVE ConIInv'
<1>1. /\ \/ wpc[w] = "send_pending" /\ wpc' = [wpc EXCEPT ![w] = "poll_pending"]
         \/ wpc[w] = "send_polled" /\ wpc' = [wpc EXCEPT ![w] = "poll_polled"]
      /\ sending' = TRUE
      /\ UNCHANGED <<WIRQ, ls_lock, ls_wbusy, cs_wsem>>
  BY DEF writepolled_send, WGoto, ConIInv
<1>2. /\ UNCHANGED <<cs_rsem, cs_gotchars, cs_gotchars_head, cs_gotchars_tail, typed, irq, rchar>>
      /\ UNCHANGED <<con_userlock_read, rpc, ch, tail, together>>
  BY Zenon DEF writepolled_send, ring, card_vars, readers
<1>3. ConTypeOK'
  <2>1. wpc' \in [Writers -> {"out", "send"} \cup PollPcs]
    BY <1>1, Zenon DEF ConIInv, ConTypeOK, PollPcs
  <2> QED BY <1>1, <1>2, <2>1, Zenon DEF ConIInv, ConTypeOK
<1>4. PollerHolds'
  BY <1>1, ConAssumption, Zenon DEF ConIInv, ConTypeOK, PollerHolds, PollPcs
<1>5. CardMatches'
  <2>1. ls_lock # Free /\ \A v \in Writers : v # w => wpc[v] \notin PollPcs
    BY <1>1, OnePoller DEF PollPcs
  <2>2. \A v \in Writers : v # w => wpc'[v] = wpc[v]
    BY <1>1, Zenon DEF ConIInv, ConTypeOK
  <2>3. \/ wpc[w] = "send_pending" /\ wpc'[w] = "poll_pending"
        \/ wpc[w] = "send_polled" /\ wpc'[w] = "poll_polled"
    BY <1>1, Zenon DEF ConIInv, ConTypeOK
  <2>4. ~WIRQ.active /\ (wpc[w] = "send_pending" => WIRQ.enable /\ ls_wbusy) /\ (wpc[w] = "send_polled" => ~ls_wbusy)
    BY <2>3, Zenon DEF ConIInv, CardMatches
  <2> QED BY <1>1, <2>1, <2>2, <2>3, <2>4, Zenon DEF CardMatches, PollPcs
<1>6. OneEnd'
  <2>1. Cardinality(Senders') = Cardinality(Senders) /\ Cardinality(Senders) \in Nat
    BY <1>1, SendersSame DEF ConIInv
  <2> QED BY <1>1, <1>2, <2>1, Zenon DEF ConIInv, ConTypeOK, OneEnd
<1>7. InputInOrder' /\ ReadersMatch'
  BY <1>2, Zenon DEF ConIInv, InputInOrder, ReadersMatch, Taking
<1> QED BY <1>3, <1>4, <1>5, <1>6, <1>7 DEF ConIInv

\* The character is out.
LEMMA WritepolledDoneIInv == ASSUME ConIInv, NEW w \in Writers, writepolled_done(w) PROVE ConIInv'
<1>1. /\ \/ wpc[w] = "poll_pending" /\ wpc' = [wpc EXCEPT ![w] = "out"] /\ WIRQ' = WIRQ
         \/ /\ wpc[w] = "poll_polled" /\ wpc' = [wpc EXCEPT ![w] = "out"]
            /\ WIRQ' = [enable |-> TRUE, force |-> FALSE, active |-> FALSE]
      /\ WIRQ.active /\ ls_lock' = Free
      /\ UNCHANGED <<sending, ls_wbusy, cs_wsem>>
  BY DEF writepolled_done, WGoto, SetWIRQ
<1>2. /\ UNCHANGED <<cs_rsem, cs_gotchars, cs_gotchars_head, cs_gotchars_tail, typed, irq, rchar>>
      /\ UNCHANGED <<con_userlock_read, rpc, ch, tail, together>>
  BY Zenon DEF writepolled_done, ring, card_vars, readers
<1>3. ConTypeOK'
  <2>1. [enable |-> TRUE, force |-> FALSE, active |-> FALSE] \in WirqType /\ WIRQ \in WirqType
    BY DEF ConIInv, ConTypeOK, WirqType
  <2>2. WIRQ' \in WirqType /\ wpc' = [wpc EXCEPT ![w] = "out"]
    BY <1>1, <2>1, Zenon
  <2>3. wpc' \in [Writers -> {"out", "send"} \cup PollPcs]
    BY <2>2, Zenon DEF ConIInv, ConTypeOK
  <2> QED BY <1>1, <1>2, <2>2, <2>3, Zenon DEF ConIInv, ConTypeOK
<1>8. \A v \in Writers : v # w => wpc[v] \notin PollPcs /\ wpc'[v] = wpc[v]
  BY <1>1, OnePoller DEF ConIInv, ConTypeOK, PollPcs
<1>9. wpc'[w] = "out"
  BY <1>1, Zenon DEF ConIInv, ConTypeOK
<1>4. PollerHolds'
  BY <1>1, <1>8, <1>9, ConAssumption, Zenon DEF PollerHolds, PollPcs
<1>5. CardMatches'
  <2>1. \A v \in Writers : wpc'[v] \notin PollPcs
    BY <1>8, <1>9, Zenon DEF PollPcs
  <2>2. CASE wpc[w] = "poll_pending" /\ WIRQ' = WIRQ
    BY <1>1, <2>1, <2>2, Zenon DEF ConIInv, CardMatches, PollPcs
  <2>3. CASE wpc[w] = "poll_polled" /\ WIRQ' = [enable |-> TRUE, force |-> FALSE, active |-> FALSE]
    <3>1. WIRQ'.enable /\ ~WIRQ'.active
      BY <2>3
    <3> QED BY <1>1, <2>1, <2>3, <3>1, Zenon DEF ConIInv, CardMatches, PollPcs
  <2> QED BY <1>1, <2>2, <2>3, Zenon
<1>6. OneEnd'
  <2>1. Cardinality(Senders') = Cardinality(Senders) /\ Cardinality(Senders) \in Nat
    BY <1>1, SendersSame DEF ConIInv
  <2> QED BY <1>1, <1>2, <2>1, Zenon DEF ConIInv, ConTypeOK, OneEnd
<1>7. InputInOrder' /\ ReadersMatch'
  BY <1>2, Zenon DEF ConIInv, InputInOrder, ReadersMatch, Taking
<1> QED BY <1>3, <1>4, <1>5, <1>6, <1>7, Zenon DEF ConIInv

\* The card has sent its character.
LEMMA CardSentIInv == ASSUME ConIInv, card_sent PROVE ConIInv'
<1>1. /\ sending = TRUE /\ sending' = FALSE /\ WIRQ' = [WIRQ EXCEPT !.active = TRUE]
      /\ UNCHANGED <<rchar, ls_lock, ls_wbusy, cs_wsem, cs_rsem, irq, wpc>>
      /\ UNCHANGED <<con_userlock_read, rpc, ch, tail, together>>
      /\ UNCHANGED <<cs_gotchars, cs_gotchars_head, cs_gotchars_tail, typed>>
  BY DEF card_sent, ring, readers, ConIInv, ConTypeOK
<1>2. WIRQ' \in WirqType /\ WIRQ'.active = TRUE /\ WIRQ'.enable = WIRQ.enable
  BY <1>1, Zenon DEF ConIInv, ConTypeOK, WirqType
<1>3. ConTypeOK'
  BY <1>1, <1>2, Zenon DEF ConIInv, ConTypeOK
<1>4. PollerHolds'
  BY <1>1 DEF ConIInv, PollerHolds
<1>5. CardMatches'
  BY <1>1, <1>2 DEF ConIInv, CardMatches
<1>6. OneEnd'
  BY <1>1 DEF ConIInv, OneEnd, Senders
<1>7. InputInOrder' /\ ReadersMatch'
  BY <1>1, Zenon DEF ConIInv, InputInOrder, ReadersMatch, Taking
<1> QED BY <1>3, <1>4, <1>5, <1>6, <1>7 DEF ConIInv

\* The card has received a character.
LEMMA CardReceivedIInv == ASSUME ConIInv, card_received PROVE ConIInv'
<1>1. /\ rchar' \in Chars
      /\ UNCHANGED <<WIRQ, sending, ls_lock, ls_wbusy, cs_wsem, cs_rsem, irq, wpc>>
      /\ UNCHANGED <<con_userlock_read, rpc, ch, tail, together>>
      /\ UNCHANGED <<cs_gotchars, cs_gotchars_head, cs_gotchars_tail, typed>>
  BY Zenon DEF card_received, ring, readers
<1>2. ConTypeOK'
  BY <1>1 DEF ConIInv, ConTypeOK
<1>3. PollerHolds' /\ CardMatches' /\ OneEnd' /\ InputInOrder' /\ ReadersMatch'
  BY <1>1, Zenon DEF ConIInv, PollerHolds, CardMatches, OneEnd, InputInOrder, Senders, ReadersMatch, Taking
<1> QED BY <1>2, <1>3, Zenon DEF ConIInv

\* lser_irq as far as its unlock.
LEMMA LserIrqIInv == ASSUME ConIInv, lser_irq PROVE ConIInv'
<1>1. /\ irq.at = "idle" /\ ls_lock = Free
      /\ irq' = [at |-> "callbacks", clear_to_write |-> WIRQ.active, ch |-> rchar]
      /\ rchar' = NoChar
      /\ UNCHANGED <<sending, ls_lock, cs_wsem, cs_rsem, wpc>>
      /\ UNCHANGED <<con_userlock_read, rpc, ch, tail, together>>
      /\ UNCHANGED <<cs_gotchars, cs_gotchars_head, cs_gotchars_tail, typed>>
  BY DEF lser_irq, ring, readers
<1>2. WIRQ \in WirqType /\ WIRQ.active \in BOOLEAN /\ rchar \in Chars \cup {NoChar}
  BY Zenon DEF ConIInv, ConTypeOK, WirqType
<1>3. irq' \in IrqType /\ irq'.at = "callbacks" /\ irq'.clear_to_write = WIRQ.active
  BY <1>1, <1>2, Zenon DEF IrqType
<1>4. PollerHolds'
  BY <1>1, Zenon DEF ConIInv, PollerHolds
<1>5. InputInOrder' /\ ReadersMatch'
  BY <1>1, Zenon DEF ConIInv, InputInOrder, ReadersMatch, Taking
<1>6. Senders' = Senders
  BY <1>1 DEF Senders
<1>7. CASE WIRQ.active
  <2>1. ls_wbusy' = FALSE /\ WIRQ' = [enable |-> TRUE, force |-> FALSE, active |-> FALSE]
    BY <1>7, Zenon DEF lser_irq, SetWIRQ
  <2>2. ls_wbusy = TRUE /\ sending = FALSE
    BY <1>1, <1>7 DEF ConIInv, ConTypeOK, CardMatches
  <2>3. WIRQ' \in WirqType
    BY <2>1 DEF WirqType
  <2>4. ConTypeOK'
    BY <1>1, <1>3, <2>1, <2>3, Zenon DEF ConIInv, ConTypeOK
  <2>5. CardMatches'
    BY <1>1, <2>1, <2>2, ConAssumption, Zenon DEF ConIInv, CardMatches, PollerHolds, PollPcs
  <2>6. OneEnd'
    BY <1>1, <1>3, <1>6, <1>7, <2>1, <2>2 DEF ConIInv, OneEnd
  <2> QED BY <1>4, <1>5, <2>4, <2>5, <2>6, Zenon DEF ConIInv
<1>8. CASE ~WIRQ.active
  <2>1. ls_wbusy' = ls_wbusy /\ WIRQ' = WIRQ
    BY <1>8 DEF lser_irq
  <2>2. irq'.clear_to_write = FALSE /\ irq.clear_to_write = FALSE
    BY <1>1, <1>2, <1>3, <1>8, Zenon DEF ConIInv, ConTypeOK, OneEnd, IrqType
  <2>3. ConTypeOK'
    BY <1>1, <1>3, <2>1, Zenon DEF ConIInv, ConTypeOK
  <2>4. CardMatches'
    BY <1>1, <2>1, Zenon DEF ConIInv, CardMatches
  <2>5. OneEnd'
    BY <1>1, <1>3, <1>6, <2>1, <2>2 DEF ConIInv, OneEnd
  <2> QED BY <1>4, <1>5, <2>3, <2>4, <2>5, Zenon DEF ConIInv
<1> QED BY <1>7, <1>8, Zenon

\* The ring: how many characters lie between tail and head, the slot after a
\* slot, and the slot of the i-th character.
LEMMA RingCount ==
  ASSUME NEW h \in Slots, NEW t \in Slots
  PROVE  (h - t) % INPUT_BUFFER = IF h >= t THEN h - t ELSE h - t + INPUT_BUFFER
BY ConAssumption DEF Slots

\* The slot after a slot.
LEMMA RingNext ==
  ASSUME NEW i \in Slots
  PROVE  Following(i) \in Slots /\ Following(i) = IF i = INPUT_BUFFER - 1 THEN 0 ELSE i + 1
BY ConAssumption DEF Slots, Following

\* The slot of the i-th character.
LEMMA RingSlot ==
  ASSUME NEW t \in Slots, NEW i \in 1 .. INPUT_BUFFER
  PROVE  (t + i - 1) % INPUT_BUFFER = IF t + i - 1 < INPUT_BUFFER THEN t + i - 1 ELSE t + i - 1 - INPUT_BUFFER
BY ConAssumption DEF Slots

\* What is where after an Append.
LEMMA TypedLast ==
  ASSUME NEW S, NEW q \in Seq(S), NEW b \in S, NEW n \in Nat, n = Len(q)
  PROVE  /\ Append(q, b) \in Seq(S) /\ Len(Append(q, b)) = n + 1
         /\ Append(q, b)[n + 1] = b /\ \A i \in 1 .. n : Append(q, b)[i] = q[i]
OBVIOUS

\* con_input puts a character where none is, and after the others.
LEMMA ConInputInOrder ==
  ASSUME ConTypeOK, InputInOrder, con_input, UNCHANGED <<rpc, ch, tail, together>>
  PROVE  /\ InputInOrder' /\ cs_rsem' \in Nat /\ typed' \in Seq(Chars)
         /\ cs_gotchars' \in [Slots -> Chars \cup {NoChar}] /\ cs_gotchars_head' \in Slots /\ cs_gotchars_tail' \in Slots
<1>1. CASE irq.ch = NoChar \/ buffer_full(cs_gotchars_head)
  BY <1>1, Zenon DEF con_input, ring, ConTypeOK, InputInOrder, Taking
<1>2. CASE ~(irq.ch = NoChar \/ buffer_full(cs_gotchars_head))
  <2> DEFINE h == cs_gotchars_head
             t == cs_gotchars_tail
             N == INPUT_BUFFER
  <2>1. /\ cs_gotchars' = [cs_gotchars EXCEPT ![h] = irq.ch] /\ cs_gotchars_head' = Following(h)
        /\ typed' = Append(typed, irq.ch) /\ cs_rsem' = cs_rsem + 1 /\ cs_gotchars_tail' = t
        /\ Following(h) # t
    BY <1>2, Zenon DEF con_input, buffer_full
  <2>2. irq.ch \in Chars
    BY <1>2, Zenon DEF ConTypeOK, IrqType
  <2>3. h \in Slots /\ t \in Slots /\ N \in Nat \ {0}
    BY ConAssumption, Zenon DEF ConTypeOK
  <2> DEFINE b == irq.ch
  <2>4. PICK n \in Nat : n = Len(typed)
    BY DEF ConTypeOK
  <2> HIDE DEF h, t, N, b
  <2>5. typed' \in Seq(Chars) /\ cs_rsem' \in Nat
    BY <2>1, <2>2 DEF ConTypeOK, b
  <2>10. rpc' = rpc /\ ch' = ch /\ tail' = tail /\ together' = together
    BY Zenon
  <2>6. Following(h) \in Slots
    BY <2>3, RingNext
  <2>7. ASSUME ~together PROVE InputInOrder'
    <3>1. n = (h - t) % N /\ \A i \in 1 .. n : cs_gotchars[(t + i - 1) % N] = typed[i]
      BY <2>4, <2>7, Zenon DEF InputInOrder, h, t, N
    <3>2. n = IF h >= t THEN h - t ELSE h - t + N
      BY <2>3, <3>1, RingCount, Zenon DEF N
    <3>3. Following(h) \in Slots /\ Following(h) = IF h = N - 1 THEN 0 ELSE h + 1
      BY <2>3, RingNext DEF N
    <3>4. h \in 0 .. N - 1 /\ t \in 0 .. N - 1
      BY <2>3, Zenon DEF Slots, N
    <3>5. n + 1 < N
      BY <2>1, <2>3, <3>2, <3>3, <3>4
    <3>6. n + 1 = (Following(h) - t) % N
      <4>1. (Following(h) - t) % N = IF Following(h) >= t THEN Following(h) - t ELSE Following(h) - t + N
        BY <2>3, <3>3, RingCount, Zenon DEF N
      <4> QED BY <2>1, <2>3, <3>2, <3>3, <3>4, <4>1
    <3>7. ASSUME NEW i \in 1 .. n + 1 PROVE (t + i - 1) % N \in Slots /\ ((t + i - 1) % N = h <=> i = n + 1)
      <4>1. i \in 1 .. N
        BY <2>3, <3>5
      <4>2. (t + i - 1) % N = IF t + i - 1 < N THEN t + i - 1 ELSE t + i - 1 - N
        BY <2>3, <4>1, RingSlot, Zenon DEF N
      <4>3. (t + i - 1) % N \in 0 .. N - 1
        BY <2>3, <3>4, <4>1, <4>2
      <4> QED BY <2>3, <3>2, <3>4, <3>5, <4>1, <4>2, <4>3 DEF Slots, N
    <3>8. typed' \in Seq(Chars) /\ Len(typed') = n + 1 /\ typed'[n + 1] = b /\ \A i \in 1 .. n : typed'[i] = typed[i]
      <4>1. typed' = Append(typed, b) /\ b \in Chars /\ typed \in Seq(Chars)
        BY <2>1, <2>2, Zenon DEF b, ConTypeOK
      <4> QED BY <2>4, <4>1, TypedLast
    <3>9. \A j \in Slots : cs_gotchars'[j] = IF j = h THEN b ELSE cs_gotchars[j]
      BY <2>1, <2>3 DEF b, ConTypeOK
    <3>10. ASSUME NEW i \in 1 .. n + 1 PROVE cs_gotchars'[(t + i - 1) % N] = typed'[i]
      <4>1. CASE i = n + 1
        BY <3>7, <3>8, <3>9, <4>1, Zenon
      <4>2. CASE i # n + 1
        <5>1. i \in 1 .. n
          BY <4>2
        <5> QED BY <3>1, <3>7, <3>8, <3>9, <4>2, <5>1
      <4> QED BY <4>1, <4>2, Zenon
    <3>11. cs_rsem' = n + 1 - (IF \E r \in Readers : Taking(r) THEN 1 ELSE 0)
      <4>1. cs_rsem = n - (IF \E r \in Readers : Taking(r) THEN 1 ELSE 0) /\ cs_rsem' = cs_rsem + 1
        BY <2>1, <2>4, <2>7, Zenon DEF InputInOrder
      <4> HIDE DEF Taking
      <4> QED BY <4>1
    <3>12. \A r \in Readers : rpc[r] = "store" => ch[r] = typed'[1] /\ tail[r] = t
      <4>1. ASSUME NEW r \in Readers, rpc[r] = "store" PROVE n > 0 /\ ch[r] = typed[1] /\ tail[r] = t
        <5>1. ch[r] = typed[1] /\ tail[r] = t
          BY <2>7, <4>1, Zenon DEF InputInOrder, t
        <5>2. cs_rsem = n - 1 /\ cs_rsem \in Nat
          <6>1. \E q \in Readers : Taking(q)
            BY <4>1, Zenon DEF Taking
          <6>2. cs_rsem = n - (IF \E q \in Readers : Taking(q) THEN 1 ELSE 0) /\ cs_rsem \in Nat
            BY <2>4, <2>7, Zenon DEF InputInOrder, ConTypeOK
          <6> QED BY <6>1, <6>2
        <5> QED BY <5>1, <5>2
      <4> QED BY <3>8, <4>1
    <3>13. /\ Len(typed') = (cs_gotchars_head' - cs_gotchars_tail') % INPUT_BUFFER
           /\ \A i \in 1 .. Len(typed') : cs_gotchars'[(cs_gotchars_tail' + i - 1) % INPUT_BUFFER] = typed'[i]
      BY <2>1, <3>6, <3>8, <3>10, Zenon DEF N
    <3>14. cs_rsem' = Len(typed') - (IF \E r \in Readers : Taking(r)' THEN 1 ELSE 0)
      <4>1. \A r \in Readers : Taking(r)' <=> Taking(r)
        BY <2>10, Zenon DEF Taking
      <4>2. (\E r \in Readers : Taking(r)') <=> \E r \in Readers : Taking(r)
        BY <4>1, Zenon
      <4> QED BY <3>8, <3>11, <4>2
    <3>15. \A r \in Readers : rpc'[r] = "store" => ch'[r] = typed'[1] /\ tail'[r] = cs_gotchars_tail'
      BY <2>1, <2>10, <3>12, Zenon
    <3> QED BY <3>13, <3>14, <3>15, Zenon DEF InputInOrder
  <2>8. ASSUME together PROVE InputInOrder'
    <3>1. together = TRUE
      BY <2>8 DEF ConTypeOK
    <3>2. together' = TRUE
      BY <2>10, <3>1, Zenon
    <3> QED BY <3>2, Zenon DEF InputInOrder
  <2>9. cs_gotchars' \in [Slots -> Chars \cup {NoChar}]
    BY <2>1, <2>2, <2>3, Zenon DEF ConTypeOK
  <2> QED BY <2>1, <2>3, <2>5, <2>6, <2>7, <2>8, <2>9, Zenon
<1> QED BY <1>1, <1>2, Zenon

\* con_start and con_input.
LEMMA CallbacksIInv == ASSUME ConIInv, irq_callbacks PROVE ConIInv'
<1>1. /\ irq' = [at |-> "idle", clear_to_write |-> FALSE, ch |-> NoChar]
      /\ con_input /\ cs_wsem' = (IF irq.clear_to_write THEN cs_wsem + 1 ELSE cs_wsem)
      /\ UNCHANGED <<WIRQ, sending, rchar, ls_lock, ls_wbusy, wpc>>
      /\ UNCHANGED <<con_userlock_read, rpc, ch, tail, together>>
  BY Zenon DEF irq_callbacks, con_start, card_vars, readers
<1>2. /\ InputInOrder' /\ cs_rsem' \in Nat /\ typed' \in Seq(Chars)
      /\ cs_gotchars' \in [Slots -> Chars \cup {NoChar}] /\ cs_gotchars_head' \in Slots /\ cs_gotchars_tail' \in Slots
  BY <1>1, ConInputInOrder DEF ConIInv
<1>3. irq' \in IrqType /\ irq'.at = "idle" /\ irq'.clear_to_write = FALSE
  BY <1>1, Zenon DEF IrqType
<1>4. ConTypeOK'
  <2>1. cs_wsem' \in Nat
    BY <1>1 DEF ConIInv, ConTypeOK
  <2> QED BY <1>1, <1>2, <1>3, <2>1, Zenon DEF ConIInv, ConTypeOK
<1>5. PollerHolds' /\ CardMatches' /\ ReadersMatch'
  BY <1>1, Zenon DEF ConIInv, PollerHolds, CardMatches, ReadersMatch, Taking
<1>6. OneEnd'
  <2>1. Senders' = Senders /\ Cardinality(Senders) \in Nat
    BY <1>1, FS_Subset, FS_CardinalityType, ConAssumption DEF Senders
  <2>2. PICK e \in {0, 1}, k \in Nat : e = (IF ls_wbusy THEN 1 ELSE 0) /\ k = Cardinality(Senders)
    BY <2>1
  <2>3. cs_wsem \in Nat /\ irq.clear_to_write \in BOOLEAN /\ ls_wbusy \in BOOLEAN
    BY DEF ConIInv, ConTypeOK, IrqType
  <2>4. cs_wsem' + e + k = 1
    <3>1. CASE irq.clear_to_write
      <4>1. cs_wsem + 1 + k = 1 /\ e = 0 /\ cs_wsem' = cs_wsem + 1
        BY <1>1, <2>2, <3>1 DEF ConIInv, OneEnd
      <4> QED BY <2>3, <4>1
    <3>2. CASE ~irq.clear_to_write
      BY <1>1, <2>2, <3>2 DEF ConIInv, OneEnd
    <3> QED BY <3>1, <3>2
  <2> QED BY <1>1, <1>3, <2>1, <2>2, <2>4, Zenon DEF OneEnd
<1> QED BY <1>2, <1>4, <1>5, <1>6 DEF ConIInv

\* What a reader's step leaves alone.
LEMMA ReaderLeaves ==
  ASSUME ConIInv, UNCHANGED <<WIRQ, sending, rchar, ls_lock, ls_wbusy, cs_wsem, irq, wpc>>
  PROVE  PollerHolds' /\ CardMatches' /\ OneEnd'
BY Zenon DEF ConIInv, PollerHolds, CardMatches, OneEnd, Senders

\* con_io takes and gives back its lock.
LEMMA ConIoIInv ==
  ASSUME ConIInv, NEW r \in Readers, con_io_acquire(r) \/ con_io_release(r) PROVE ConIInv'
<1>1. PICK p \in {"out", "getch"} :
      /\ r \notin Kgets /\ rpc[r] \in {"out", "getch"} /\ rpc' = [rpc EXCEPT ![r] = p]
      /\ \/ p = "getch" /\ con_userlock_read = Free /\ con_userlock_read' = r
         \/ p = "out" /\ rpc[r] = "getch" /\ con_userlock_read' = Free
      /\ UNCHANGED <<WIRQ, sending, rchar, ls_lock, ls_wbusy, cs_wsem, cs_rsem, irq, wpc>>
      /\ UNCHANGED <<cs_gotchars, cs_gotchars_head, cs_gotchars_tail, typed, ch, tail, together>>
  BY Zenon DEF con_io_acquire, con_io_release, RGoto, card_vars, ring
<1>2. /\ rpc' \in [Readers -> {"out", "getch", "fetch", "store"}] /\ rpc'[r] = p
      /\ \A q \in Readers : q # r => rpc'[q] = rpc[q]
  BY <1>1 DEF ConIInv, ConTypeOK
<1>3. ConTypeOK'
  BY <1>1, <1>2, Zenon DEF ConIInv, ConTypeOK
<1>4. \A q \in Readers : (Taking(q)' <=> Taking(q)) /\ (rpc'[q] = "store" <=> rpc[q] = "store")
  BY <1>1, <1>2 DEF Taking
<1>5. InputInOrder'
  <2>1. (\E q \in Readers : Taking(q)') <=> \E q \in Readers : Taking(q)
    BY <1>4, Zenon
  <2> QED BY <1>1, <1>4, <2>1, Zenon DEF ConIInv, InputInOrder
<1>6. \A q \in Readers : q \notin Kgets /\ rpc'[q] # "out" => con_userlock_read' = q
  BY <1>1, <1>2, ConAssumption DEF ConIInv, ReadersMatch
<1>7. ReadersMatch'
  BY <1>1, <1>4, <1>6, Zenon DEF ConIInv, ReadersMatch
<1> QED BY <1>1, <1>3, <1>5, <1>7, ReaderLeaves DEF ConIInv

\* getch_intr waits.
LEMMA GetchPIInv == ASSUME ConIInv, NEW r \in Readers, getch_P(r) PROVE ConIInv'
<1>1. /\ rpc[r] = "getch" /\ rpc' = [rpc EXCEPT ![r] = "fetch"] /\ cs_rsem > 0 /\ cs_rsem' = cs_rsem - 1
      /\ together' = (together \/ \E q \in Readers : Taking(q))
      /\ UNCHANGED <<WIRQ, sending, rchar, ls_lock, ls_wbusy, cs_wsem, irq, wpc>>
      /\ UNCHANGED <<cs_gotchars, cs_gotchars_head, cs_gotchars_tail, typed, con_userlock_read, ch, tail>>
  BY Zenon DEF getch_P, RGoto, card_vars, ring
<1>2. /\ rpc' \in [Readers -> {"out", "getch", "fetch", "store"}] /\ rpc'[r] = "fetch"
      /\ \A q \in Readers : q # r => rpc'[q] = rpc[q]
  BY <1>1 DEF ConIInv, ConTypeOK
<1>3. ConTypeOK'
  <2>1. cs_rsem' \in Nat
    BY <1>1 DEF ConIInv, ConTypeOK
  <2>2. together' \in BOOLEAN
    BY <1>1, Zenon
  <2> QED BY <1>1, <1>2, <2>1, <2>2, Zenon DEF ConIInv, ConTypeOK
<1>4. InputInOrder'
  <2>1. ASSUME ~together' PROVE ~together /\ \A q \in Readers : ~Taking(q)
    BY <1>1, <2>1, Zenon
  <2>2. Taking(r)' /\ \A q \in Readers : q # r => (Taking(q)' <=> Taking(q))
    BY <1>2, Zenon DEF Taking
  <2>3. ASSUME ~together'
        PROVE  cs_rsem' = Len(typed) - 1 /\ \A q \in Readers : rpc'[q] # "store"
    <3>1. ~together /\ ~\E q \in Readers : Taking(q)
      BY <2>1, <2>3, Zenon
    <3>2. cs_rsem = Len(typed) - (IF \E q \in Readers : Taking(q) THEN 1 ELSE 0)
      BY <3>1, Zenon DEF ConIInv, InputInOrder
    <3>3. cs_rsem' = Len(typed) - 1
      BY <1>1, <3>1, <3>2 DEF ConIInv, ConTypeOK
    <3> QED BY <1>2, <3>1, <3>3, Zenon DEF Taking
  <2> QED BY <1>1, <2>1, <2>2, <2>3, Zenon DEF ConIInv, InputInOrder
<1>5. ReadersMatch'
  <2>1. \A q \in Readers : q \notin Kgets /\ rpc'[q] # "out" => con_userlock_read' = q
    BY <1>1, <1>2 DEF ConIInv, ReadersMatch
  <2>2. ASSUME ~together', NEW q \in Readers, NEW v \in Readers, Taking(q)', Taking(v)' PROVE q = v
    BY <1>1, <1>2, <2>2, Zenon DEF Taking
  <2>3. ASSUME NEW q \in Readers, Taking(q) PROVE Kgets # {}
    <3>1. q # r /\ rpc[q] # "out"
      BY <1>1, <2>3, Zenon DEF Taking
    <3>2. r \in Kgets \/ con_userlock_read = r
      BY <1>1 DEF ConIInv, ReadersMatch
    <3>3. q \in Kgets \/ con_userlock_read = q
      BY <3>1, Zenon DEF ConIInv, ReadersMatch
    <3> QED BY <3>1, <3>2, <3>3, Zenon
  <2>4. together' => Kgets # {}
    BY <1>1, <2>3, Zenon DEF ConIInv, ReadersMatch
  <2> QED BY <2>1, <2>2, <2>4, Zenon DEF ReadersMatch
<1> QED BY <1>1, <1>3, <1>4, <1>5, ReaderLeaves DEF ConIInv

\* The first of the characters in the ring is at the tail.
LEMMA Oldest ==
  ASSUME ConIInv, ~together, NEW r \in Readers, Taking(r)
  PROVE  /\ Len(typed) > 0 /\ cs_rsem = Len(typed) - 1
         /\ cs_gotchars[cs_gotchars_tail] = typed[1]
<1>1. PICK n \in Nat : n = Len(typed)
  BY DEF ConIInv, ConTypeOK
<1>2. cs_rsem = n - 1 /\ n > 0
  BY <1>1 DEF ConIInv, ConTypeOK, InputInOrder
<1>3. cs_gotchars[(cs_gotchars_tail + 1 - 1) % INPUT_BUFFER] = typed[1]
  <2>1. 1 \in 1 .. n
    BY <1>2
  <2> QED BY <1>1, <2>1, Zenon DEF ConIInv, InputInOrder
<1>4. (cs_gotchars_tail + 1 - 1) % INPUT_BUFFER = cs_gotchars_tail
  <2>1. cs_gotchars_tail \in Slots /\ 1 \in 1 .. INPUT_BUFFER
    BY ConAssumption DEF ConIInv, ConTypeOK
  <2>2. (cs_gotchars_tail + 1 - 1) % INPUT_BUFFER =
          IF cs_gotchars_tail + 1 - 1 < INPUT_BUFFER THEN cs_gotchars_tail + 1 - 1 ELSE cs_gotchars_tail + 1 - 1 - INPUT_BUFFER
    BY <2>1, RingSlot, Zenon
  <2> QED BY <2>1, <2>2, ConAssumption DEF Slots
<1> QED BY <1>1, <1>2, <1>3, <1>4

\* getch_intr reads the oldest character.
LEMMA GetchFetchIInv == ASSUME ConIInv, NEW r \in Readers, getch_fetch(r) PROVE ConIInv'
<1> DEFINE c == cs_gotchars[cs_gotchars_tail]
<1>1. /\ rpc[r] = "fetch" /\ rpc' = [rpc EXCEPT ![r] = "store"]
      /\ ch' = [ch EXCEPT ![r] = c] /\ tail' = [tail EXCEPT ![r] = cs_gotchars_tail]
      /\ UNCHANGED <<WIRQ, sending, rchar, ls_lock, ls_wbusy, cs_wsem, irq, wpc>>
      /\ UNCHANGED <<cs_rsem, cs_gotchars, cs_gotchars_head, cs_gotchars_tail, typed, con_userlock_read, together>>
  BY Zenon DEF getch_fetch, RGoto, card_vars, ring
<1>2. c \in Chars \cup {NoChar} /\ cs_gotchars_tail \in Slots
  BY DEF ConIInv, ConTypeOK
<1>3. ~together => c = typed[1]
  BY <1>1, Oldest, Zenon DEF Taking
<1> HIDE DEF c
<1>4. /\ rpc' \in [Readers -> {"out", "getch", "fetch", "store"}] /\ rpc'[r] = "store"
      /\ ch' \in [Readers -> Chars \cup {NoChar}] /\ ch'[r] = c
      /\ tail' \in [Readers -> Slots] /\ tail'[r] = cs_gotchars_tail
      /\ \A q \in Readers : q # r => rpc'[q] = rpc[q] /\ ch'[q] = ch[q] /\ tail'[q] = tail[q]
  BY <1>1, <1>2 DEF ConIInv, ConTypeOK
<1>5. ConTypeOK'
  BY <1>1, <1>4, Zenon DEF ConIInv, ConTypeOK
<1>6. \A q \in Readers : (Taking(q)' <=> Taking(q)) /\ (rpc'[q] # "out" <=> rpc[q] # "out")
  BY <1>1, <1>4, Zenon DEF Taking
<1>7. InputInOrder'
  <2>1. (\E q \in Readers : Taking(q)') <=> \E q \in Readers : Taking(q)
    BY <1>6, Zenon
  <2>2. ASSUME ~together, NEW q \in Readers, rpc'[q] = "store" PROVE ch'[q] = typed[1] /\ tail'[q] = cs_gotchars_tail
    BY <1>3, <1>4, <2>2, Zenon DEF ConIInv, InputInOrder
  <2> QED BY <1>1, <2>1, <2>2 DEF ConIInv, InputInOrder
<1>8. ReadersMatch'
  BY <1>1, <1>6, Zenon DEF ConIInv, ReadersMatch
<1> QED BY <1>1, <1>5, <1>7, <1>8, ReaderLeaves DEF ConIInv

\* The ring without its oldest character.
LEMMA RingAdvances ==
  ASSUME NEW h \in Slots, NEW t \in Slots, NEW n \in Nat, n > 0, n = (h - t) % INPUT_BUFFER
  PROVE  /\ n - 1 = (h - Following(t)) % INPUT_BUFFER
         /\ \A i \in 1 .. n - 1 : (Following(t) + i - 1) % INPUT_BUFFER = (t + (i + 1) - 1) % INPUT_BUFFER
<1> DEFINE N == INPUT_BUFFER
<1>1. N \in Nat \ {0}
  BY ConAssumption
<1> HIDE DEF N
<1>2. n = IF h >= t THEN h - t ELSE h - t + N
  BY RingCount DEF N
<1>3. Following(t) \in Slots /\ Following(t) = IF t = N - 1 THEN 0 ELSE t + 1
  BY RingNext DEF N
<1>4. h \in 0 .. N - 1 /\ t \in 0 .. N - 1
  BY DEF Slots, N
<1>5. n < N
  BY <1>1, <1>2, <1>4
<1>6. n - 1 = (h - Following(t)) % N
  <2>1. (h - Following(t)) % N = IF h >= Following(t) THEN h - Following(t) ELSE h - Following(t) + N
    BY <1>3, RingCount, Zenon DEF N
  <2> QED BY <1>1, <1>2, <1>3, <1>4, <2>1
<1>7. ASSUME NEW i \in 1 .. n - 1 PROVE (Following(t) + i - 1) % N = (t + (i + 1) - 1) % N
  <2>1. PICK j \in 1 .. n : j = i + 1
    OBVIOUS
  <2>2. i \in 1 .. N /\ j \in 1 .. N
    BY <1>1, <1>5, <2>1
  <2>3. /\ (Following(t) + i - 1) % N = IF Following(t) + i - 1 < N THEN Following(t) + i - 1 ELSE Following(t) + i - 1 - N
        /\ (t + j - 1) % N = IF t + j - 1 < N THEN t + j - 1 ELSE t + j - 1 - N
    BY <1>3, <2>2, RingSlot, Zenon DEF N
  <2>4. (Following(t) + i - 1) % N = (t + j - 1) % N
    BY <1>1, <1>3, <1>4, <1>5, <2>1, <2>2, <2>3
  <2> QED BY <2>1, <2>4
<1> QED BY <1>6, <1>7 DEF N

\* getch_intr moves the tail.
LEMMA GetchStoreIInv == ASSUME ConIInv, NEW r \in Readers, getch_store(r) PROVE ConIInv'
<1>1. /\ rpc[r] = "store" /\ rpc' = [rpc EXCEPT ![r] = "getch"]
      /\ cs_gotchars_tail' = Following(tail[r])
      /\ typed' = (IF typed = << >> THEN typed ELSE Tail(typed))
      /\ ch' = [ch EXCEPT ![r] = NoChar] /\ tail' = [tail EXCEPT ![r] = 0]
      /\ UNCHANGED <<WIRQ, sending, rchar, ls_lock, ls_wbusy, cs_wsem, irq, wpc>>
      /\ UNCHANGED <<cs_rsem, cs_gotchars, cs_gotchars_head, con_userlock_read, together>>
  BY Zenon DEF getch_store, RGoto, card_vars
<1>2. typed \in Seq(Chars) /\ typed' \in Seq(Chars)
  <2>1. typed \in Seq(Chars)
    BY Zenon DEF ConIInv, ConTypeOK
  <2> QED BY <1>1, <2>1
<1>3. 0 \in Slots /\ tail[r] \in Slots /\ cs_gotchars_tail' \in Slots
  <2>1. 0 \in Slots
    BY ConAssumption DEF Slots
  <2>2. tail[r] \in Slots
    BY DEF ConIInv, ConTypeOK
  <2> QED BY <1>1, <2>1, <2>2, RingNext, Zenon
<1>4. /\ rpc' \in [Readers -> {"out", "getch", "fetch", "store"}] /\ rpc'[r] = "getch"
      /\ ch' \in [Readers -> Chars \cup {NoChar}] /\ tail' \in [Readers -> Slots]
      /\ \A q \in Readers : q # r => rpc'[q] = rpc[q]
  BY <1>1, <1>3 DEF ConIInv, ConTypeOK
<1>5. ConTypeOK'
  BY <1>1, <1>2, <1>3, <1>4, Zenon DEF ConIInv, ConTypeOK
<1>6. \A q \in Readers : (q # r => (Taking(q)' <=> Taking(q))) /\ (rpc'[q] # "out" <=> rpc[q] # "out")
  BY <1>1, <1>4, Zenon DEF Taking
<1>7. Taking(r) /\ ~Taking(r)'
  BY <1>1, <1>4 DEF Taking
<1>8. ASSUME ~together PROVE \A q \in Readers : ~Taking(q)'
  BY <1>6, <1>7, <1>8, Zenon DEF ConIInv, ReadersMatch
<1>9. InputInOrder'
  <2>1. CASE together
    BY <1>1, <2>1 DEF InputInOrder
  <2>2. CASE ~together
    <3> DEFINE h == cs_gotchars_head
               t == cs_gotchars_tail
               N == INPUT_BUFFER
    <3>1. tail[r] = t
      BY <1>1, <2>2, Zenon DEF ConIInv, InputInOrder
    <3>2. PICK n \in Nat : n = Len(typed)
      BY <1>2
    <3>3. n > 0 /\ cs_rsem = n - 1
      BY <1>7, <2>2, <3>2, Oldest, Zenon
    <3>4. h \in Slots /\ t \in Slots
      BY DEF ConIInv, ConTypeOK
    <3>5. n = (h - t) % N /\ \A i \in 1 .. n : cs_gotchars[(t + i - 1) % N] = typed[i]
      BY <2>2, <3>2, Zenon DEF ConIInv, InputInOrder
    <3> HIDE DEF h, t, N
    <3>6. Len(typed') = n - 1 /\ \A i \in 1 .. n - 1 : typed'[i] = typed[i + 1]
      <4>1. typed # << >>
        BY <1>2, <3>2, <3>3
      <4>2. typed' = Tail(typed)
        BY <1>1, <4>1, Zenon
      <4> QED BY <1>2, <3>2, <4>1, <4>2
    <3>7. /\ n - 1 = (h - Following(t)) % N
          /\ \A i \in 1 .. n - 1 : (Following(t) + i - 1) % N = (t + (i + 1) - 1) % N
      BY <3>3, <3>4, <3>5, RingAdvances DEF N
    <3>8. ASSUME NEW i \in 1 .. n - 1 PROVE cs_gotchars[(Following(t) + i - 1) % N] = typed'[i]
      <4>1. i + 1 \in 1 .. n
        OBVIOUS
      <4> QED BY <3>5, <3>6, <3>7, <4>1, Zenon
    <3>9. /\ cs_gotchars_tail' = Following(t) /\ cs_gotchars_head' = h /\ cs_gotchars' = cs_gotchars
          /\ cs_rsem' = Len(typed') /\ N = INPUT_BUFFER
      BY <1>1, <3>1, <3>3, <3>6 DEF h, N
    <3>10. \A q \in Readers : rpc'[q] # "store" /\ ~Taking(q)'
      BY <1>8, <2>2 DEF Taking
    <3>11. Len(typed') \in Nat
      BY <1>2
    <3>12. cs_rsem' = Len(typed') - (IF \E q \in Readers : Taking(q)' THEN 1 ELSE 0)
      BY <3>9, <3>10, <3>11
    <3> QED BY <3>6, <3>7, <3>8, <3>9, <3>10, <3>12, Zenon DEF InputInOrder
  <2> QED BY <2>1, <2>2, Zenon
<1>10. ReadersMatch'
  BY <1>1, <1>6, <1>7, Zenon DEF ConIInv, ReadersMatch
<1> QED BY <1>1, <1>5, <1>9, <1>10, ReaderLeaves DEF ConIInv

\* Every step of the writers, the readers, the card and the handler.
LEMMA ConNextIInv == ASSUME ConIInv, [ConNext]_con_vars PROVE ConIInv'
<1>1. CASE ConNext
  BY <1>1, CardSentIInv, CardReceivedIInv, LserIrqIInv, CallbacksIInv, ConIoIInv, GetchPIInv,
     GetchFetchIInv, GetchStoreIInv, PutchIntrIInv, LserWriteIInv, WritepolledBusyIInv, WritepolledForceIInv, WritepolledIdleIInv, WritepolledSendIInv,
     WritepolledDoneIInv DEF ConNext, putch, getch
<1>2. CASE UNCHANGED con_vars
  BY <1>2, Zenon DEF con_vars, card_vars, ring, readers, ConIInv, ConTypeOK, PollerHolds, CardMatches, OneEnd, Senders,
     ReadersMatch, Taking, InputInOrder
<1> QED BY <1>1, <1>2, Zenon

\* What the theorem promises follows.
LEMMA ConIInvExact == ASSUME ConIInv PROVE ConsoleExact
<1>1. ASSUME NEW w \in Writers, wpc[w] = "send" PROVE ls_wbusy = FALSE
  <2>1. IsFiniteSet(Senders) /\ w \in Senders
    BY <1>1, FS_Subset, ConAssumption, Zenon DEF Senders
  <2>2. Cardinality(Senders) \in Nat /\ Cardinality(Senders) # 0
    BY <2>1, FS_CardinalityType, FS_EmptySet
  <2> QED BY <2>2 DEF ConIInv, ConTypeOK, OneEnd
<1>2. WriteIsClear
  BY <1>1, Zenon DEF ConIInv, ConTypeOK, CardMatches, WriteIsClear
<1>3. WriteWillEnd
  BY DEF ConIInv, CardMatches, OneEnd, Senders, WriteWillEnd
<1>4. ReadersApart
  BY Zenon DEF ConIInv, ReadersMatch, ReadersApart, Taking
<1> QED BY <1>2, <1>3, <1>4 DEF ConIInv, ConsoleExact

\* The console card is given a character only when it is clear, a write that
\* was begun is told of, con_io's readers never take a character together, and
\* as long as kgets does not take one together with another reader, every
\* character that con_input has put into the ring is returned once and in order
\* (lser_write, lser_writepolled, lser_irq, con_input, con_io, getch_intr).
THEOREM ConsoleRight == ConSpec => []ConsoleExact
<1>1. ConInit => ConIInv
  BY ConInitIInv
<1>2. ConIInv /\ [ConNext]_con_vars => ConIInv'
  BY ConNextIInv
<1>3. ConIInv => ConsoleExact
  BY ConIInvExact
<1> QED BY <1>1, <1>2, <1>3, PTL DEF ConSpec
=============================================================================
