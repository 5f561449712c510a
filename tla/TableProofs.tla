---------------------------- MODULE TableProofs -----------------------------
(***************************************************************************)
(* For any number of lists and threads: the links of a thread list are the *)
(* list, whatever is added and removed at its ends or in its middle.  For  *)
(* any size of the table and any pids: the shell's table of jobs is the    *)
(* children it has not collected.                                          *)
(***************************************************************************)
EXTENDS Threadlist, Shell, FiniteSetTheorems, TLAPS

TlTypeOK ==
  /\ tln_next \in [Nodes -> Nodes \cup {NULLNODE}]
  /\ tln_prev \in [Nodes -> Nodes \cup {NULLNODE}]
  /\ tl_count \in [Lists -> Int]
  /\ contents \in [Lists -> Seq(ListThreads)]

\* A thread is on one list at most, and there once.
OnOneList ==
  \A k, l \in Lists : \A i \in 1..Len(contents[k]), j \in 1..Len(contents[l]) :
    contents[k][i] = contents[l][j] => k = l /\ i = j

IInv == TlTypeOK /\ OnOneList /\ ListsHoldTheirThreads

----------------------------------------------------------------------------
(* Sequences: what is at which place after an insertion or a removal       *)

\* t is put after the p-th element.
Inserted(c, d, p, t) ==
  /\ d \in Seq(ListThreads) /\ Len(d) = Len(c) + 1
  /\ \A i \in 1..Len(d) : d[i] = IF i <= p THEN c[i] ELSE IF i = p + 1 THEN t ELSE c[i - 1]

\* The p-th element is taken out.
Removed(c, d, p) ==
  /\ d \in Seq(ListThreads) /\ Len(d) = Len(c) - 1
  /\ \A i \in 1..Len(d) : d[i] = IF i < p THEN c[i] ELSE c[i + 1]

\* The first p elements, and the ones after the p-th.
LEMMA Parts ==
  ASSUME NEW c \in Seq(ListThreads), NEW n \in Nat, n = Len(c), NEW p \in 0..n
  PROVE  /\ SubSeq(c, 1, p) \in Seq(ListThreads) /\ Len(SubSeq(c, 1, p)) = p
         /\ \A i \in 1..p : SubSeq(c, 1, p)[i] = c[i]
         /\ SubSeq(c, p + 1, n) \in Seq(ListThreads) /\ Len(SubSeq(c, p + 1, n)) = n - p
         /\ \A i \in 1..n - p : SubSeq(c, p + 1, n)[i] = c[p + i]
OBVIOUS

\* Two sequences in a row.
LEMMA Joined ==
  ASSUME NEW a \in Seq(ListThreads), NEW b \in Seq(ListThreads)
  PROVE  /\ a \o b \in Seq(ListThreads) /\ Len(a \o b) = Len(a) + Len(b)
         /\ \A i \in 1..Len(a) : (a \o b)[i] = a[i]
         /\ \A i \in 1..Len(b) : (a \o b)[Len(a) + i] = b[i]
OBVIOUS

\* With does put t there.
LEMMA WithInserts ==
  ASSUME NEW c \in Seq(ListThreads), NEW t \in ListThreads, NEW p \in 0..Len(c)
  PROVE  Inserted(c, With(c, p, t), p, t)
<1>1. PICK n \in Nat : n = Len(c) /\ p \in 0..n
  OBVIOUS
<1> DEFINE a == SubSeq(c, 1, p)
           b == SubSeq(c, p + 1, n)
           m == a \o <<t>>
           d == m \o b
<1>2. /\ a \in Seq(ListThreads) /\ Len(a) = p /\ \A i \in 1..p : a[i] = c[i]
      /\ b \in Seq(ListThreads) /\ Len(b) = n - p /\ \A i \in 1..n - p : b[i] = c[p + i]
  BY <1>1, Parts
<1> HIDE DEF a, b
<1>3. m \in Seq(ListThreads) /\ Len(m) = p + 1 /\ m[p + 1] = t /\ \A i \in 1..p : m[i] = a[i]
  <2>1. <<t>> \in Seq(ListThreads) /\ Len(<<t>>) = 1 /\ <<t>>[1] = t /\ 1 \in 1..1
    OBVIOUS
  <2>2. /\ m \in Seq(ListThreads) /\ Len(m) = Len(a) + Len(<<t>>)
        /\ \A i \in 1..Len(a) : m[i] = a[i]
        /\ \A i \in 1..Len(<<t>>) : m[Len(a) + i] = <<t>>[i]
    BY <1>2, <2>1, Joined, Zenon
  <2> HIDE DEF m
  <2> QED BY <1>2, <2>1, <2>2
<1> HIDE DEF m
<1>4. /\ d \in Seq(ListThreads) /\ Len(d) = (p + 1) + (n - p)
      /\ \A i \in 1..p + 1 : d[i] = m[i]
      /\ \A i \in 1..n - p : d[(p + 1) + i] = b[i]
  <2>1. /\ d \in Seq(ListThreads) /\ Len(d) = Len(m) + Len(b)
        /\ \A i \in 1..Len(m) : d[i] = m[i]
        /\ \A i \in 1..Len(b) : d[Len(m) + i] = b[i]
    BY <1>2, <1>3, Joined, Zenon
  <2> HIDE DEF d
  <2> QED BY <1>2, <1>3, <2>1
<1>5. With(c, p, t) = d
  BY <1>1, Zenon DEF With, m, a, b
<1> HIDE DEF d
<1>6. Len(d) = n + 1
  BY <1>1, <1>4
<1>7. ASSUME NEW i \in 1..n + 1
      PROVE  d[i] = IF i <= p THEN c[i] ELSE IF i = p + 1 THEN t ELSE c[i - 1]
  <2>1. CASE i <= p
    <3>1. i \in 1..p /\ i \in 1..p + 1
      BY <1>1, <2>1
    <3> QED BY <1>2, <1>3, <1>4, <2>1, <3>1
  <2>2. CASE i = p + 1
    <3>1. i \in 1..p + 1 /\ ~(i <= p)
      BY <1>1, <2>2
    <3> QED BY <1>3, <1>4, <2>2, <3>1
  <2>3. CASE i > p + 1
    <3>1. PICK k \in 1..n - p : i = (p + 1) + k /\ p + k = i - 1 /\ ~(i <= p) /\ i # p + 1
      BY <1>1, <2>3
    <3> QED BY <1>2, <1>4, <3>1, Zenon
  <2> QED BY <1>1, <2>1, <2>2, <2>3
<1> QED BY <1>1, <1>4, <1>5, <1>6, <1>7 DEF Inserted

\* Without does take it out.
LEMMA WithoutRemoves ==
  ASSUME NEW c \in Seq(ListThreads), NEW p \in 1..Len(c)
  PROVE  Removed(c, Without(c, p), p)
<1>1. PICK n \in Nat, q \in 0..Len(c) : n = Len(c) /\ p \in 1..n /\ p \in 0..n /\ q = p - 1 /\ q \in 0..n
  OBVIOUS
<1> DEFINE a == SubSeq(c, 1, q)
           b == SubSeq(c, p + 1, n)
           d == a \o b
<1>2. /\ a \in Seq(ListThreads) /\ Len(a) = q /\ \A i \in 1..q : a[i] = c[i]
      /\ b \in Seq(ListThreads) /\ Len(b) = n - p /\ \A i \in 1..n - p : b[i] = c[p + i]
  BY <1>1, Parts
<1> HIDE DEF a, b
<1>3. /\ d \in Seq(ListThreads) /\ Len(d) = q + (n - p)
      /\ \A i \in 1..q : d[i] = a[i]
      /\ \A i \in 1..n - p : d[q + i] = b[i]
  <2>1. /\ d \in Seq(ListThreads) /\ Len(d) = Len(a) + Len(b)
        /\ \A i \in 1..Len(a) : d[i] = a[i]
        /\ \A i \in 1..Len(b) : d[Len(a) + i] = b[i]
    BY <1>2, Joined, Zenon
  <2> HIDE DEF d
  <2> QED BY <1>2, <2>1
<1>4. Without(c, p) = d
  BY <1>1, Zenon DEF Without, a, b
<1> HIDE DEF d
<1>5. Len(d) = n - 1
  BY <1>1, <1>3
<1>6. ASSUME NEW i \in 1..n - 1
      PROVE  d[i] = IF i < p THEN c[i] ELSE c[i + 1]
  <2>1. CASE i < p
    <3>1. i \in 1..q
      BY <1>1, <2>1
    <3> QED BY <1>2, <1>3, <2>1, <3>1
  <2>2. CASE i >= p
    <3>1. PICK k \in 1..n - p : i = q + k /\ p + k = i + 1 /\ ~(i < p)
      BY <1>1, <2>2
    <3> QED BY <1>2, <1>3, <3>1, Zenon
  <2> QED BY <1>1, <2>1, <2>2
<1> QED BY <1>1, <1>3, <1>4, <1>5, <1>6, Zenon DEF Removed

----------------------------------------------------------------------------
(* Nodes                                                                   *)

\* Heads, tails and threads have nodes of their own.
LEMMA NodesDiffer ==
  ASSUME NEW k \in Lists, NEW l \in Lists, NEW t \in ListThreads, NEW u \in ListThreads
  PROVE  /\ Head_(k) \in Nodes /\ Tail_(k) \in Nodes /\ NodeOf(t) \in Nodes
         /\ Head_(k) # Tail_(l) /\ Head_(k) # NodeOf(t) /\ Tail_(k) # NodeOf(t)
         /\ Head_(k) = Head_(l) => k = l
         /\ Tail_(k) = Tail_(l) => k = l
         /\ NodeOf(t) = NodeOf(u) => t = u
         /\ Head_(k) # NULLNODE /\ Tail_(k) # NULLNODE /\ NodeOf(t) # NULLNODE
BY NullIsNoNode DEF Head_, Tail_, NodeOf, Nodes

\* The same without a thread at hand.
LEMMA EndsDiffer ==
  ASSUME NEW k \in Lists, NEW l \in Lists
  PROVE  /\ Head_(k) \in Nodes /\ Tail_(k) \in Nodes /\ Head_(k) # Tail_(l)
         /\ Head_(k) = Head_(l) => k = l
         /\ Tail_(k) = Tail_(l) => k = l
         /\ Head_(k) # NULLNODE /\ Tail_(k) # NULLNODE
BY NullIsNoNode DEF Head_, Tail_, Nodes

\* What is on a list is a sequence of threads.
LEMMA ContentsTyped ==
  ASSUME TlTypeOK, NEW k \in Lists
  PROVE  /\ contents[k] \in Seq(ListThreads) /\ Len(contents[k]) \in Nat
         /\ DOMAIN contents[k] = 1..Len(contents[k])
         /\ \A i \in 1..Len(contents[k]) : contents[k][i] \in ListThreads
<1>1. contents[k] \in Seq(ListThreads)
  BY DEF TlTypeOK
<1> QED BY <1>1

\* Where the head, the tail and the threads of a list are.
LEMMA NodeAtPlaces ==
  ASSUME TlTypeOK, NEW k \in Lists
  PROVE  /\ NodeAt(k, 0) = Head_(k)
         /\ NodeAt(k, Len(contents[k]) + 1) = Tail_(k)
         /\ \A i \in 1..Len(contents[k]) : NodeAt(k, i) = NodeOf(contents[k][i])
BY ContentsTyped DEF NodeAt

\* A node has one place on one list.
LEMMA PlacesDiffer ==
  ASSUME TlTypeOK, OnOneList, NEW k \in Lists, NEW l \in Lists,
         NEW i \in 0..Len(contents[k]) + 1, NEW j \in 0..Len(contents[l]) + 1
  PROVE  /\ NodeAt(k, i) \in Nodes
         /\ NodeAt(k, i) = NodeAt(l, j) => k = l /\ i = j
<1>1. \/ i = 0 \/ i = Len(contents[k]) + 1 \/ i \in 1..Len(contents[k])
  BY ContentsTyped
<1>2. \/ j = 0 \/ j = Len(contents[l]) + 1 \/ j \in 1..Len(contents[l])
  BY ContentsTyped
<1>3. CASE i = 0
  <2>1. NodeAt(k, i) = Head_(k)
    BY <1>3, NodeAtPlaces
  <2> QED BY <1>2, <1>3, <2>1, NodeAtPlaces, ContentsTyped, EndsDiffer, NodesDiffer
<1>4. CASE i = Len(contents[k]) + 1
  <2>1. NodeAt(k, i) = Tail_(k)
    BY <1>4, NodeAtPlaces
  <2> QED BY <1>2, <1>4, <2>1, NodeAtPlaces, ContentsTyped, EndsDiffer, NodesDiffer
<1>5. CASE i \in 1..Len(contents[k])
  <2>1. NodeAt(k, i) = NodeOf(contents[k][i]) /\ contents[k][i] \in ListThreads
    BY <1>5, NodeAtPlaces, ContentsTyped
  <2>2. CASE j \in 1..Len(contents[l])
    <3>1. NodeAt(l, j) = NodeOf(contents[l][j]) /\ contents[l][j] \in ListThreads
      BY <2>2, NodeAtPlaces, ContentsTyped
    <3>2. NodeOf(contents[k][i]) = NodeOf(contents[l][j]) => contents[k][i] = contents[l][j]
      BY <2>1, <3>1, NodesDiffer
    <3> QED BY <1>5, <2>1, <2>2, <3>1, <3>2, NodesDiffer DEF OnOneList
  <2> QED BY <1>2, <2>1, <2>2, NodeAtPlaces, NodesDiffer
<1> QED BY <1>1, <1>3, <1>4, <1>5

\* A thread on no list has its node at no place.
LEMMA OnNoneNowhere ==
  ASSUME TlTypeOK, NEW k \in Lists, NEW i \in 0..Len(contents[k]) + 1, NEW t \in ListThreads, OnNone(t)
  PROVE  NodeAt(k, i) # NodeOf(t)
<1>1. \/ i = 0 \/ i = Len(contents[k]) + 1 \/ i \in 1..Len(contents[k])
  BY ContentsTyped
<1>2. CASE i \in 1..Len(contents[k])
  <2>1. contents[k][i] # t /\ contents[k][i] \in ListThreads
    BY <1>2, ContentsTyped DEF OnNone
  <2> QED BY <1>2, <2>1, NodeAtPlaces, NodesDiffer
<1> QED BY <1>1, <1>2, NodeAtPlaces, NodesDiffer

----------------------------------------------------------------------------
(* Insertion                                                               *)

\* t comes to stand after the p-th node of the list tl.
Insertion(tl, p, t) ==
  LET e == NodeOf(t) x == NodeAt(tl, p) y == NodeAt(tl, p + 1)
  IN  /\ tln_next' = [tln_next EXCEPT ![e] = y, ![x] = e]
      /\ tln_prev' = [tln_prev EXCEPT ![e] = x, ![y] = e]
      /\ tl_count' = [tl_count EXCEPT ![tl] = @ + 1]
      /\ \E d : contents' = [contents EXCEPT ![tl] = d] /\ Inserted(contents[tl], d, p, t)

\* An insertion leaves links that are the list.
LEMMA InsertionIInv ==
  ASSUME IInv, NEW tl \in Lists, NEW t \in ListThreads, OnNone(t), NEW p \in 0..Len(contents[tl]),
         Insertion(tl, p, t)
  PROVE  IInv'
<1> DEFINE e == NodeOf(t)
           x == NodeAt(tl, p)
           y == NodeAt(tl, p + 1)
<1>1. PICK n \in Nat : n = Len(contents[tl]) /\ p \in 0..n
  BY ContentsTyped DEF IInv
<1>2. PICK d : contents' = [contents EXCEPT ![tl] = d] /\ Inserted(contents[tl], d, p, t)
  BY Zenon DEF Insertion
<1>3. /\ tln_next' = [tln_next EXCEPT ![e] = y, ![x] = e]
      /\ tln_prev' = [tln_prev EXCEPT ![e] = x, ![y] = e]
      /\ tl_count' = [tl_count EXCEPT ![tl] = @ + 1]
  BY DEF Insertion
<1>4. /\ x \in Nodes /\ y \in Nodes /\ e \in Nodes /\ e # x /\ e # y
  BY <1>1, PlacesDiffer, OnNoneNowhere, NodesDiffer DEF IInv
<1>5. /\ contents'[tl] = d /\ Len(d) = n + 1 /\ d \in Seq(ListThreads)
      /\ \A i \in 1..n + 1 : d[i] = IF i <= p THEN contents[tl][i] ELSE IF i = p + 1 THEN t ELSE contents[tl][i - 1]
      /\ \A k \in Lists : k # tl => contents'[k] = contents[k]
  BY <1>1, <1>2 DEF Inserted, IInv, TlTypeOK
<1> HIDE DEF e, x, y
<1>6. TlTypeOK'
  <2>1. tln_next' \in [Nodes -> Nodes \cup {NULLNODE}] /\ tln_prev' \in [Nodes -> Nodes \cup {NULLNODE}]
    BY <1>3, <1>4, Zenon DEF IInv, TlTypeOK
  <2>2. tl_count' \in [Lists -> Int] /\ contents' \in [Lists -> Seq(ListThreads)]
    BY <1>2, <1>3, <1>5 DEF IInv, TlTypeOK
  <2> QED BY <2>1, <2>2 DEF TlTypeOK
\* t was nowhere, so no thread is twice.
<1>7. \A k \in Lists : \A i \in 1..Len(contents[k]) : contents[k][i] # t
  BY ContentsTyped DEF OnNone, IInv
<1>8. \A i, j \in 1..n + 1 : d[i] = d[j] => i = j
  <2> SUFFICES ASSUME NEW i \in 1..n + 1, NEW j \in 1..n + 1, d[i] = d[j] PROVE i = j
    OBVIOUS
  <2> DEFINE Old(h) == IF h <= p THEN h ELSE h - 1
  <2>1. ASSUME NEW h \in 1..n + 1, h # p + 1 PROVE Old(h) \in 1..n /\ d[h] = contents[tl][Old(h)]
    <3>1. CASE h <= p
      BY <1>1, <1>5, <3>1
    <3>2. CASE ~(h <= p)
      <4>1. h - 1 \in 1..n /\ Old(h) = h - 1
        BY <1>1, <2>1, <3>2
      <4>2. d[h] = contents[tl][h - 1]
        BY <1>5, <2>1, <3>2
      <4> QED BY <4>1, <4>2
    <3> QED BY <3>1, <3>2
  <2>2. d[p + 1] = t
    <3>1. p + 1 \in 1..n + 1 /\ ~(p + 1 <= p)
      BY <1>1
    <3> QED BY <1>5, <3>1
  <2> HIDE DEF Old
  <2>3. CASE i = p + 1 \/ j = p + 1
    <3>1. ASSUME NEW h \in 1..n + 1, d[h] = t PROVE h = p + 1
      BY <1>1, <1>7, <2>1, <3>1
    <3> QED BY <2>2, <2>3, <3>1
  <2>4. CASE i # p + 1 /\ j # p + 1
    <3>1. Old(i) = Old(j)
      BY <1>1, <2>1, <2>4 DEF IInv, OnOneList
    <3> QED BY <1>1, <2>4, <3>1 DEF Old
  <2> QED BY <2>3, <2>4
<1>9. ASSUME NEW k \in Lists, k # tl, NEW i \in 1..Len(contents[k]), NEW j \in 1..n + 1
      PROVE  contents[k][i] # d[j]
  <2>1. CASE j = p + 1
    BY <1>1, <1>5, <1>7, <2>1
  <2>2. CASE j # p + 1
    <3>1. PICK h \in 1..n : d[j] = contents[tl][h]
      <4>1. CASE j <= p
        <5>1. j \in 1..n
          BY <1>1, <4>1
        <5> QED BY <1>5, <4>1, <5>1
      <4>2. CASE ~(j <= p)
        <5>1. j - 1 \in 1..n /\ d[j] = contents[tl][j - 1]
          BY <1>1, <1>5, <2>2, <4>2
        <5> QED BY <5>1
      <4> QED BY <4>1, <4>2
    <3> QED BY <1>1, <1>9, <3>1 DEF IInv, OnOneList
  <2> QED BY <2>1, <2>2
<1>10. OnOneList'
  <2>1. ASSUME NEW k \in Lists, NEW l \in Lists, NEW i \in 1..Len(contents'[k]), NEW j \in 1..Len(contents'[l]),
               contents'[k][i] = contents'[l][j]
        PROVE  k = l /\ i = j
    <3>1. CASE k = tl /\ l = tl
      BY <1>5, <1>8, <2>1, <3>1
    <3>2. CASE k = tl /\ l # tl
      BY <1>5, <1>9, <2>1, <3>2
    <3>3. CASE k # tl /\ l = tl
      BY <1>5, <1>9, <2>1, <3>3
    <3>4. CASE k # tl /\ l # tl
      <4>1. contents'[k] = contents[k] /\ contents'[l] = contents[l]
        BY <1>5, <3>4
      <4> QED BY <2>1, <4>1 DEF IInv, OnOneList
    <3> QED BY <3>1, <3>2, <3>3, <3>4
  <2> QED BY <2>1 DEF OnOneList
<1>11. /\ \A k \in Lists : k # tl => \A i \in Int : NodeAt(k, i)' = NodeAt(k, i)
       /\ \A i \in 0..p : NodeAt(tl, i)' = NodeAt(tl, i)
       /\ NodeAt(tl, p + 1)' = e
       /\ \A i \in (p + 2)..(n + 2) : NodeAt(tl, i)' = NodeAt(tl, i - 1)
  <2>1. \A k \in Lists : k # tl => \A i \in Int : NodeAt(k, i)' = NodeAt(k, i)
    BY <1>5 DEF NodeAt
  <2>2. \A i \in 0..p : NodeAt(tl, i)' = NodeAt(tl, i)
    BY <1>1, <1>5 DEF NodeAt
  <2>3. NodeAt(tl, p + 1)' = e
    BY <1>1, <1>5 DEF NodeAt, e
  <2>4. ASSUME NEW i \in (p + 2)..(n + 2) PROVE NodeAt(tl, i)' = NodeAt(tl, i - 1)
    <3>1. CASE i = n + 2
      BY <1>1, <1>5, <3>1 DEF NodeAt
    <3>2. CASE i # n + 2
      <4>1. i \in 1..n + 1 /\ ~(i <= p) /\ i # p + 1 /\ i # 0 /\ i - 1 # 0 /\ i - 1 # n + 1
        BY <1>1, <3>2
      <4>2. d[i] = contents[tl][i - 1]
        BY <1>5, <4>1, Zenon
      <4> QED BY <1>1, <1>5, <3>2, <4>1, <4>2 DEF NodeAt
    <3> QED BY <3>1, <3>2
  <2> QED BY <2>1, <2>2, <2>3, <2>4
<1>12. \A k \in Lists : \A i \in 0..Len(contents[k]) + 1 :
         /\ NodeAt(k, i) # e /\ NodeAt(k, i) \in Nodes
         /\ NodeAt(k, i) = x => k = tl /\ i = p
         /\ NodeAt(k, i) = y => k = tl /\ i = p + 1
  BY <1>1, PlacesDiffer, OnNoneNowhere DEF IInv, e, x, y
<1>13. \A m \in Nodes : /\ tln_next'[m] = IF m = x THEN e ELSE IF m = e THEN y ELSE tln_next[m]
                        /\ tln_prev'[m] = IF m = y THEN e ELSE IF m = e THEN x ELSE tln_prev[m]
  BY <1>3, <1>4 DEF IInv, TlTypeOK
<1>14. ASSUME NEW k \in Lists, NEW i \in 0..Len(contents[k])
       PROVE  tln_next[NodeAt(k, i)] = NodeAt(k, i + 1) /\ tln_prev[NodeAt(k, i + 1)] = NodeAt(k, i)
  BY DEF IInv, ListsHoldTheirThreads
<1>15. ASSUME NEW k \in Lists
       PROVE  tl_count'[k] = Len(contents'[k]) /\ tln_prev'[Head_(k)] = NULLNODE /\ tln_next'[Tail_(k)] = NULLNODE
  <2>1. tl_count'[k] = Len(contents'[k])
    BY <1>1, <1>3, <1>5 DEF IInv, TlTypeOK, ListsHoldTheirThreads
  <2>2. Head_(k) = NodeAt(k, 0) /\ Tail_(k) = NodeAt(k, Len(contents[k]) + 1) /\ Len(contents[k]) \in Nat
    BY NodeAtPlaces, ContentsTyped DEF IInv
  <2>3. Head_(k) # y /\ Head_(k) # e /\ Tail_(k) # x /\ Tail_(k) # e /\ Head_(k) \in Nodes /\ Tail_(k) \in Nodes
    BY <1>1, <1>12, <2>2
  <2> QED BY <1>13, <2>1, <2>3 DEF IInv, ListsHoldTheirThreads
\* The links of another list, and those of tl before, at and after the place.
<1>16. ASSUME NEW k \in Lists, k # tl, NEW i \in 0..Len(contents[k])
       PROVE  /\ tln_next'[NodeAt(k, i)'] = NodeAt(k, i + 1)'
              /\ tln_prev'[NodeAt(k, i + 1)'] = NodeAt(k, i)'
  <2>1. i \in Int /\ i + 1 \in Int /\ i \in 0..Len(contents[k]) + 1 /\ i + 1 \in 0..Len(contents[k]) + 1
    BY ContentsTyped DEF IInv
  <2>2. NodeAt(k, i)' = NodeAt(k, i) /\ NodeAt(k, i + 1)' = NodeAt(k, i + 1)
    BY <1>11, <1>16, <2>1
  <2>3. \A m \in {NodeAt(k, i), NodeAt(k, i + 1)} : m \in Nodes /\ m # e /\ m # x /\ m # y
    BY <1>12, <1>16, <2>1
  <2> QED BY <1>13, <1>14, <2>2, <2>3
<1>17. ASSUME NEW i \in 0..n + 1
       PROVE  /\ tln_next'[NodeAt(tl, i)'] = NodeAt(tl, i + 1)'
              /\ tln_prev'[NodeAt(tl, i + 1)'] = NodeAt(tl, i)'
  <2>1. CASE i < p
    <3>1. i \in 0..n + 1 /\ i + 1 \in 0..n + 1 /\ i \in 0..p /\ i + 1 \in 0..p /\ i # p /\ i + 1 # p + 1
      BY <1>1, <2>1
    <3> QED BY <1>1, <1>11, <1>12, <1>13, <1>14, <3>1
  <2>2. CASE i = p
    <3>1. NodeAt(tl, i)' = x /\ NodeAt(tl, i + 1)' = e
      BY <1>1, <1>11, <2>2 DEF x
    <3> QED BY <1>4, <1>13, <3>1
  <2>3. CASE i = p + 1
    <3>1. p + 2 \in (p + 2)..(n + 2) /\ (p + 2) - 1 = p + 1 /\ i + 1 = p + 2
      BY <1>1, <2>3
    <3>2. NodeAt(tl, i)' = e /\ NodeAt(tl, i + 1)' = y
      BY <1>11, <2>3, <3>1 DEF y
    <3> QED BY <1>4, <1>13, <3>2
  <2>4. CASE i > p + 1
    <3>1. PICK h \in 0..n : h = i - 1 /\ h # p /\ h + 1 # p + 1 /\ h \in 0..n + 1 /\ h + 1 \in 0..n + 1
      BY <1>1, <2>4
    <3>2. NodeAt(tl, i)' = NodeAt(tl, h) /\ NodeAt(tl, i + 1)' = NodeAt(tl, h + 1)
      <4>1. i \in (p + 2)..(n + 2) /\ i + 1 \in (p + 2)..(n + 2) /\ (i + 1) - 1 = h + 1
        BY <1>1, <2>4, <3>1
      <4> QED BY <1>11, <3>1, <4>1
    <3>3. \A m \in {NodeAt(tl, h), NodeAt(tl, h + 1)} : m \in Nodes /\ m # e
      BY <1>1, <1>12, <3>1
    <3>4. NodeAt(tl, h) # x /\ NodeAt(tl, h + 1) # y
      BY <1>1, <1>12, <3>1
    <3> QED BY <1>1, <1>13, <1>14, <3>1, <3>2, <3>3, <3>4
  <2> QED BY <1>1, <2>1, <2>2, <2>3, <2>4
<1>18. ASSUME NEW u \in ListThreads, OnNone(u)'
       PROVE  tln_next'[NodeOf(u)] = NULLNODE /\ tln_prev'[NodeOf(u)] = NULLNODE
  <2>1. u # t
    <3>1. p + 1 \in 1..n + 1 /\ ~(p + 1 <= p)
      BY <1>1
    <3>2. d[p + 1] = t
      BY <1>5, <3>1
    <3> QED BY <1>5, <1>18, <3>1, <3>2 DEF OnNone
  <2>2. OnNone(u)
    <3>1. ASSUME NEW i \in 1..n, contents[tl][i] = u PROVE FALSE
      <4>1. PICK j \in 1..n + 1 : d[j] = contents[tl][i]
        <5>1. CASE i <= p
          BY <1>1, <1>5, <5>1
        <5>2. CASE i > p
          <6>1. i + 1 \in 1..n + 1 /\ (i + 1) - 1 = i /\ ~(i + 1 <= p) /\ i + 1 # p + 1
            BY <1>1, <5>2
          <6> QED BY <1>5, <6>1, Zenon
        <5> QED BY <1>1, <5>1, <5>2
      <4>2. j \in DOMAIN d
        BY <1>5
      <4> QED BY <1>5, <1>18, <3>1, <4>1, <4>2 DEF OnNone
    <3> QED BY <1>1, <1>5, <1>18, <3>1, ContentsTyped DEF OnNone, IInv
  <2>3. NodeOf(u) \in Nodes /\ NodeOf(u) # e /\ NodeOf(u) # x /\ NodeOf(u) # y
    BY <1>1, <2>1, <2>2, OnNoneNowhere, NodesDiffer DEF IInv, e, x, y
  <2> QED BY <1>13, <2>2, <2>3 DEF IInv, ListsHoldTheirThreads
<1>19. ListsHoldTheirThreads'
  BY <1>5, <1>15, <1>16, <1>17, <1>18, EndsDiffer, Zenon DEF ListsHoldTheirThreads
<1> QED BY <1>6, <1>10, <1>19 DEF IInv

----------------------------------------------------------------------------
(* Removal                                                                 *)

\* The p-th thread of the list tl is taken out.
Removal(tl, p) ==
  LET e == NodeAt(tl, p) x == NodeAt(tl, p - 1) y == NodeAt(tl, p + 1)
  IN  /\ tln_next' = [tln_next EXCEPT ![x] = y, ![e] = NULLNODE]
      /\ tln_prev' = [tln_prev EXCEPT ![y] = x, ![e] = NULLNODE]
      /\ tl_count' = [tl_count EXCEPT ![tl] = @ - 1]
      /\ \E d : contents' = [contents EXCEPT ![tl] = d] /\ Removed(contents[tl], d, p)

\* A removal leaves links that are the list, and the thread without any.
LEMMA RemovalIInv ==
  ASSUME IInv, NEW tl \in Lists, NEW p \in 1..Len(contents[tl]), Removal(tl, p)
  PROVE  IInv'
<1> DEFINE e == NodeAt(tl, p)
           x == NodeAt(tl, p - 1)
           y == NodeAt(tl, p + 1)
           c == contents[tl]
<1>1. PICK n \in Nat : n = Len(c) /\ p \in 1..n /\ p \in 0..n + 1 /\ p - 1 \in 0..n + 1 /\ p + 1 \in 0..n + 1
  <2>1. Len(c) \in Nat
    BY ContentsTyped DEF IInv
  <2> HIDE DEF c
  <2>2. p \in 1..Len(c)
    BY DEF c
  <2> QED BY <2>1, <2>2
<1>2. PICK d : contents' = [contents EXCEPT ![tl] = d] /\ Removed(c, d, p)
  BY Zenon DEF Removal
<1>3. /\ tln_next' = [tln_next EXCEPT ![x] = y, ![e] = NULLNODE]
      /\ tln_prev' = [tln_prev EXCEPT ![y] = x, ![e] = NULLNODE]
      /\ tl_count' = [tl_count EXCEPT ![tl] = @ - 1]
  BY DEF Removal
<1>4. /\ contents'[tl] = d /\ Len(d) = n - 1 /\ d \in Seq(ListThreads)
      /\ \A i \in 1..n - 1 : d[i] = IF i < p THEN c[i] ELSE c[i + 1]
      /\ \A k \in Lists : k # tl => contents'[k] = contents[k]
  BY <1>1, <1>2 DEF Removed, IInv, TlTypeOK
<1>5. e = NodeOf(c[p]) /\ c[p] \in ListThreads /\ \A i \in 1..n : c[i] \in ListThreads
  BY <1>1, NodeAtPlaces, ContentsTyped DEF IInv
<1>6. \A k \in Lists : \A i \in 0..Len(contents[k]) + 1 :
         /\ NodeAt(k, i) \in Nodes
         /\ NodeAt(k, i) = x => k = tl /\ i = p - 1
         /\ NodeAt(k, i) = y => k = tl /\ i = p + 1
         /\ NodeAt(k, i) = e => k = tl /\ i = p
  BY <1>1, PlacesDiffer DEF IInv
<1>7. x \in Nodes /\ y \in Nodes /\ e \in Nodes /\ x # e /\ y # e
  BY <1>1, <1>6
<1>8. /\ \A k \in Lists : k # tl => \A i \in Int : NodeAt(k, i)' = NodeAt(k, i)
      /\ \A i \in 0..p - 1 : NodeAt(tl, i)' = NodeAt(tl, i)
      /\ \A i \in p..n : NodeAt(tl, i)' = NodeAt(tl, i + 1)
  <2>1. \A k \in Lists : k # tl => \A i \in Int : NodeAt(k, i)' = NodeAt(k, i)
    BY <1>4 DEF NodeAt
  <2>2. ASSUME NEW i \in 0..p - 1 PROVE NodeAt(tl, i)' = NodeAt(tl, i)
    <3>1. CASE i = 0
      BY <3>1 DEF NodeAt
    <3>2. CASE i # 0
      <4>1. i \in 1..n - 1 /\ i < p /\ i # n + 1 /\ i # (n - 1) + 1
        BY <1>1, <3>2
      <4>2. d[i] = c[i]
        BY <1>4, <4>1
      <4> QED BY <1>1, <1>4, <3>2, <4>1, <4>2 DEF NodeAt
    <3> QED BY <3>1, <3>2
  <2>3. ASSUME NEW i \in p..n PROVE NodeAt(tl, i)' = NodeAt(tl, i + 1)
    <3>1. CASE i = n
      BY <1>1, <1>4, <3>1 DEF NodeAt
    <3>2. CASE i # n
      <4>1. i \in 1..n - 1 /\ ~(i < p) /\ i # 0 /\ i + 1 # 0 /\ i + 1 # n + 1
        BY <1>1, <3>2
      <4>2. d[i] = c[i + 1]
        BY <1>4, <4>1
      <4> QED BY <1>1, <1>4, <3>2, <4>1, <4>2 DEF NodeAt
    <3> QED BY <3>1, <3>2
  <2> QED BY <2>1, <2>2, <2>3
<1> HIDE DEF e, x, y
<1>9. TlTypeOK'
  <2>1. tln_next' \in [Nodes -> Nodes \cup {NULLNODE}] /\ tln_prev' \in [Nodes -> Nodes \cup {NULLNODE}]
    BY <1>3, <1>7, Zenon DEF IInv, TlTypeOK
  <2>2. tl_count' \in [Lists -> Int] /\ contents' \in [Lists -> Seq(ListThreads)]
    BY <1>2, <1>3, <1>4 DEF IInv, TlTypeOK
  <2> QED BY <2>1, <2>2 DEF TlTypeOK
<1> DEFINE Old(h) == IF h < p THEN h ELSE h + 1
<1>10. ASSUME NEW h \in 1..n - 1 PROVE Old(h) \in 1..n /\ Old(h) # p /\ d[h] = c[Old(h)]
  <2>1. CASE h < p
    <3>1. d[h] = c[h]
      BY <1>4, <2>1
    <3>2. h \in 1..n /\ h # p
      BY <1>1, <2>1
    <3> QED BY <2>1, <3>1, <3>2
  <2>2. CASE ~(h < p)
    BY <1>1, <1>4, <2>2
  <2> QED BY <2>1, <2>2
<1>11. \A h, i \in 1..n - 1 : Old(h) = Old(i) => h = i
  BY <1>1
<1> HIDE DEF Old, c
<1>12. OnOneList'
  <2>1. \A i, j \in 1..n : c[i] = c[j] => i = j
    <3>1. OnOneList
      BY Zenon DEF IInv
    <3>2. \A i, j \in 1..Len(contents[tl]) : contents[tl][i] = contents[tl][j] => i = j
      BY <3>1, Zenon DEF OnOneList
    <3> QED BY <1>1, <3>2, Zenon DEF c
  <2>2. \A i, j \in 1..n - 1 : d[i] = d[j] => i = j
    BY <1>10, <1>11, <2>1
  <2>3. ASSUME NEW k \in Lists, k # tl, NEW i \in 1..Len(contents[k]), NEW j \in 1..n - 1
        PROVE  contents[k][i] # d[j]
    <3>1. Old(j) \in 1..Len(contents[tl]) /\ d[j] = contents[tl][Old(j)]
      BY <1>1, <1>10 DEF c
    <3> QED BY <2>3, <3>1 DEF IInv, OnOneList
  <2>4. ASSUME NEW k \in Lists, NEW l \in Lists, NEW i \in 1..Len(contents'[k]), NEW j \in 1..Len(contents'[l]),
               contents'[k][i] = contents'[l][j]
        PROVE  k = l /\ i = j
    <3>1. CASE k = tl /\ l = tl
      BY <1>4, <2>2, <2>4, <3>1
    <3>2. CASE k = tl /\ l # tl
      BY <1>4, <2>3, <2>4, <3>2
    <3>3. CASE k # tl /\ l = tl
      BY <1>4, <2>3, <2>4, <3>3
    <3>4. CASE k # tl /\ l # tl
      <4>1. contents'[k] = contents[k] /\ contents'[l] = contents[l]
        BY <1>4, <3>4
      <4> QED BY <2>4, <4>1 DEF IInv, OnOneList
    <3> QED BY <3>1, <3>2, <3>3, <3>4
  <2> QED BY <2>4 DEF OnOneList
<1>13. \A m \in Nodes : /\ tln_next'[m] = IF m = e THEN NULLNODE ELSE IF m = x THEN y ELSE tln_next[m]
                        /\ tln_prev'[m] = IF m = e THEN NULLNODE ELSE IF m = y THEN x ELSE tln_prev[m]
  BY <1>3, <1>7 DEF IInv, TlTypeOK
<1>14. ASSUME NEW k \in Lists, NEW i \in 0..Len(contents[k])
       PROVE  tln_next[NodeAt(k, i)] = NodeAt(k, i + 1) /\ tln_prev[NodeAt(k, i + 1)] = NodeAt(k, i)
  BY DEF IInv, ListsHoldTheirThreads
<1>15. ASSUME NEW k \in Lists
       PROVE  tl_count'[k] = Len(contents'[k]) /\ tln_prev'[Head_(k)] = NULLNODE /\ tln_next'[Tail_(k)] = NULLNODE
  <2>1. tl_count'[k] = Len(contents'[k])
    BY <1>1, <1>3, <1>4, Zenon DEF IInv, TlTypeOK, ListsHoldTheirThreads, c
  <2>2. Head_(k) = NodeAt(k, 0) /\ Tail_(k) = NodeAt(k, Len(contents[k]) + 1) /\ Len(contents[k]) \in Nat
    BY NodeAtPlaces, ContentsTyped DEF IInv
  <2>3. Head_(k) # y /\ Head_(k) # e /\ Tail_(k) # x /\ Tail_(k) # e /\ Head_(k) \in Nodes /\ Tail_(k) \in Nodes
    BY <1>1, <1>6, <2>2 DEF c
  <2> QED BY <1>13, <2>1, <2>3 DEF IInv, ListsHoldTheirThreads
<1>16. ASSUME NEW k \in Lists, k # tl, NEW i \in 0..Len(contents[k])
       PROVE  /\ tln_next'[NodeAt(k, i)'] = NodeAt(k, i + 1)'
              /\ tln_prev'[NodeAt(k, i + 1)'] = NodeAt(k, i)'
  <2>1. i \in Int /\ i + 1 \in Int /\ i \in 0..Len(contents[k]) + 1 /\ i + 1 \in 0..Len(contents[k]) + 1
    BY ContentsTyped DEF IInv
  <2>2. NodeAt(k, i)' = NodeAt(k, i) /\ NodeAt(k, i + 1)' = NodeAt(k, i + 1)
    BY <1>8, <1>16, <2>1
  <2>3. \A m \in {NodeAt(k, i), NodeAt(k, i + 1)} : m \in Nodes /\ m # e /\ m # x /\ m # y
    BY <1>6, <1>16, <2>1
  <2> QED BY <1>13, <1>14, <2>2, <2>3
<1>17. ASSUME NEW i \in 0..n - 1
       PROVE  /\ tln_next'[NodeAt(tl, i)'] = NodeAt(tl, i + 1)'
              /\ tln_prev'[NodeAt(tl, i + 1)'] = NodeAt(tl, i)'
  <2>1. CASE i < p - 1
    <3>1. /\ i \in 0..n /\ i \in 0..n + 1 /\ i + 1 \in 0..n + 1 /\ i \in 0..p - 1 /\ i + 1 \in 0..p - 1
          /\ i # p - 1 /\ i # p /\ i + 1 # p /\ i + 1 # p + 1
      BY <1>1, <2>1
    <3> QED BY <1>1, <1>6, <1>8, <1>13, <1>14, <3>1 DEF c
  <2>2. CASE i = p - 1
    <3>1. i \in 0..p - 1 /\ i + 1 \in p..n /\ (i + 1) + 1 = p + 1
      BY <1>1, <2>2
    <3>2. NodeAt(tl, i)' = x /\ NodeAt(tl, i + 1)' = y
      BY <1>8, <2>2, <3>1 DEF x, y
    <3> QED BY <1>7, <1>13, <3>2
  <2>3. CASE i > p - 1
    <3>1. /\ i \in p..n /\ i + 1 \in p..n /\ i + 1 \in 0..n
          /\ i + 1 \in 0..n + 1 /\ (i + 1) + 1 \in 0..n + 1
          /\ i + 1 # p - 1 /\ i + 1 # p /\ (i + 1) + 1 # p /\ (i + 1) + 1 # p + 1
      BY <1>1, <2>3
    <3> QED BY <1>1, <1>6, <1>8, <1>13, <1>14, <3>1 DEF c
  <2> QED BY <1>1, <2>1, <2>2, <2>3
<1>18. ASSUME NEW u \in ListThreads, OnNone(u)'
       PROVE  tln_next'[NodeOf(u)] = NULLNODE /\ tln_prev'[NodeOf(u)] = NULLNODE
  <2>1. NodeOf(u) \in Nodes
    BY EndsDiffer, NodesDiffer
  <2>2. CASE u = c[p]
    BY <1>5, <1>13, <2>1, <2>2
  <2>3. CASE u # c[p]
    <3>1. ASSUME NEW i \in 1..n, c[i] = u PROVE FALSE
      <4>1. PICK j \in 1..n - 1 : d[j] = c[i]
        <5>1. CASE i < p
          <6>1. i \in 1..n - 1
            BY <1>1, <5>1
          <6> QED BY <1>4, <5>1, <6>1
        <5>2. CASE ~(i < p)
          <6>1. i - 1 \in 1..n - 1 /\ (i - 1) + 1 = i /\ ~(i - 1 < p)
            BY <1>1, <2>3, <3>1, <5>2
          <6> QED BY <1>4, <6>1
        <5> QED BY <5>1, <5>2
      <4>2. j \in DOMAIN d
        BY <1>4
      <4> QED BY <1>4, <1>18, <3>1, <4>1, <4>2 DEF OnNone
    <3>2. OnNone(u)
      BY <1>1, <1>4, <1>18, <3>1, ContentsTyped, Zenon DEF OnNone, IInv, c
    <3>3. NodeOf(u) # e /\ NodeOf(u) # x /\ NodeOf(u) # y
      BY <1>1, <3>2, OnNoneNowhere DEF IInv, e, x, y, c
    <3> QED BY <1>13, <2>1, <3>2, <3>3 DEF IInv, ListsHoldTheirThreads
  <2> QED BY <2>2, <2>3
<1>19. ListsHoldTheirThreads'
  BY <1>4, <1>15, <1>16, <1>17, <1>18, Zenon DEF ListsHoldTheirThreads
<1> QED BY <1>9, <1>12, <1>19 DEF IInv

----------------------------------------------------------------------------
(* Every operation is one of the two                                       *)

\* The neighbours on a list point at each other.
LEMMA Neighbours ==
  ASSUME IInv, NEW tl \in Lists, NEW i \in 0..Len(contents[tl])
  PROVE  tln_next[NodeAt(tl, i)] = NodeAt(tl, i + 1) /\ tln_prev[NodeAt(tl, i + 1)] = NodeAt(tl, i)
BY DEF IInv, ListsHoldTheirThreads

\* threadlist_addhead and threadlist_insertafter.
LEMMA InsertAfterInserts ==
  ASSUME IInv, NEW tl \in Lists, NEW t \in ListThreads, NEW p \in 0..Len(contents[tl]), NEW d,
         threadlist_insertafternode(NodeAt(tl, p), t), More(tl), Holds(tl, d), Inserted(contents[tl], d, p, t)
  PROVE  Insertion(tl, p, t)
<1>1. tln_next[NodeAt(tl, p)] = NodeAt(tl, p + 1)
  BY Neighbours
<1> QED BY <1>1, Zenon DEF threadlist_insertafternode, More, Holds, Insertion

\* threadlist_addtail and threadlist_insertbefore.
LEMMA InsertBeforeInserts ==
  ASSUME IInv, NEW tl \in Lists, NEW t \in ListThreads, NEW p \in 0..Len(contents[tl]), NEW d,
         threadlist_insertbeforenode(t, NodeAt(tl, p + 1)), More(tl), Holds(tl, d), Inserted(contents[tl], d, p, t)
  PROVE  Insertion(tl, p, t)
<1>1. tln_prev[NodeAt(tl, p + 1)] = NodeAt(tl, p)
  BY Neighbours
<1> QED BY <1>1, Zenon DEF threadlist_insertbeforenode, More, Holds, Insertion

\* threadlist_remhead, threadlist_remtail and threadlist_remove.
LEMMA RemoveRemoves ==
  ASSUME IInv, NEW tl \in Lists, NEW p \in 1..Len(contents[tl]), NEW d,
         threadlist_removenode(NodeAt(tl, p)), Fewer(tl), Holds(tl, d), Removed(contents[tl], d, p)
  PROVE  Removal(tl, p)
<1>1. p \in 0..Len(contents[tl]) /\ p - 1 \in 0..Len(contents[tl]) /\ (p - 1) + 1 = p
  BY ContentsTyped DEF IInv
<1>2. tln_next[NodeAt(tl, p)] = NodeAt(tl, p + 1) /\ tln_prev[NodeAt(tl, p)] = NodeAt(tl, p - 1)
  BY <1>1, Neighbours
<1> QED BY <1>2, Zenon DEF threadlist_removenode, Fewer, Holds, Removal

\* A list with nothing on it has nothing to remove.
LEMMA EmptyHasNone ==
  ASSUME IInv, NEW tl \in Lists, Len(contents[tl]) = 0
  PROVE  /\ tln_next[tln_next[Head_(tl)]] = NULLNODE
         /\ tln_prev[tln_prev[Tail_(tl)]] = NULLNODE
<1>1. NodeAt(tl, 0) = Head_(tl) /\ NodeAt(tl, 0 + 1) = Tail_(tl)
  BY NodeAtPlaces DEF IInv
<1>2. tln_next[Head_(tl)] = Tail_(tl) /\ tln_prev[Tail_(tl)] = Head_(tl)
  BY <1>1, Neighbours
<1> QED BY <1>2 DEF IInv, ListsHoldTheirThreads

\* Nothing is linked before the first operation.
LEMMA InitIInv == ASSUME TlInit PROVE IInv
<1>1. TlTypeOK
  <2>1. ASSUME NEW m \in Nodes
        PROVE  /\ m[1] = "head" => Tail_(m[2]) \in Nodes
               /\ m[1] = "tail" => Head_(m[2]) \in Nodes
    BY DEF Nodes, Head_, Tail_, NodeOf
  <2> QED BY <2>1 DEF TlInit, threadlist_init, TlTypeOK
<1>2. OnOneList
  BY DEF TlInit, OnOneList
<1>3. ASSUME NEW tl \in Lists
      PROVE  /\ tl_count[tl] = Len(contents[tl])
             /\ tln_prev[Head_(tl)] = NULLNODE /\ tln_next[Tail_(tl)] = NULLNODE
             /\ \A i \in 0..Len(contents[tl]) :
                  tln_next[NodeAt(tl, i)] = NodeAt(tl, i + 1) /\ tln_prev[NodeAt(tl, i + 1)] = NodeAt(tl, i)
  <2>1. Head_(tl) \in Nodes /\ Tail_(tl) \in Nodes
    BY EndsDiffer
  <2>2. tln_next[Head_(tl)] = Tail_(tl) /\ tln_prev[Tail_(tl)] = Head_(tl)
    BY <2>1 DEF TlInit, threadlist_init, Head_, Tail_
  <2>3. tln_prev[Head_(tl)] = NULLNODE /\ tln_next[Tail_(tl)] = NULLNODE
    BY <2>1 DEF TlInit, threadlist_init, Head_, Tail_
  <2>4. Len(contents[tl]) = 0 /\ tl_count[tl] = 0
    BY DEF TlInit, threadlist_init
  <2>5. NodeAt(tl, 0) = Head_(tl) /\ NodeAt(tl, 0 + 1) = Tail_(tl)
    BY <1>1, <2>4, NodeAtPlaces
  <2> QED BY <2>2, <2>3, <2>4, <2>5
<1>4. ASSUME NEW t \in ListThreads PROVE tln_next[NodeOf(t)] = NULLNODE /\ tln_prev[NodeOf(t)] = NULLNODE
  <2>1. NodeOf(t) \in Nodes
    BY DEF Nodes
  <2> QED BY <2>1 DEF TlInit, threadlist_init, NodeOf
<1> QED BY <1>1, <1>2, <1>3, <1>4 DEF IInv, ListsHoldTheirThreads

\* Every operation keeps the links right.
LEMMA NextIInv == ASSUME IInv, TlNext PROVE IInv'
<1>1. PICK tl \in Lists :
        \/ threadlist_remhead(tl) \/ threadlist_remtail(tl)
        \/ \E t \in ListThreads : threadlist_addhead(tl, t) \/ threadlist_addtail(tl, t)
        \/ \E i \in DOMAIN contents[tl] :
             \/ threadlist_remove(tl, i)
             \/ \E t \in ListThreads : threadlist_insertafter(tl, i, t) \/ threadlist_insertbefore(tl, i, t)
  BY DEF TlNext
<1> DEFINE c == contents[tl]
<1>2. PICK n \in Nat : n = Len(c)
  BY ContentsTyped DEF IInv
<1>3. c \in Seq(ListThreads) /\ DOMAIN c = 1..n
  BY <1>2, ContentsTyped DEF IInv
<1>4. /\ NodeAt(tl, 0) = Head_(tl) /\ NodeAt(tl, n + 1) = Tail_(tl)
      /\ \A i \in 1..n : NodeAt(tl, i) = NodeOf(c[i])
  BY <1>2, NodeAtPlaces DEF IInv
<1> HIDE DEF c
<1>5. CASE threadlist_remhead(tl)
  <2>1. n # 0
    BY <1>2, <1>5, EmptyHasNone DEF threadlist_remhead, c
  <2>2. tln_next[Head_(tl)] = NodeAt(tl, 1)
    BY <1>2, <1>4, Neighbours DEF c
  <2>3. Removed(c, Without(c, 1), 1)
    BY <1>2, <1>3, <2>1, WithoutRemoves
  <2>4. Removal(tl, 1)
    BY <1>2, <1>5, <2>1, <2>2, <2>3, RemoveRemoves DEF threadlist_remhead, c
  <2> QED BY <1>2, <2>1, <2>4, RemovalIInv DEF c
<1>6. CASE threadlist_remtail(tl)
  <2>1. n # 0
    BY <1>2, <1>6, EmptyHasNone DEF threadlist_remtail, c
  <2>2. tln_prev[Tail_(tl)] = NodeAt(tl, n)
    BY <1>2, <1>4, Neighbours DEF c
  <2>3. Removed(c, Without(c, n), n)
    BY <1>2, <1>3, <2>1, WithoutRemoves
  <2>4. Removal(tl, n)
    BY <1>2, <1>6, <2>1, <2>2, <2>3, RemoveRemoves DEF threadlist_remtail, c
  <2> QED BY <1>2, <2>1, <2>4, RemovalIInv DEF c
<1>7. ASSUME NEW t \in ListThreads, threadlist_addhead(tl, t) PROVE IInv'
  <2>1. Inserted(c, With(c, 0, t), 0, t)
    BY <1>2, <1>3, WithInserts
  <2>2. Insertion(tl, 0, t)
    BY <1>2, <1>4, <1>7, <2>1, InsertAfterInserts DEF threadlist_addhead, c
  <2> QED BY <1>2, <1>7, <2>2, InsertionIInv DEF threadlist_addhead, c
<1>8. ASSUME NEW t \in ListThreads, threadlist_addtail(tl, t) PROVE IInv'
  <2>1. Inserted(c, With(c, n, t), n, t)
    BY <1>2, <1>3, WithInserts
  <2>2. Insertion(tl, n, t)
    BY <1>2, <1>4, <1>8, <2>1, InsertBeforeInserts DEF threadlist_addtail, c
  <2> QED BY <1>2, <1>8, <2>2, InsertionIInv DEF threadlist_addtail, c
<1>9. ASSUME NEW i \in 1..n, threadlist_remove(tl, i) PROVE IInv'
  <2>1. Removed(c, Without(c, i), i)
    BY <1>2, <1>3, WithoutRemoves
  <2>2. Removal(tl, i)
    BY <1>2, <1>4, <1>9, <2>1, RemoveRemoves DEF threadlist_remove, c
  <2> QED BY <1>2, <2>2, RemovalIInv DEF c
<1>10. ASSUME NEW i \in 1..n, NEW t \in ListThreads, threadlist_insertafter(tl, i, t) PROVE IInv'
  <2>1. Inserted(c, With(c, i, t), i, t)
    BY <1>2, <1>3, WithInserts
  <2>2. Insertion(tl, i, t)
    <3>1. /\ threadlist_insertafternode(NodeAt(tl, i), t) /\ More(tl) /\ Holds(tl, With(contents[tl], i, t))
          /\ Inserted(contents[tl], With(contents[tl], i, t), i, t)
      BY <1>4, <1>10, <2>1 DEF threadlist_insertafter, c
    <3>2. i \in 0..Len(contents[tl])
      BY <1>2 DEF c
    <3> QED BY <3>1, <3>2, InsertAfterInserts
  <2> QED BY <1>2, <1>10, <2>2, InsertionIInv DEF threadlist_insertafter, c
<1>11. ASSUME NEW i \in 1..n, NEW t \in ListThreads, threadlist_insertbefore(tl, i, t) PROVE IInv'
  <2>1. PICK p \in 0..n : p + 1 = i /\ i - 1 = p
    BY <1>2
  <2>2. Inserted(c, With(c, p, t), p, t)
    BY <1>2, <1>3, WithInserts
  <2>3. Insertion(tl, p, t)
    BY <1>2, <1>4, <1>11, <2>1, <2>2, InsertBeforeInserts DEF threadlist_insertbefore, c
  <2> QED BY <1>2, <1>11, <2>3, InsertionIInv DEF threadlist_insertbefore, c
<1> QED BY <1>1, <1>3, <1>5, <1>6, <1>7, <1>8, <1>9, <1>10, <1>11 DEF c

\* A step that is none of the operations leaves the lists alone.
LEMMA StutterIInv == ASSUME IInv, UNCHANGED tlvars PROVE IInv'
BY DEF IInv, TlTypeOK, OnOneList, ListsHoldTheirThreads, NodeAt, OnNone, tlvars

\* However threads are added and removed, the links of every list are its
\* threads in order, both ways (threadlist.c).
THEOREM LinksRight == TlSpec => []ListsHoldTheirThreads
<1>1. TlInit => IInv
  BY InitIInv
<1>2. IInv /\ [TlNext]_tlvars => IInv'
  BY NextIInv, StutterIInv
<1>3. IInv => ListsHoldTheirThreads
  BY DEF IInv
<1> QED BY <1>1, <1>2, <1>3, PTL DEF TlSpec

----------------------------------------------------------------------------
(* The shell's jobs                                                        *)

\* The process the shell waits for in the foreground.
InFront(p) == shpc = "fg" /\ shpid = p

\* A slot is empty or names a child, which has no other slot and is not in the
\* foreground.
SlotRight(i) ==
  bgpids[i] # 0 =>
    /\ IsChild(bgpids[i]) /\ ~InFront(bgpids[i])
    /\ \A j \in Slots : bgpids[j] = bgpids[i] => j = i

\* Every child is known to the shell.
Known(p) == IsChild(p) => InFront(p) \/ \E i \in Slots : bgpids[i] = p

\* The inductive invariant of the shell: the places of a child instead of
\* their number.
ShellIInv ==
  /\ DOMAIN bgpids = Slots /\ bgpids = [i \in Slots |-> bgpids[i]]
  /\ kids = [p \in Pids |-> kids[p]]
  /\ shpid \in Pids \cup {0}
  /\ \A i \in Slots : SlotRight(i)
  /\ \A p \in Pids : Known(p) /\ (InFront(p) => IsChild(p))
  /\ ~warned

\* remember_bg finds a free slot when can_bg said that there is one.
LEMMA FirstFreeIsFree ==
  ASSUME can_bg
  PROVE  FirstFree \in Slots /\ bgpids[FirstFree] = 0
<1> DEFINE T == {i \in Slots : bgpids[i] = 0}
<1>1. T # {} /\ T \subseteq Nat
  BY ShellAssumption DEF can_bg, Slots
<1>2. \E i \in T : \A j \in T : ~(<<j, i>> \in OpToRel(<, Nat))
  <2> HIDE DEF T
  <2> QED BY <1>1, WFMin, NatLessThanWellFounded
<1>3. \E i \in T : \A j \in T : i <= j
  <2>1. PICK i \in T : \A j \in T : ~(<<j, i>> \in OpToRel(<, Nat))
    BY <1>2
  <2>2. ASSUME NEW j \in T PROVE i <= j
    <3>1. i \in Nat /\ j \in Nat
      BY <1>1
    <3>2. j < i => <<j, i>> \in OpToRel(<, Nat)
      BY <3>1 DEF OpToRel
    <3>3. ~(j < i)
      BY <2>1, <3>2, Zenon
    <3> QED BY <3>1, <3>3
  <2> QED BY <2>2
<1>4. \E i \in Slots : bgpids[i] = 0 /\ \A j \in Slots : bgpids[j] = 0 => i <= j
  BY <1>3
<1> QED BY <1>4 DEF FirstFree

\* The invariant says where every child is, so it says in how many places.
LEMMA ShellIInvCounts ==
  ASSUME ShellIInv
  PROVE  JobTableExact
<1> SUFFICES ASSUME NEW p \in Pids
             PROVE  Cardinality({i \in Slots : bgpids[i] = p}) + (IF InFront(p) THEN 1 ELSE 0)
                      = IF IsChild(p) THEN 1 ELSE 0
  BY DEF JobTableExact, ShellIInv, InFront
<1>0. p # 0
  BY ShellAssumption
<1>1. CASE \E i \in Slots : bgpids[i] = p
  <2>1. PICK i \in Slots : bgpids[i] = p
    BY <1>1
  <2>2. IsChild(p) /\ ~InFront(p) /\ \A j \in Slots : bgpids[j] = p => j = i
    BY <1>0, <2>1 DEF ShellIInv, SlotRight
  <2>3. {j \in Slots : bgpids[j] = p} = {i}
    BY <2>1, <2>2
  <2>4. Cardinality({i}) = 1
    BY FS_Singleton
  <2> QED BY <2>2, <2>3, <2>4
<1>2. CASE ~\E i \in Slots : bgpids[i] = p
  <2>1. {j \in Slots : bgpids[j] = p} = {}
    BY <1>2
  <2>2. Cardinality({}) = 0
    BY FS_EmptySet
  <2>3. InFront(p) <=> IsChild(p)
    BY <1>2 DEF ShellIInv, Known
  <2> QED BY <2>1, <2>2, <2>3
<1> QED BY <1>1, <1>2

\* At the beginning there is no child.
LEMMA ShellInitIInv == ASSUME ShellInit PROVE ShellIInv
BY DEF ShellInit, ShellIInv, SlotRight, Known, InFront, IsChild, Slots

\* A step that leaves the children, the table and the foreground alone.
LEMMA QuietIInv ==
  ASSUME ShellIInv, UNCHANGED <<bgpids, kids>>, ~warned', shpid' \in Pids \cup {0}, shpc # "fg", shpc' # "fg"
  PROVE  ShellIInv'
<1>1. bgpids' = bgpids /\ kids' = kids
  BY Zenon
<1>2. \A p : ~InFront(p) /\ ~InFront(p)' /\ (IsChild(p)' <=> IsChild(p))
  BY <1>1, Zenon DEF InFront, IsChild
<1>3. ASSUME NEW i \in Slots PROVE SlotRight(i)'
  BY <1>1, <1>2, Zenon DEF ShellIInv, SlotRight
<1>4. ASSUME NEW p \in Pids PROVE Known(p)' /\ (InFront(p)' => IsChild(p)')
  BY <1>1, <1>2, Zenon DEF ShellIInv, Known
<1> QED BY <1>1, <1>3, <1>4, Zenon DEF ShellIInv

\* A child's status is collected and its place in the table, or in the
\* foreground, is cleared.
LEMMA CollectIInv ==
  ASSUME ShellIInv, NEW p \in Pids, Reap(p), Forget(p), UNCHANGED warned,
         shpid' \in Pids \cup {0}, shpc = "fg" => shpid = p, shpc' # "fg"
  PROVE  ShellIInv'
<1>1. /\ \A i \in Slots : bgpids'[i] = IF bgpids[i] = p THEN 0 ELSE bgpids[i]
      /\ bgpids' = [i \in Slots |-> bgpids'[i]] /\ DOMAIN bgpids' = Slots
  BY Zenon DEF Forget
<1>2. kids' = [kids EXCEPT ![p] = Free] /\ kids = [q \in Pids |-> kids[q]]
  BY DEF Reap, ShellIInv
<1>3. /\ \A q \in Pids : kids'[q] = IF q = p THEN Free ELSE kids[q]
      /\ kids' = [q \in Pids |-> kids'[q]]
  BY <1>2
<1>4. ASSUME NEW i \in Slots PROVE SlotRight(i)'
  BY <1>1, <1>3 DEF ShellIInv, SlotRight, IsChild, InFront
<1>5. ASSUME NEW q \in Pids PROVE Known(q)' /\ (InFront(q)' => IsChild(q)')
  BY <1>1, <1>3 DEF ShellIInv, Known, IsChild, InFront
<1> QED BY <1>1, <1>3, <1>4, <1>5, Zenon DEF ShellIInv

\* A slot of the table is cleared: the child that it named is forgotten.
LEMMA SlotCleared ==
  ASSUME ShellIInv, NEW s \in Slots, bgpids[s] # 0, bgpids' = [bgpids EXCEPT ![s] = 0]
  PROVE  /\ Forget(bgpids[s])
         /\ bgpids[s] \in Pids /\ IsChild(bgpids[s]) /\ ~InFront(bgpids[s])
<1>1. IsChild(bgpids[s]) /\ ~InFront(bgpids[s]) /\ \A j \in Slots : bgpids[j] = bgpids[s] => j = s
  BY DEF ShellIInv, SlotRight
<1>2. bgpids = [i \in Slots |-> bgpids[i]]
  BY DEF ShellIInv
<1>3. bgpids' = [i \in Slots |-> IF i = s THEN 0 ELSE bgpids[i]]
  BY <1>2
<1>4. \A i \in Slots : (i = s) <=> (bgpids[i] = bgpids[s])
  BY <1>1
<1>5. Forget(bgpids[s])
  BY <1>3, <1>4 DEF Forget
<1> QED BY <1>1, <1>5 DEF IsChild

\* A step after which the same processes are children.
LEMMA SameIInv ==
  ASSUME ShellIInv, UNCHANGED <<shpc, shpid, bgpids, warned>>, kids' = [q \in Pids |-> kids'[q]],
         \A q : IsChild(q)' <=> IsChild(q)
  PROVE  ShellIInv'
<1>1. \A q : InFront(q)' <=> InFront(q)
  BY Zenon DEF InFront
<1>2. ASSUME NEW i \in Slots PROVE SlotRight(i)'
  BY <1>1, Zenon DEF ShellIInv, SlotRight
<1>3. ASSUME NEW q \in Pids PROVE Known(q)' /\ (InFront(q)' => IsChild(q)')
  BY <1>1, Zenon DEF ShellIInv, Known
<1> QED BY <1>2, <1>3, Zenon DEF ShellIInv

\* A child ends: it stays a child until it is collected.
LEMMA KidEndsIInv ==
  ASSUME ShellIInv, NEW p \in Pids, KidEnds(p)
  PROVE  ShellIInv'
<1>1. PICK s \in Statuses : kids' = [kids EXCEPT ![p] = s]
  BY DEF KidEnds
<1>2. s # Free
  BY ShellAssumption DEF Free
<1>3. kids = [q \in Pids |-> kids[q]] /\ kids[p] # Free
  BY DEF ShellIInv, KidEnds, Runs, Free
<1>4. /\ \A q : IsChild(q)' <=> IsChild(q)
      /\ kids' = [q \in Pids |-> kids'[q]]
  BY <1>1, <1>2, <1>3 DEF IsChild
<1>5. UNCHANGED <<shpc, shpid, bgpids, warned>>
  BY DEF KidEnds
<1> QED BY <1>4, <1>5, SameIInv

\* wait with a pid, which may be any number.
LEMMA WaitPidIInv == ASSUME ShellIInv, cmd_wait_pid PROVE ShellIInv'
<1>1. /\ shpc = "wait pid" /\ shpc' # "fg" /\ shpid' = 0 /\ dowait(shpid) /\ Forget(shpid)
  BY DEF cmd_wait_pid, Done
<1>2. CASE HasEnded(shpid) /\ Reap(shpid) /\ UNCHANGED warned
  <2>1. shpid \in Pids
    BY <1>2 DEF HasEnded, IsChild
  <2> QED BY <1>1, <1>2, <2>1, CollectIInv
<1>3. CASE /\ ~IsChild(shpid) /\ UNCHANGED kids
           /\ warned' = (warned \/ \E i \in Slots : bgpids[i] = shpid /\ shpid # 0)
  <2>1. \A i \in Slots : bgpids[i] = shpid => shpid = 0
    BY <1>3, Zenon DEF ShellIInv, SlotRight
  <2>2. ~warned'
    BY <1>3, <2>1, Zenon DEF ShellIInv
  <2>3. bgpids' = [i \in Slots |-> bgpids[i]]
    BY <1>1, <2>1 DEF Forget
  <2>4. bgpids' = bgpids
    BY <2>3 DEF ShellIInv
  <2> QED BY <1>1, <1>3, <2>2, <2>4, QuietIInv
<1> QED BY <1>1, <1>2, <1>3, Zenon DEF dowait

\* wait alone: a slot in use names a child, which is collected.
LEMMA WaitIInv == ASSUME ShellIInv, cmd_wait PROVE ShellIInv'
<1>1. shpc = "wait all" /\ shpc' # "fg" /\ shpid' \in Pids \cup {0}
  BY DEF cmd_wait, Done, ShellIInv
<1>2. CASE UNCHANGED <<bgpids, kids, warned>>
  BY <1>1, <1>2, QuietIInv DEF ShellIInv
<1>3. CASE /\ shslot \in Slots /\ bgpids[shslot] # 0 /\ dowait(bgpids[shslot])
           /\ bgpids' = [bgpids EXCEPT ![shslot] = 0]
  <2>1. Forget(bgpids[shslot]) /\ bgpids[shslot] \in Pids /\ IsChild(bgpids[shslot])
    BY <1>3, SlotCleared
  <2>2. Reap(bgpids[shslot]) /\ UNCHANGED warned
    BY <1>3, <2>1, Zenon DEF dowait
  <2> QED BY <1>1, <2>1, <2>2, CollectIInv
<1> QED BY <1>2, <1>3, Zenon DEF cmd_wait

\* The poll after a command.
LEMMA PollIInv == ASSUME ShellIInv, waitpoll PROVE ShellIInv'
<1>1. shpc = "poll" /\ shpc' # "fg" /\ shpid' \in Pids \cup {0}
  BY DEF waitpoll, ShellIInv
<1>2. CASE UNCHANGED <<bgpids, kids, warned>>
  BY <1>1, <1>2, QuietIInv DEF ShellIInv
<1>3. CASE /\ shslot \in Slots /\ bgpids[shslot] # 0 /\ Reap(bgpids[shslot])
           /\ bgpids' = [bgpids EXCEPT ![shslot] = 0] /\ UNCHANGED warned
  <2>1. Forget(bgpids[shslot]) /\ bgpids[shslot] \in Pids
    BY <1>3, SlotCleared
  <2> QED BY <1>1, <1>3, <2>1, CollectIInv
<1>4. CASE shslot \in Slots /\ bgpids[shslot] # 0 /\ ~IsChild(bgpids[shslot])
  BY <1>4 DEF ShellIInv, SlotRight
<1> QED BY <1>2, <1>3, <1>4, Zenon DEF waitpoll

\* A program is started, in the background or in the foreground.
LEMMA ForkIInv ==
  ASSUME ShellIInv, NEW p \in Pids, shpc = "prompt", kids[p] = Free, kids' = [kids EXCEPT ![p] = Runs],
         UNCHANGED warned,
         \/ can_bg /\ remember_bg(p) /\ shpc' # "fg" /\ shpid' = 0
         \/ shpc' = "fg" /\ shpid' = p /\ UNCHANGED bgpids
  PROVE  ShellIInv'
<1>1. kids = [q \in Pids |-> kids[q]] /\ bgpids = [i \in Slots |-> bgpids[i]]
  BY DEF ShellIInv
<1>2. /\ \A q : IsChild(q)' <=> q = p \/ IsChild(q)
      /\ kids' = [q \in Pids |-> kids'[q]]
  BY <1>1 DEF IsChild, Runs, Free
<1>3. p # 0 /\ ~IsChild(p) /\ \A q : ~InFront(q)
  BY ShellAssumption DEF IsChild, InFront
<1>4. \A i \in Slots : bgpids[i] # p
  BY <1>3, Zenon DEF ShellIInv, SlotRight
<1>5. CASE can_bg /\ remember_bg(p) /\ shpc' # "fg" /\ shpid' = 0
  <2>1. PICK f \in Slots : bgpids[f] = 0 /\ bgpids' = [bgpids EXCEPT ![f] = p]
    BY <1>5, FirstFreeIsFree, Zenon DEF remember_bg
  <2>2. /\ \A i \in Slots : bgpids'[i] = IF i = f THEN p ELSE bgpids[i]
        /\ bgpids' = [i \in Slots |-> bgpids'[i]] /\ DOMAIN bgpids' = Slots
    BY <1>1, <2>1
  <2>3. \A q : ~InFront(q)'
    BY <1>5, Zenon DEF InFront
  <2>4. ASSUME NEW i \in Slots PROVE SlotRight(i)'
    BY <1>2, <1>4, <2>2, <2>3 DEF ShellIInv, SlotRight
  <2>5. ASSUME NEW q \in Pids PROVE Known(q)'
    <3>1. CASE q = p
      BY <2>2, <3>1 DEF Known
    <3>2. CASE q # p
      <4>1. IsChild(q)' => \E i \in Slots : bgpids[i] = q
        BY <1>2, <1>3, <3>2, Zenon DEF ShellIInv, Known
      <4>2. q # 0
        BY ShellAssumption
      <4> QED BY <2>1, <2>2, <4>1, <4>2 DEF Known
    <3> QED BY <3>1, <3>2
  <2> QED BY <1>2, <1>5, <2>2, <2>3, <2>4, <2>5, Zenon DEF ShellIInv
<1>6. CASE shpc' = "fg" /\ shpid' = p /\ UNCHANGED bgpids
  <2>1. \A q : InFront(q)' <=> q = p
    BY <1>6, Zenon DEF InFront
  <2>2. ASSUME NEW i \in Slots PROVE SlotRight(i)'
    BY <1>2, <1>4, <1>6, <2>1, Zenon DEF ShellIInv, SlotRight
  <2>3. ASSUME NEW q \in Pids PROVE Known(q)' /\ (InFront(q)' => IsChild(q)')
    BY <1>2, <1>3, <1>6, <2>1, Zenon DEF ShellIInv, Known
  <2> QED BY <1>2, <1>6, <2>2, <2>3, Zenon DEF ShellIInv
<1> QED BY <1>5, <1>6

\* docommand, with and without &.
LEMMA CommandIInv == ASSUME ShellIInv, NEW bg \in BOOLEAN, docommand(bg) PROVE ShellIInv'
<1>1. shpc = "prompt" /\ UNCHANGED warned
  BY DEF docommand
<1>2. CASE Done /\ UNCHANGED <<bgpids, kids>>
  BY <1>1, <1>2, QuietIInv DEF Done, ShellIInv
<1>3. ASSUME NEW p \in Pids, bg => can_bg, kids[p] = Free, kids' = [kids EXCEPT ![p] = Runs],
             \/ bg /\ remember_bg(p) /\ Done
             \/ shpc' = "fg" /\ shpid' = p /\ UNCHANGED bgpids
      PROVE  ShellIInv'
  <2>1. Done => shpc' # "fg" /\ shpid' = 0
    BY DEF Done
  <2> QED BY <1>1, <1>3, <2>1, ForkIInv
<1> QED BY <1>2, <1>3 DEF docommand

\* One step of the shell or of a child.
LEMMA ShellNextIInv == ASSUME ShellIInv, [ShellNext]_shvars PROVE ShellIInv'
<1>1. CASE UNCHANGED shvars
  <2>1. UNCHANGED <<shpc, shpid, bgpids, warned, kids>>
    BY <1>1 DEF shvars
  <2>2. kids' = [q \in Pids |-> kids'[q]] /\ \A q : IsChild(q)' <=> IsChild(q)
    BY <2>1, Zenon DEF ShellIInv, IsChild
  <2> QED BY <2>1, <2>2, SameIInv
<1>2. CASE docommand_waits
  <2>1. shpc = "fg" /\ HasEnded(shpid) /\ Reap(shpid) /\ shpc' # "fg" /\ shpid' = 0 /\ UNCHANGED <<bgpids, warned>>
    BY <1>2 DEF docommand_waits, Done
  <2>2. shpid \in Pids /\ InFront(shpid)
    BY <2>1, Zenon DEF HasEnded, IsChild, InFront
  <2>3. shpid # 0 /\ \A i \in Slots : bgpids[i] # shpid
    BY <2>2, ShellAssumption DEF ShellIInv, SlotRight
  <2>4. Forget(shpid)
    BY <2>1, <2>3 DEF Forget, ShellIInv
  <2> QED BY <2>1, <2>2, <2>4, CollectIInv
<1>3. CASE cmd_chdir \/ cmd_exit \/ StartWait \/ main_c
  <2>1. UNCHANGED <<bgpids, kids, warned>> /\ shpc # "fg" /\ shpc' # "fg" /\ shpid' \in Pids \cup {0}
    BY <1>3 DEF cmd_chdir, cmd_exit, StartWait, main_c, Done, ShellIInv
  <2> QED BY <2>1, QuietIInv DEF ShellIInv
<1> QED BY <1>1, <1>2, <1>3, KidEndsIInv, WaitPidIInv, WaitIInv, PollIInv, CommandIInv, Zenon DEF ShellNext

\* The table of jobs of sh.c is exact for every size of the table and any pids,
\* whenever children end and whatever is waited for.
THEOREM JobTableRight == ShellSpec => []JobTableExact
<1>1. ShellIInv => JobTableExact
  BY ShellIInvCounts
<1> QED BY <1>1, ShellInitIInv, ShellNextIInv, PTL DEF ShellSpec
=============================================================================
