------------------------------- MODULE Psort -------------------------------
(***************************************************************************)
(* psort, the parallel sort.  The parent forks a process for every part of *)
(* the work, phase after phase: generate keys, toss them into bins, sort   *)
(* the bins, merge them, assemble the output, validate it.  The processes  *)
(* of a phase run at the same time and share nothing but the files, which  *)
(* are sequences of keys here; a hole reads as 0.                          *)
(***************************************************************************)
EXTENDS Integers, TLC, SequencesExt, FiniteSetsExt

CONSTANTS Settings,     \* records of procs, keys and worknum
          RANDOM_MAX,
          CATBUF,       \* keys that /bin/cat moves at a time
          ForkFails     \* forks that can fail

VARIABLES set,      \* the settings of this run
          files,    \* the file system: a function from names to contents
          stage,    \* the phase, or "succeeded" or "failed"
          forked,   \* processes forked in this phase
          child,    \* each one's status, and how much of its work is done
          bad,      \* a fork has failed
          checksum, \* of the keys
          sorted    \* the output file when it was removed

pvars == <<set, files, stage, forked, child, bad, checksum, sorted>>

KEYS == <<"sortkeys">>
SORTED == <<"output">>
binname(a, b) == <<"bin", a, b>>
mergedname(a) == <<"merged", a>>
validname(a) == <<"valid", a>>

P0 == 0..(set.procs - 1)
Random == 1..(RANDOM_MAX - 1)

----------------------------------------------------------------------------
(* Files                                                                   *)

getsize(name) == Len(files[name])
doread(name, off, n) ==
  LET size == getsize(name) IN SubSeq(files[name], off + 1, IF off + n > size THEN size ELSE off + n)

\* The file with data written at offset off.
dowrite(f, off, data) ==
  [i \in 1..(IF Len(f) > off + Len(data) THEN Len(f) ELSE off + Len(data)) |->
     CASE i \in (off + 1)..(off + Len(data)) -> data[i - off]
       [] i \notin (off + 1)..(off + Len(data)) /\ i <= Len(f) -> f[i]
       [] OTHER -> 0]

With(fs, name, data) == [n \in DOMAIN fs \cup {name} |-> IF n = name THEN data ELSE fs[n]]
doremove(fs, names) == [n \in DOMAIN fs \ names |-> fs[n]]
docreate(fs, name) == With(fs, name, <<>>)

Sum_(seq) == FoldLeft(LAMBDA a, b : a + b, 0, seq)
checksum_file(name) == Sum_(files[name])

keys_per == set.keys \div set.procs
seekmyplace(me) == me * keys_per
getmykeys(me) == IF me < set.procs - 1 THEN keys_per ELSE set.keys - seekmyplace(me)
keys_to_do(me) == LET left == getmykeys(me) - child[me].pos IN IF left > set.worknum THEN set.worknum ELSE left

----------------------------------------------------------------------------
(* sortints                                                                *)

\* The loop that moves smaller keys to the front and larger ones to the end.
RECURSIVE Partition(_, _, _, _, _)
Partition(v, frontpos, readpos, endpos, pivotval) ==
  CASE readpos >= endpos -> [v |-> v, front |-> frontpos, end |-> endpos]
    [] readpos < endpos /\ v[readpos + 1] < pivotval ->
       Partition([v EXCEPT ![frontpos + 1] = v[readpos + 1]], frontpos + 1, readpos + 1, endpos, pivotval)
    [] readpos < endpos /\ v[readpos + 1] = pivotval ->
       Partition(v, frontpos, readpos + 1, endpos, pivotval)
    [] readpos < endpos /\ v[readpos + 1] > pivotval ->
       Partition([v EXCEPT ![endpos] = v[readpos + 1], ![readpos + 1] = v[endpos]],
                 frontpos, readpos, endpos - 1, pivotval)

RECURSIVE sortints(_)
sortints(v) ==
  IF Len(v) < 2 THEN v
  ELSE LET pivotval == v[(Len(v) \div 2) + 1]
           p == Partition(v, 0, 0, Len(v), pivotval)
       IN  sortints(SubSeq(p.v, 1, p.front)) \o [i \in 1..(p.end - p.front) |-> pivotval]
             \o sortints(Reverse(SubSeq(p.v, p.end + 1, Len(v))))

----------------------------------------------------------------------------
(* What the processes do                                                   *)

Runs_(me) == me \in P0 /\ child[me].st = "run"
Goes_(me, n) == child' = [child EXCEPT ![me].pos = @ + n]
Exits(me, st) == child' = [child EXCEPT ![me].st = st]

genkeys_sub(me) ==
  /\ stage = "gen" /\ Runs_(me)
  /\ IF child[me].pos < getmykeys(me)
     THEN \E vals \in [1..keys_to_do(me) -> Random] :
            /\ files' = [files EXCEPT ![KEYS] = dowrite(@, seekmyplace(me) + child[me].pos, vals)]
            /\ Goes_(me, keys_to_do(me))
     ELSE Exits(me, "ok") /\ UNCHANGED files

pivot == RANDOM_MAX \div set.procs

\* The first step opens, and so creates, the bins.
bin(me) ==
  LET chunk == doread(KEYS, seekmyplace(me) + child[me].pos, keys_to_do(me))
      Mine(b) == SelectSeq(chunk, LAMBDA key : key \div pivot = b)
      Begun(b) == IF child[me].pos = 0 THEN <<>> ELSE files[binname(me, b)]
      Tossed == [n \in DOMAIN files \cup {binname(me, b) : b \in P0} |->
                   IF \E b \in P0 : n = binname(me, b) THEN Begun(n[3]) \o Mine(n[3]) ELSE files[n]]
  IN  /\ stage = "toss" /\ Runs_(me)
      /\ IF child[me].pos < getmykeys(me)
         THEN IF \A i \in 1..Len(chunk) : chunk[i] \div pivot < set.procs
              THEN files' = Tossed /\ Goes_(me, keys_to_do(me))
              ELSE Exits(me, "assert") /\ UNCHANGED files
         ELSE Exits(me, "ok") /\ files' = IF getmykeys(me) = 0 THEN Tossed ELSE files

sortbins(me) ==
  /\ stage = "sort" /\ Runs_(me)
  /\ IF child[me].pos = set.procs THEN Exits(me, "ok") /\ UNCHANGED files
     ELSE LET name == binname(me, child[me].pos)
          IN  IF getsize(name) > set.worknum THEN Exits(me, "too large") /\ UNCHANGED files
              ELSE /\ files' = [files EXCEPT ![name] = dowrite(@, 0, sortints(@))]
                   /\ Goes_(me, 1)

\* Mutant: the first bin that is not empty.
RECURSIVE Merge_first(_)
Merge_first(ins) ==
  LET ready == {i \in DOMAIN ins : ins[i] # <<>>}
      place == CHOOSE i \in ready : \A j \in ready : i <= j
  IN  IF ready = {} THEN <<>>
      ELSE <<Head(ins[place])>> \o Merge_first([ins EXCEPT ![place] = Tail(@)])

\* The smallest of the heads, the first one of equal ones, again and again.
RECURSIVE Merge(_)
Merge(ins) ==
  LET ready == {i \in DOMAIN ins : ins[i] # <<>>}
      place == CHOOSE i \in ready : \A j \in ready : Head(ins[i]) < Head(ins[j]) \/ (Head(ins[i]) = Head(ins[j]) /\ i <= j)
  IN  IF ready = {} THEN <<>>
      ELSE <<Head(ins[place])>> \o Merge([ins EXCEPT ![place] = Tail(@)])

mergebins(me) ==
  /\ stage = "merge" /\ Runs_(me)
  /\ files' = With(files, mergedname(me), Merge([i \in P0 |-> files[binname(i, me)]]))
  /\ Exits(me, "ok")

mypos(me) == Sum_([i \in 1..me |-> getsize(mergedname(i - 1))])

\* cat copies the merged file to its place in the output.
assemble(me) ==
  LET chunk == doread(mergedname(me), child[me].pos, CATBUF)
  IN  /\ stage = "assemble" /\ Runs_(me)
      /\ IF chunk = <<>> THEN Exits(me, "ok") /\ UNCHANGED files
         ELSE /\ files' = [files EXCEPT ![SORTED] = dowrite(@, mypos(me) + child[me].pos, chunk)]
              /\ Goes_(me, Len(chunk))

\* The smallest and the largest key of this part of the output.
dovalidate(me) ==
  LET mine == doread(SORTED, seekmyplace(me), getmykeys(me))
      Small(a, b) == IF b < a THEN b ELSE a
      Large(a, b) == IF b > a THEN b ELSE a
  IN  /\ stage = "validate" /\ Runs_(me)
      /\ IF \A i \in 1..Len(mine) : mine[i] \in Random
         THEN /\ files' = With(files, validname(me), <<FoldLeft(Small, RANDOM_MAX, mine), FoldLeft(Large, 0, mine)>>)
              /\ Exits(me, "ok")
         ELSE Exits(me, "bad key") /\ UNCHANGED files

----------------------------------------------------------------------------
(* The parent                                                              *)

Idle_ == [i \in P0 |-> [st |-> "none", pos |-> 0]]

checksize(names) == FoldSet(LAMBDA n, a : a + getsize(n), 0, names) = set.keys
Bins == {binname(a, b) : a, b \in P0}
Merged == {mergedname(a) : a \in P0}

\* prev_largest is 1 for every block.
validate ==
  \A i \in P0 : LET v == files[validname(i)]
                IN  v[1] >= 1 /\ v[2] < RANDOM_MAX /\ v[1] <= v[2] /\ v[1] >= 1

\* What follows a phase: whether its checks are passed, the next phase, and
\* the files that one begins with.
genkeys == [ok |-> getsize(KEYS) = set.keys, next |-> "toss", fs |-> files]

sort ==
  CASE stage = "toss" -> [ok |-> checksize(Bins), next |-> "sort", fs |-> files]
    [] stage = "sort" -> [ok |-> checksize(Bins), next |-> "merge", fs |-> files]
    [] stage = "merge" -> [ok |-> checksize(Merged), next |-> "assemble",
                           fs |-> docreate(doremove(files, Bins), SORTED)]
    [] stage = "assemble" -> [ok |-> getsize(SORTED) = set.keys /\ checksum_file(SORTED) = checksum,
                              next |-> "validate", fs |-> doremove(files, Merged)]

unsetdir == doremove(files, {KEYS, SORTED} \cup {validname(i) : i \in P0})

After ==
  CASE stage = "gen" -> genkeys
    [] stage = "validate" -> [ok |-> validate, next |-> "succeeded", fs |-> unsetdir]
    [] OTHER -> sort

PsortInit ==
  /\ set \in Settings
  /\ files = (KEYS :> <<>>)
  /\ stage = "gen" /\ forked = 0 /\ bad = FALSE /\ checksum = 0 /\ sorted = <<>>
  /\ child = Idle_

Going == stage \notin {"succeeded", "failed"}

Fork_ ==
  /\ Going /\ forked < set.procs
  /\ forked' = forked + 1
  /\ child' = [child EXCEPT ![forked].st = "run"]
  /\ UNCHANGED <<set, files, stage, bad, checksum, sorted>>

ForkFailed ==
  /\ Going /\ forked < set.procs /\ ForkFails > 0 /\ ~bad
  /\ forked' = forked + 1 /\ bad' = TRUE
  /\ UNCHANGED <<set, files, stage, child, checksum, sorted>>

\* All the processes have been waited for.
doforkall ==
  /\ Going /\ forked = set.procs /\ \A i \in P0 : child[i].st # "run"
  /\ IF bad \/ \E i \in P0 : child[i].st # "ok"
     THEN stage' = "failed" /\ UNCHANGED <<files, checksum, sorted>>
     ELSE /\ stage' = IF After.ok THEN After.next ELSE "failed"
          /\ files' = After.fs
          /\ checksum' = IF stage = "gen" THEN checksum_file(KEYS) ELSE checksum
          /\ sorted' = IF stage = "validate" THEN files[SORTED] ELSE sorted
  /\ forked' = 0 /\ child' = Idle_
  /\ UNCHANGED <<set, bad>>

Work(me) ==
  /\ genkeys_sub(me) \/ bin(me) \/ sortbins(me) \/ mergebins(me) \/ assemble(me) \/ dovalidate(me)
  /\ UNCHANGED <<set, stage, forked, bad, checksum, sorted>>

PsortNext == Fork_ \/ ForkFailed \/ doforkall \/ \E me \in P0 : Work(me)

PsortSpec == PsortInit /\ [][PsortNext]_pvars

----------------------------------------------------------------------------

Ordered(seq) == \A i \in 1..(Len(seq) - 1) : seq[i] <= seq[i + 1]


============================================================================
