------------------------------ MODULE Sbrktest ------------------------------
(***************************************************************************)
(* sbrktest, the program that tests a kernel's sbrk, on a kernel that is   *)
(* right and on kernels that are wrong in one way each.  Every test is a   *)
(* script of the calls and checks it makes; a forked child runs its own    *)
(* script at the same time.  Addresses of the heap are page numbers.       *)
(***************************************************************************)
EXTENDS Integers, Sequences, FiniteSets, TLC

CONSTANTS FRAMES,       \* pages of physical memory
          HUGE,         \* pages test 9 first asks for
          FEW,          \* pages of tests 3 and 4
          SOME,         \* of tests 8 and 15
          LOT,          \* of test 11
          STRESSMAX,    \* pages the stress test may hold
          STRESSPAGES,  \* it moves the break by fewer pages than this
          STRESSLOOPS,  \* bound: iterations of the stress test
          Faults        \* kernels to test

VARIABLES kfault,   \* what is wrong with the kernel, or "none"
          kern,     \* its state: frames, page tables and breaks
          code,     \* what is left of the script of each process
          regs,     \* its variables
          status,   \* "none", "run", or how it ended
          tn,       \* the test being run
          verdicts  \* how the parent of each test ended

bvars == <<kfault, kern, code, regs, status, tn, verdicts>>

Procs == {"parent", "child"}
FREE == <<"free">>
ZERO == <<"zero">>
Pat(i) == <<"page", i>>

----------------------------------------------------------------------------
(* The kernel                                                              *)

Unused(k) == {f \in 1..FRAMES : k.frames[f] = FREE}
Smallest(S, n) == CHOOSE T \in SUBSET S : Cardinality(T) = n /\ \A t \in T, s \in S \ T : t < s
Nth(T, i) == CHOOSE t \in T : Cardinality({u \in T : u < t}) = i

NewProc(k, pr) == [k EXCEPT !.pages[pr] = <<>>, !.brk[pr] = 0]

Give(k, pr, n) ==
  LET got == Smallest(Unused(k), n)
      at == k.brk[pr]
      Frame(i) == IF kfault = "one frame twice" /\ i > at THEN Nth(got, i - at - 1) ELSE Nth(got, i - at)
  IN  [k EXCEPT !.frames = [f \in 1..FRAMES |-> IF f \in got THEN ZERO ELSE @[f]],
                !.pages[pr] = [i \in at..(at + n - 1) |-> Frame(i)] @@ @,
                !.brk[pr] = at + n]

TakeBack(k, pr, n) ==
  LET end == k.brk[pr] - (IF kfault = "one page too many" THEN n + 1 ELSE n)
      gone == {i \in DOMAIN k.pages[pr] : i >= end}
      lost == {k.pages[pr][i] : i \in gone}
  IN  [k EXCEPT !.frames = [f \in 1..FRAMES |-> IF f \in lost /\ kfault # "frames leak" THEN FREE ELSE @[f]],
                !.pages[pr] = IF kfault = "stays mapped" THEN @
                              ELSE [i \in DOMAIN @ \ gone |-> @[i]],
                !.brk[pr] = IF kfault = "break stays" THEN @ ELSE @ - n]

\* The break before the call, or -1.
sys_sbrk(k, pr, n) ==
  CASE n > Cardinality(Unused(k)) \/ k.brk[pr] + n < 0 -> [k |-> k, ret |-> -1]
    [] n <= Cardinality(Unused(k)) /\ n >= 0 ->
       [k |-> Give(k, pr, n), ret |-> IF kfault = "new break" THEN k.brk[pr] + n ELSE k.brk[pr]]
    [] n < 0 /\ k.brk[pr] + n >= 0 -> [k |-> TakeBack(k, pr, -n), ret |-> k.brk[pr]]

Mapped(k, pr, i) == i \in DOMAIN k.pages[pr] \/ (kfault = "past the end" /\ i = k.brk[pr])

\* The child gets copies of the pages.
CopyHeap(k) ==
  LET mine == k.pages["parent"]
      got == Smallest(Unused(k), Cardinality(DOMAIN mine))
      copy == [i \in DOMAIN mine |-> Nth(got, i)]
  IN  IF kfault = "pages shared" THEN [k EXCEPT !.pages["child"] = mine, !.brk["child"] = k.brk["parent"]]
      ELSE [k EXCEPT !.pages["child"] = copy, !.brk["child"] = k.brk["parent"],
                     !.frames = [f \in 1..FRAMES |->
                        IF f \notin got THEN @[f]
                        ELSE IF kfault = "pages not copied" THEN ZERO
                        ELSE k.frames[mine[CHOOSE i \in DOMAIN mine : copy[i] = f]]]]

EndProc(k, pr) ==
  LET lost == {k.pages[pr][i] : i \in DOMAIN k.pages[pr]}
  IN  [NewProc(k, pr) EXCEPT
         !.frames = [f \in 1..FRAMES |-> IF f \in lost /\ kfault # "exit leaks" THEN FREE ELSE @[f]]]

----------------------------------------------------------------------------
(* The program's own operations.  Each takes the kernel, the process and   *)
(* its registers and gives them back with the process's status.            *)

Goes(k, r) == [k |-> k, r |-> r, st |-> "run"]
Ends_(k, r, st) == [k |-> k, r |-> r, st |-> st]

NUM == -1
Amount(r, n) == IF n = NUM THEN r.num ELSE n

\* sbrk, with an error the end of the program.
dosbrk(k, pr, n) == LET x == sys_sbrk(k, pr, n) IN [k |-> x.k, p |-> x.ret, ok |-> x.ret # -1]

markpage(k, pr, i, off) ==
  IF i \in DOMAIN k.pages[pr] THEN [k EXCEPT !.frames[k.pages[pr][i]] = Pat(off)] ELSE k
\* Mutant: what the page holds is not compared.
checkpage_touch(k, pr, i, off) == i \in DOMAIN k.pages[pr]
checkpage(k, pr, i, off) == i \in DOMAIN k.pages[pr] /\ k.frames[k.pages[pr][i]] = Pat(off)

RECURSIVE MarkFrom(_, _, _, _, _)
MarkFrom(k, pr, base, i, n) ==
  IF i = n THEN k ELSE MarkFrom(markpage(k, pr, base + i, i), pr, base, i + 1, n)

\* Pages a to b-1 after the address in p; a page that is not there is SIGSEGV.
Mark(k, pr, r, a, b) ==
  IF \E i \in a..(b - 1) : (r.p + i) \notin DOMAIN k.pages[pr] THEN Ends_(k, r, "sigsegv")
  ELSE Goes(MarkFrom(k, pr, r.p, a, b), r)
Check(k, pr, r, a, b) ==
  IF \A i \in a..(b - 1) : checkpage(k, pr, r.p + i, i) THEN Goes(k, r) ELSE Ends_(k, r, "failed")

Grow(k, pr, r, n) ==
  LET x == dosbrk(k, pr, n) IN IF x.ok THEN Goes(x.k, [r EXCEPT !.p = x.p]) ELSE Ends_(k, r, "failed")
Shrink(k, pr, r, n) ==
  LET x == dosbrk(k, pr, -n) IN IF x.ok THEN Goes(x.k, r) ELSE Ends_(k, r, "failed")
\* The call must return the break as it was.
GrowSame(k, pr, r, n) ==
  LET x == Grow(k, pr, r, n) IN IF x.st = "run" /\ x.r.p # r.op THEN Ends_(x.k, r, "failed") ELSE x
ShrinkSame(k, pr, r, n) ==
  LET p == dosbrk(k, pr, 0).p
      x == dosbrk(k, pr, -n)
  IN  IF x.ok /\ x.p = p THEN Goes(x.k, r) ELSE Ends_(x.k, r, "failed")
Restored(k, pr, r) == IF dosbrk(k, pr, 0).p = r.op THEN Goes(k, r) ELSE Ends_(k, r, "failed")

\* A write just past the end of the heap must be fatal.
PastEnd(k, pr, r) ==
  IF Mapped(k, pr, dosbrk(k, pr, 0).p) THEN Ends_(k, r, "failed") ELSE Ends_(k, r, "sigsegv")

RECURSIVE GrowMost(_, _, _, _)
GrowMost(k, pr, r, size) ==
  LET x == sys_sbrk(k, pr, size)
  IN  IF x.ret # -1 THEN Goes(x.k, [r EXCEPT !.p = x.ret, !.num = size])
      ELSE GrowMost(k, pr, r, size \div 2)

RECURSIVE GrowAll(_, _, _)
GrowAll(k, pr, r) ==
  LET x == sys_sbrk(k, pr, 1)
  IN  IF x.ret = -1 THEN Goes(k, [r EXCEPT !.p = r.op])
      ELSE GrowAll(markpage(x.k, pr, r.op + r.num, r.num), pr, [r EXCEPT !.num = @ + 1])

RECURSIVE ShrinkAll(_, _, _)
ShrinkAll(k, pr, r) ==
  IF r.num = 0 THEN Goes(k, r)
  ELSE IF ~checkpage(k, pr, r.op + r.num - 1, r.num - 1) THEN Ends_(k, r, "failed")
  ELSE ShrinkAll(dosbrk(k, pr, -1).k, pr, [r EXCEPT !.num = @ - 1])

----------------------------------------------------------------------------
(* The tests                                                               *)

Do(o) == [o |-> o]
DoN(o, n) == [o |-> o, n |-> n]
DoAB(o, a, b) == [o |-> o, a |-> a, b |-> b]
OnePage == <<DoN("grow", 1), DoAB("mark", 0, 1), DoAB("check", 0, 1)>>
SomePages(n) == <<Do("break"), DoN("growsame", n), DoAB("mark", 0, n), DoAB("check", 0, n)>>
ForkTo(c) == [o |-> "fork", child |-> c]
Wait == Do("wait")

test_1 == OnePage
test_2 == <<Do("break"), DoN("growsame", 1), DoAB("mark", 0, 1), DoAB("check", 0, 1),
            DoN("shrinksame", 1), Do("restored")>>
test_3 == SomePages(FEW) \o <<DoN("shrinksame", FEW), Do("restored")>>
test_4 == LET Less == [i \in 1..(2 * FEW) |->
                         IF i % 2 = 1 THEN DoN("shrink", 1) ELSE DoAB("check", 0, FEW - (i \div 2))]
          IN  SomePages(FEW) \o Less \o <<Do("restored")>>
test_5 == <<Do("pastend")>>
test_6 == <<DoN("grow", 1), Do("pastend")>>
test_7 == <<DoN("grow", 1), DoN("shrink", 1), Do("pastend")>>
test_8 == <<DoN("grow", SOME), DoN("shrink", SOME \div 2), Do("pastend")>>
test_9 == <<Do("growmost"), DoAB("mark", 0, NUM), DoAB("check", 0, NUM),
            DoN("shrink", NUM), DoN("grow", NUM), DoN("shrink", NUM)>>
test_10 == <<Do("break"), Do("growall"), Do("shrinkall"), Do("restored")>> \o OnePage \o <<DoN("shrink", 1)>>
test_11 == <<DoN("grow", LOT), DoAB("mark", 0, LOT), DoAB("check", 0, LOT)>>
test_12 == <<ForkTo(OnePage)>> \o OnePage \o <<Wait>>
test_13 == OnePage \o <<ForkTo(<<DoAB("check", 0, 1)>>), DoAB("check", 0, 1), Wait>>
test_14 == OnePage \o <<ForkTo(<<DoAB("check", 0, 1), DoN("shrink", 1)>>), Wait, DoAB("check", 0, 1)>>

\* The break moves, and p stays where the first pages are.
test_15 ==
  LET n == SOME + 1
      Child == <<DoAB("check", 0, n), DoN("shrink", 3), DoAB("check", 0, n - 3), DoN("more", 2),
                 DoAB("mark", n - 3, n - 1), DoAB("check", 0, n - 1), DoN("shrink", n - 1)>>
  IN  <<DoN("grow", SOME), DoAB("mark", 0, SOME), DoAB("check", 0, SOME), DoN("shrink", 1),
        DoAB("check", 0, SOME - 1), DoN("more", 2), DoAB("mark", SOME - 1, n), DoAB("check", 0, n),
        ForkTo(Child), DoN("more", 4), DoAB("mark", n, n + 4), DoAB("check", 0, n + 4),
        Wait, DoAB("check", 0, n + 4), DoN("shrink", n + 4)>>

stresstest == <<Do("break")>> \o [i \in 1..STRESSLOOPS |-> Do("random")] \o <<DoN("shrink", NUM)>>

SbrkTests == <<test_1, test_2, test_3, test_4, test_5, test_6, test_7, test_8, test_9, test_10, test_11,
               test_12, test_13, test_14, test_15, stresstest>>
Fatal == 5..8

\* What one operation of a script does.
Exec(k, pr, r, c) ==
  CASE c.o = "break" -> Goes(k, [r EXCEPT !.op = dosbrk(k, pr, 0).p, !.p = dosbrk(k, pr, 0).p])
    [] c.o = "grow" -> Grow(k, pr, r, Amount(r, c.n))
    [] c.o = "more" -> Goes(Grow(k, pr, r, c.n).k, r)
    [] c.o = "shrink" -> Shrink(k, pr, r, Amount(r, c.n))
    [] c.o = "growsame" -> GrowSame(k, pr, r, c.n)
    [] c.o = "shrinksame" -> ShrinkSame(k, pr, r, c.n)
    [] c.o = "restored" -> Restored(k, pr, r)
    [] c.o = "mark" -> Mark(k, pr, r, c.a, Amount(r, c.b))
    [] c.o = "check" -> Check(k, pr, r, c.a, Amount(r, c.b))
    [] c.o = "pastend" -> PastEnd(k, pr, r)
    [] c.o = "growmost" -> GrowMost(k, pr, r, HUGE)
    [] c.o = "growall" -> GrowAll(k, pr, r)
    [] c.o = "shrinkall" -> ShrinkAll(k, pr, r)

----------------------------------------------------------------------------
(* Processes                                                               *)

NoRegs == [op |-> 0, p |-> 0, num |-> 0]

SbrkInit ==
  /\ kfault \in Faults
  /\ kern = [frames |-> [f \in 1..FRAMES |-> FREE], pages |-> [pr \in Procs |-> <<>>], brk |-> [pr \in Procs |-> 0]]
  /\ code = [pr \in Procs |-> <<>>] /\ regs = [pr \in Procs |-> NoRegs]
  /\ status = [pr \in Procs |-> "none"]
  /\ tn = 0 /\ verdicts = <<>>

\* The tests are run one after the other, each in a process of its own.
RunTest ==
  /\ status["parent"] = "none" /\ status["child"] # "run" /\ tn < Len(SbrkTests)
  /\ tn' = tn + 1
  /\ code' = [code EXCEPT !["parent"] = SbrkTests[tn + 1]]
  /\ regs' = [regs EXCEPT !["parent"] = NoRegs]
  /\ status' = [pr \in Procs |-> IF pr = "parent" THEN "run" ELSE "none"]
  /\ kern' = NewProc(kern, "parent")
  /\ UNCHANGED <<kfault, verdicts>>

Running_(pr) == status[pr] = "run" /\ code[pr] # <<>>

Apply(pr, e) ==
  /\ kern' = IF pr = "child" /\ e.st # "run" THEN EndProc(e.k, pr) ELSE e.k
  /\ regs' = [regs EXCEPT ![pr] = e.r]
  /\ status' = [status EXCEPT ![pr] = e.st]
  /\ code' = [code EXCEPT ![pr] = Tail(@)]
  /\ UNCHANGED <<kfault, tn, verdicts>>

StepTest(pr) ==
  /\ Running_(pr) /\ Head(code[pr]).o \notin {"fork", "wait", "random"}
  /\ Apply(pr, Exec(kern, pr, regs[pr], Head(code[pr])))

\* One iteration of the stress test; the random number gives the number of
\* pages and whether to free them when there are that many.
StressLoop(pr) ==
  /\ Running_(pr) /\ Head(code[pr]).o = "random"
  /\ \E pages \in 0..(STRESSPAGES - 1), freeing \in BOOLEAN :
       LET r == regs[pr]
           neg == (pages <= r.num /\ freeing) \/ r.num + pages > STRESSMAX
           moved == IF neg THEN Shrink(kern, pr, r, pages) ELSE Goes(Grow(kern, pr, r, pages).k, r)
           n == IF neg THEN r.num - pages ELSE r.num + pages
           marked == IF neg THEN moved ELSE Mark(moved.k, pr, [r EXCEPT !.p = r.op], r.num, n)
           checked == Check(marked.k, pr, [r EXCEPT !.p = r.op, !.num = n], 0, n)
       IN  Apply(pr, IF moved.st # "run" THEN moved ELSE IF marked.st # "run" THEN marked ELSE checked)

dofork ==
  /\ Running_("parent") /\ Head(code["parent"]).o = "fork"
  /\ kern' = CopyHeap(kern)
  /\ code' = [code EXCEPT !["parent"] = Tail(@), !["child"] = Head(code["parent"]).child]
  /\ regs' = [regs EXCEPT !["child"] = regs["parent"]]
  /\ status' = [status EXCEPT !["child"] = "run"]
  /\ UNCHANGED <<kfault, tn, verdicts>>

\* A child that was killed or that failed is the failure of the parent.
dowait ==
  /\ Running_("parent") /\ Head(code["parent"]).o = "wait" /\ status["child"] \notin {"run", "none"}
  /\ Apply("parent", Ends_(kern, regs["parent"], IF status["child"] = "passed" THEN "run" ELSE "failed"))

ChildExits ==
  /\ status["child"] = "run" /\ code["child"] = <<>>
  /\ status' = [status EXCEPT !["child"] = "passed"]
  /\ kern' = EndProc(kern, "child")
  /\ UNCHANGED <<kfault, code, regs, tn, verdicts>>

ParentExits ==
  /\ status["parent"] \in {"failed", "sigsegv"} \/ (status["parent"] = "run" /\ code["parent"] = <<>>)
  /\ verdicts' = Append(verdicts, IF status["parent"] = "run" THEN "passed" ELSE status["parent"])
  /\ status' = [status EXCEPT !["parent"] = "none"]
  /\ kern' = EndProc(kern, "parent")
  /\ UNCHANGED <<kfault, code, regs, tn>>

SbrkNext ==
  RunTest \/ dofork \/ dowait \/ ChildExits \/ ParentExits \/ \E pr \in Procs : StepTest(pr) \/ StressLoop(pr)

SbrkSpec == SbrkInit /\ [][SbrkNext]_bvars

----------------------------------------------------------------------------

Expected(t) == IF t \in Fatal THEN "sigsegv" ELSE "passed"
Surprising == {t \in 1..Len(verdicts) : verdicts[t] # Expected(t)}

\* sbrktest judges the kernel it runs on: on one that is right every test passes
\* (those that must end with signal 11 do), whichever way parent and child are
\* scheduled; and a kernel that is wrong in any of the ways considered is
\* reported by some test by the end of the list.
SbrktestJudges ==
  /\ kfault = "none" => Surprising = {}
  /\ Len(verdicts) = Len(SbrkTests) /\ kfault # "none" => Surprising # {}

============================================================================
