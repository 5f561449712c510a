------------------------------- MODULE Malloc -------------------------------
(***************************************************************************)
(* The user-level malloc and free of libc, and malloctest, the program     *)
(* that tests them.                                                        *)
(*                                                                         *)
(* Memory is counted in words of four bytes.  The heap is what lies        *)
(* between base and top; a block begins with a header of two words, the    *)
(* first with the distance to the previous header and the second with the  *)
(* distance to the next and the in-use bit.  sbrk is the kernel's; it      *)
(* refuses to move the break beyond limit.                                 *)
(***************************************************************************)
EXTENDS Integers, Sequences, FiniteSets

CONSTANTS PAGE_SIZE,      \* words in a page
          Limits,         \* words that the kernel will give to the process
          SMALLSIZE, MEDIUMSIZE, BIGSIZE, HUGESIZE,   \* of malloctest
          OVERHEAD, ABSURD_OVERHEAD,
          Sizes, NPTRS, LOOPS,                        \* of its stress test
          Tests                                       \* bound: tests run in a row

VARIABLES uheap,    \* the heap
          ptrs,     \* blocks of the stress test; 0 for NULL
          psizes,   \* their sizes
          failed,   \* how the stress test failed, "passed" as long as it has not
          loops,    \* iterations of the stress test to go; -1 outside it
          results   \* the tests so far, and how each one ended

mvars == <<uheap, ptrs, psizes, failed, loops, results>>

MBLOCKSIZE == 2
NULL == 0
BASE == PAGE_SIZE

Prev(n) == [k |-> "prev", off |-> n]
Next_(n, inuse) == [k |-> "next", off |-> n, inuse |-> inuse]
Val(v) == [k |-> "val", v |-> v]
DEADBEEF == Val("deadbeef")

\* dead is the error that made the process exit.
NewHeap(limit) == [base |-> 0, top |-> 0, brk |-> BASE, limit |-> limit, mem |-> <<>>, dead |-> "no"]

----------------------------------------------------------------------------
(* malloc                                                                  *)

Errx(h, why) == [h EXCEPT !.dead = why]

\* A word that is not of a header reads as a free block of no size.
Off(word) == IF word.k = "val" THEN 0 ELSE word.off
M_NEXTOFF(h, mh) == Off(h.mem[mh + 1]) * MBLOCKSIZE
M_PREVOFF(h, mh) == Off(h.mem[mh]) * MBLOCKSIZE
M_NEXT(h, mh) == mh + M_NEXTOFF(h, mh)
M_PREV(h, mh) == mh - M_PREVOFF(h, mh)
M_DATA(mh) == mh + MBLOCKSIZE
M_SIZE(h, mh) == M_NEXTOFF(h, mh) - MBLOCKSIZE
M_OK(h, mh) == h.mem[mh].k = "prev" /\ h.mem[mh + 1].k = "next"
M_MKFIELD(off) == off \div MBLOCKSIZE
InUse(h, mh) == h.mem[mh + 1].k = "next" /\ h.mem[mh + 1].inuse

\* The kernel's sbrk: the old break, or -1.
sbrk(h, n) == IF h.brk + n > BASE + h.limit THEN -1 ELSE h.brk

\* New memory reads as zero.
Grown(h, n) ==
  [h EXCEPT !.brk = @ + n,
            !.mem = [a \in h.base..(h.brk + n - 1) |-> IF a < h.brk THEN h.mem[a] ELSE Val(0)]]

__malloc_init(h) == [h EXCEPT !.base = h.brk, !.top = h.brk]

__malloc_sbrk(h, size) ==
  IF sbrk(h, size) # h.top THEN Errx(h, "heap top moved itself") ELSE [Grown(h, size) EXCEPT !.top = @ + size]

__malloc_split(h, mh, size) ==
  LET oldsize == M_SIZE(h, mh)
      mhnext == M_NEXT(h, mh)
      mhnew == mh + MBLOCKSIZE + size
      split == [h EXCEPT !.mem[mh + 1].off = M_MKFIELD(size + MBLOCKSIZE),
                         !.mem[mhnew] = Prev(M_MKFIELD(size + MBLOCKSIZE)),
                         !.mem[mhnew + 1] = Next_(M_MKFIELD(oldsize - size), FALSE)]
  IN  IF oldsize - size < 2 * MBLOCKSIZE THEN h
      ELSE IF mhnext = h.top THEN split
      ELSE [split EXCEPT !.mem[mhnext].off = M_MKFIELD(oldsize - size)]

\* The walk from header i: the first free block of size words, or 0 and the
\* last header; "corrupt" when two headers disagree.
RECURSIVE Walk(_, _, _, _, _)
Walk(h, i, last, rightprev, size) ==
  IF i >= h.top THEN [mh |-> 0, last |-> last, rightprev |-> rightprev, ok |-> i = h.top]
  ELSE IF ~M_OK(h, i) THEN [mh |-> 0, ok |-> FALSE]
  ELSE IF h.mem[i].off # rightprev THEN [mh |-> 0, ok |-> FALSE]
  ELSE IF ~InUse(h, i) /\ M_SIZE(h, i) >= size THEN [mh |-> i, ok |-> TRUE]
  ELSE Walk(h, M_NEXT(h, i), i, h.mem[i + 1].off, size)

RoundUp(n, m) == ((n + m - 1) \div m) * m

\* Allocate block mh of heap h, which is large enough.
Take(h, mh, size) ==
  [h |-> [__malloc_split(h, mh, size) EXCEPT !.mem[mh + 1].inuse = TRUE], p |-> M_DATA(mh)]

\* Get morespace words from the kernel; w is the walk that found no block.
Extend(h, size, w, extend, morespace) ==
  LET Use(more) ==
        IF more.dead # "no" THEN [h |-> more, p |-> NULL]
        ELSE IF extend
        THEN Take([more EXCEPT !.mem[w.last + 1].off = M_MKFIELD(M_NEXTOFF(h, w.last) + morespace)], w.last, size)
        ELSE Take([more EXCEPT !.mem[h.top] = Prev(w.rightprev),
                               !.mem[h.top + 1] = Next_(M_MKFIELD(morespace), TRUE)], h.top, size)
  IN  IF sbrk(h, morespace) = -1 THEN [h |-> h, p |-> NULL] ELSE Use(__malloc_sbrk(h, morespace))

malloc(h0, size0) ==
  LET Search(h, size, w) ==
        LET extend == w.last # 0 /\ ~InUse(h, w.last)
        IN  IF ~w.ok THEN [h |-> Errx(h, "heap corrupt"), p |-> NULL]
            ELSE IF w.mh # 0 THEN Take(h, w.mh, size)
            ELSE Extend(h, size, w, extend,
                        RoundUp(IF extend THEN size - M_SIZE(h, w.last) ELSE MBLOCKSIZE + size, PAGE_SIZE))
      In(h, size) == Search(h, size, Walk(h, h.base, 0, 0, size))
  IN  In(IF h0.base = 0 THEN __malloc_init(h0) ELSE h0, RoundUp(size0, MBLOCKSIZE))

----------------------------------------------------------------------------
(* free                                                                    *)

__malloc_deadbeef(h, a, size) ==
  [h EXCEPT !.mem = [b \in DOMAIN @ |-> IF b \in a..(a + size - 1) THEN DEADBEEF ELSE @[b]]]

\* Mutant: the header after the two blocks keeps the old distance.
__malloc_trymerge_noprev(h, mh, mhnext) ==
  LET size == MBLOCKSIZE + M_SIZE(h, mh) + MBLOCKSIZE + M_SIZE(h, mhnext)
  IN  IF InUse(h, mh) \/ InUse(h, mhnext) THEN h
      ELSE __malloc_deadbeef([h EXCEPT !.mem[mh + 1].off = M_MKFIELD(size)], mhnext, MBLOCKSIZE)

__malloc_trymerge(h, mh, mhnext) ==
  LET size == MBLOCKSIZE + M_SIZE(h, mh) + MBLOCKSIZE + M_SIZE(h, mhnext)
      mhnextnext == M_NEXT(h, mhnext)
      merged == [h EXCEPT !.mem[mh + 1].off = M_MKFIELD(size)]
      linked == IF mhnextnext = h.top THEN merged
                ELSE [merged EXCEPT !.mem[mhnextnext].off = M_MKFIELD(size)]
  IN  IF Off(h.mem[mh + 1]) # Off(h.mem[mhnext]) THEN Errx(h, "heap corrupt")
      ELSE IF InUse(h, mh) \/ InUse(h, mhnext) THEN h
      ELSE __malloc_deadbeef(linked, mhnext, MBLOCKSIZE)

\* Mutant: only the block above is merged.
free_above(h, x) ==
  LET mh == x - MBLOCKSIZE
      wiped == __malloc_deadbeef([h EXCEPT !.mem[mh + 1].inuse = FALSE], x, M_SIZE(h, mh))
      mhnext == M_NEXT(h, mh)
  IN  IF x = NULL THEN h
      ELSE IF mhnext = h.top THEN wiped ELSE __malloc_trymerge(wiped, mh, mhnext)

free(h, x) ==
  LET mh == x - MBLOCKSIZE
      Wiped == __malloc_deadbeef([h EXCEPT !.mem[mh + 1].inuse = FALSE], x, M_SIZE(h, mh))
      Up(wiped, mhnext) == IF mhnext = h.top THEN wiped ELSE __malloc_trymerge(wiped, mh, mhnext)
      Down(up) == IF mh = h.base \/ up.dead # "no" THEN up ELSE __malloc_trymerge(up, M_PREV(h, mh), mh)
  IN  IF x = NULL THEN h
      ELSE IF x < h.base \/ x >= h.top THEN Errx(h, "out of range")
      ELSE IF ~M_OK(h, mh) THEN Errx(h, "corrupt header")
      ELSE IF ~InUse(h, mh) THEN Errx(h, "already free")
      ELSE Down(Up(Wiped, M_NEXT(h, mh)))

----------------------------------------------------------------------------
(* malloctest                                                              *)

\* A test is a sequence of calls; it ends with the heap it leaves and what it
\* prints.  bias tells the patterns of two blocks apart.
Pattern(bias, i) == Val(<<bias, i>>)
markblock(h, p, size, bias) ==
  [h EXCEPT !.mem = [a \in DOMAIN @ |-> IF a \in p..(p + size - 1) THEN Pattern(bias, a - p) ELSE @[a]]]
checkblock(h, p, size, bias) == \A i \in 0..(size - 1) : h.mem[p + i] = Pattern(bias, i)

Ends(h, res) == [h |-> h, res |-> IF h.dead # "no" THEN "died" ELSE res]

test1(h) ==
  LET Check(marked, p) ==
        IF ~checkblock(marked, p, BIGSIZE, 0) THEN Ends(marked, "data corrupt")
        ELSE Ends(free(marked, p), "passed")
      Mark(x) == IF x.p = NULL THEN Ends(x.h, "malloc failed") ELSE Check(markblock(x.h, x.p, BIGSIZE, 0), x.p)
  IN  Mark(malloc(h, BIGSIZE))

\* The first of size, size/2, size/4, ... that can be allocated.
RECURSIVE Largest(_, _)
Largest(h, size) == IF malloc(h, size).p # NULL THEN size ELSE Largest(h, size \div 2)

test2(h) ==
  LET Again(again) ==
        IF again.p = NULL THEN Ends(again.h, "free didn't return the memory")
        ELSE Ends(free(again.h, again.p), "passed")
      Check(marked, p, size) ==
        IF ~checkblock(marked, p, size, 0) THEN Ends(marked, "data corrupt")
        ELSE Again(malloc(free(marked, p), size))
      Mark(x, size) == Check(markblock(x.h, x.p, size, 0), x.p, size)
      Sized(size) == Mark(malloc(h, size), size)
  IN  Sized(Largest(h, HUGESIZE))

\* All the small blocks there are, the first word of each being the link.
RECURSIVE Exhaust(_, _)
Exhaust(h, list) ==
  LET Link(x) ==
        IF x.p = NULL THEN [h |-> x.h, list |-> list]
        ELSE Exhaust(markblock(x.h, x.p + 1, SMALLSIZE - 1, x.p), <<x.p>> \o list)
  IN  Link(malloc(h, SMALLSIZE))

RECURSIVE FreeList(_, _, _)
FreeList(h, list, ok) ==
  IF list = <<>> \/ h.dead # "no" THEN [h |-> h, ok |-> ok]
  ELSE LET p == Head(list)
       IN  FreeList(free(h, p), Tail(list), ok /\ checkblock(h, p + 1, SMALLSIZE - 1, p))

test3(h) ==
  LET Medium(x) == IF x.p = NULL THEN Ends(x.h, "nope") ELSE Ends(free(x.h, x.p), "passed")
      Freed(freed) ==
        IF ~freed.ok THEN Ends(freed.h, "data corruption")
        ELSE IF freed.h.dead # "no" THEN Ends(freed.h, "died")
        ELSE Medium(malloc(freed.h, MEDIUMSIZE))
      Full(full) ==
        IF \E size \in {SMALLSIZE, MEDIUMSIZE, BIGSIZE} : malloc(full.h, size).p # NULL
        THEN Ends(full.h, "malloc succeeded")
        ELSE Freed(FreeList(full.h, full.list, TRUE))
  IN  Full(Exhaust(h, <<>>))

test4(h) ==
  LET Third(x, z) ==
        IF z.p = NULL THEN Ends(z.h, "malloc failed")
        ELSE Ends(free(z.h, z.p), IF z.p = x.p THEN "passed" ELSE "failed")
      Second(x, y, overhead) ==
        IF y.p = NULL THEN Ends(y.h, "malloc failed")
        ELSE IF x.p = y.p THEN Ends(y.h, "x == y")
        ELSE IF x.p < y.p /\ x.p + SMALLSIZE > y.p THEN Ends(y.h, "y starts within x")
        ELSE IF y.p < x.p /\ y.p + MEDIUMSIZE > x.p THEN Ends(y.h, "x starts within y")
        ELSE IF y.p < x.p \/ overhead > ABSURD_OVERHEAD THEN Ends(y.h, "unsuitable")
        ELSE IF overhead > OVERHEAD THEN Ends(y.h, "overhead too large")
        ELSE Third(x, malloc(free(free(y.h, x.p), y.p), SMALLSIZE + MEDIUMSIZE + overhead))
      Both(x, y) == Second(x, y, y.p - (x.p + SMALLSIZE))
      First(x) == IF x.p = NULL THEN Ends(x.h, "malloc failed") ELSE Both(x, malloc(x.h, MEDIUMSIZE))
  IN  First(malloc(h, SMALLSIZE))

Single(tn) ==
  CASE tn = 1 -> test1(uheap) [] tn = 2 -> test2(uheap) [] tn = 3 -> test3(uheap) [] tn = 4 -> test4(uheap)

Record(tn, e) ==
  /\ uheap' = e.h
  /\ results' = Append(results, [test |-> tn, res |-> e.res])

Ready == loops = -1 /\ Len(results) < Tests /\ uheap.dead = "no"

dotest ==
  /\ Ready
  /\ \E tn \in 1..4 : Record(tn, Single(tn))
  /\ UNCHANGED <<ptrs, psizes, failed, loops>>

\* test5 to test7 differ in the seed of the random numbers.
test567 ==
  /\ Ready
  /\ loops' = LOOPS /\ failed' = "passed"
  /\ UNCHANGED <<uheap, ptrs, psizes, results>>

\* One iteration for the random numbers n and size.
Allocate(n, size) ==
  /\ loops > 0 /\ ptrs[n] = NULL
  /\ \E x \in {malloc(uheap, size)} :
       /\ uheap' = IF x.p = NULL THEN x.h ELSE markblock(x.h, x.p, size, n)
       /\ ptrs' = [ptrs EXCEPT ![n] = x.p]
       /\ psizes' = [psizes EXCEPT ![n] = size]
       /\ loops' = IF x.p = NULL THEN 0 ELSE loops - 1
       /\ failed' = IF x.p = NULL THEN "malloc failed" ELSE "passed"
  /\ UNCHANGED results

Release(n) ==
  /\ loops > 0 /\ ptrs[n] # NULL
  /\ IF checkblock(uheap, ptrs[n], psizes[n], n)
     THEN /\ uheap' = free(uheap, ptrs[n])
          /\ ptrs' = [ptrs EXCEPT ![n] = NULL]
          /\ psizes' = [psizes EXCEPT ![n] = 0]
          /\ loops' = loops - 1
          /\ UNCHANGED failed
     ELSE /\ loops' = 0 /\ failed' = "data corrupt"
          /\ UNCHANGED <<uheap, ptrs, psizes>>
  /\ UNCHANGED results

\* The blocks left at the end are freed one after the other.
RECURSIVE FreeAll(_, _)
FreeAll(h, n) == IF n > NPTRS THEN h ELSE FreeAll(free(h, ptrs[n]), n + 1)

EndStress ==
  /\ loops = 0
  /\ Record(5, Ends(FreeAll(uheap, 1), failed))
  /\ ptrs' = [n \in 1..NPTRS |-> NULL] /\ psizes' = [n \in 1..NPTRS |-> 0]
  /\ loops' = -1
  /\ UNCHANGED failed

MallocInit ==
  /\ \E limit \in Limits : uheap = NewHeap(limit)
  /\ ptrs = [n \in 1..NPTRS |-> NULL] /\ psizes = [n \in 1..NPTRS |-> 0]
  /\ failed = "passed" /\ loops = -1 /\ results = <<>>

Stress == uheap.dead = "no" /\ \E n \in 1..NPTRS : Release(n) \/ \E size \in Sizes : Allocate(n, size)

MallocNext == dotest \/ test567 \/ Stress \/ EndStress

MallocSpec == MallocInit /\ [][MallocNext]_mvars

----------------------------------------------------------------------------

Headers(h) == {a \in h.base..(h.top - 1) : h.mem[a].k = "prev"}

\* Between calls (malloc.c): following the distances from the bottom meets every
\* header there is and ends at the top, every header knows the one before it,
\* and no two free blocks are neighbours.
HeapTiled ==
  uheap.base # 0 =>
    /\ uheap.dead = "no"
    /\ \A mh \in Headers(uheap) :
         /\ M_OK(uheap, mh)
         /\ mh # uheap.base => M_NEXT(uheap, M_PREV(uheap, mh)) = mh
         /\ LET next == M_NEXT(uheap, mh)
            IN  \/ next = uheap.top
                \/ next \in Headers(uheap) /\ (InUse(uheap, mh) \/ InUse(uheap, next))

\* malloctest (malloctest.c) reports a failure of malloc or free only after the
\* kernel has refused memory to a test that does not provoke it: tests 2 and 3
\* exhaust the memory, pass, and leave a heap on which the next test passes.
MalloctestPasses ==
  \A i \in 1..Len(results) :
    \/ results[i].res = "passed"
    \/ \E j \in 1..i : results[j].res = "malloc failed" /\ results[i].res # "died"

============================================================================
