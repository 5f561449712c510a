------------------------------ MODULE Kmalloc ------------------------------
(***************************************************************************)
(* The kernel heap (kmalloc.c): the subpage allocator with its free lists, *)
(* page references and the pages that hold them, and whole-page            *)
(* allocations.  What happens in one hold of kmalloc_spinlock is one step, *)
(* and so is each call of alloc_kpages and free_kpages, which the code     *)
(* makes without the lock.  A block is a page and an index; nfree is the   *)
(* length of the free list.                                                *)
(***************************************************************************)
EXTENDS Integers, Sequences, SequencesExt, FiniteSets, FiniteSetsExt

CONSTANTS KmThreads,
          NumPages,        \* the pages of memory that ram_stealmem has to give
          BlockTypes,      \* indices into sizes[]
          BlocksPerPage,   \* PAGE_SIZE / sizes[b] for each block type b
          NumRoots,        \* NUM_PAGEREFPAGES
          RefsPerPage,     \* NPAGEREFS_PER_PAGE
          NoRef

ASSUME KmallocAssumption ==
  /\ BlocksPerPage \in [BlockTypes -> Nat \ {0}]
  /\ NumPages \in Nat /\ NumRoots \in Nat /\ RefsPerPage \in Nat \ {0}

Pages == 1 .. NumPages
Roots == 1 .. NumRoots
Pagerefs == Roots \X (0 .. RefsPerPage - 1)

VARIABLES
  stolen,      \* how many pages ram_stealmem has given
  leaked,      \* history: the pages that were given to free_kpages
  root,        \* kheaproots: page (or None) and the set of pagerefs in use
  pr,          \* the pagerefs on the lists: page, block type, free list; or None
  sizebases,   \* per block type, the pagerefs of that type in list order
  km_pc, want, prpage, ref, va,   \* per thread: where it is, and its locals
  blocks, large,  \* what a thread has got from kmalloc: blocks and whole pages
  km_panic        \* whether freepageref's assertion has failed

km_locals == <<km_pc, want, prpage, ref, va>>
km_mem == <<stolen, leaked>>
km_vars == <<km_mem, root, pr, sizebases, km_locals, blocks, large, km_panic>>

KmInit ==
  /\ stolen = 0 /\ leaked = {}
  /\ root = [r \in Roots |-> [page |-> NoRef, inuse |-> {}]]
  /\ pr = [x \in Pagerefs |-> NoRef]
  /\ sizebases = [b \in BlockTypes |-> <<>>]
  /\ km_pc = [t \in KmThreads |-> "out"]
  /\ want = [t \in KmThreads |-> NoRef]
  /\ prpage = [t \in KmThreads |-> NoRef]
  /\ ref = [t \in KmThreads |-> NoRef]
  /\ va = [t \in KmThreads |-> NoRef]
  /\ blocks = [t \in KmThreads |-> {}]
  /\ large = [t \in KmThreads |-> {}]
  /\ km_panic = FALSE

KmAt(t, p) == ~km_panic /\ km_pc[t] = p
KmGoto(t, p) == km_pc' = [km_pc EXCEPT ![t] = p]
KmReturn(t) ==
  /\ KmGoto(t, "out")
  /\ want' = [want EXCEPT ![t] = NoRef]
  /\ prpage' = [prpage EXCEPT ![t] = NoRef]
  /\ ref' = [ref EXCEPT ![t] = NoRef]
  /\ va' = [va EXCEPT ![t] = NoRef]

\* dumbvm's page allocator, one page at a time: the next page of memory, as long
\* as there is one.
alloc_kpages(p) == stolen < NumPages /\ p = stolen + 1 /\ stolen' = p /\ UNCHANGED leaked
alloc_kpages_fails == stolen = NumPages /\ UNCHANGED km_mem

\* It does nothing with a page that is given back ("leak the memory").
free_kpages(p) == leaked' = leaked \cup {p} /\ UNCHANGED stolen

----------------------------------------------------------------------------
\* kmalloc

\* Take the first block of the free list of a pageref.
doalloc(t, x, ref_x) ==
  /\ pr' = [pr EXCEPT ![x] = [ref_x EXCEPT !.freelist = Tail(@)]]
  /\ blocks' = [blocks EXCEPT ![t] = @ \cup {<<ref_x.page, Head(ref_x.freelist)>>}]

\* The positions on the list of type b that have a free block.
WithFree(b) == {i \in DOMAIN sizebases[b] : pr[sizebases[b][i]].freelist # <<>>}

\* A page of the right size has a free block.
kmalloc_hit(t) ==
  /\ KmAt(t, "out")
  /\ \E b \in BlockTypes :
       /\ WithFree(b) # {}
       /\ LET x == sizebases[b][Min(WithFree(b))] IN doalloc(t, x, pr[x])
  /\ UNCHANGED <<km_mem, root, sizebases, km_locals, large, km_panic>>

\* No page has: the lock is dropped to get a page ...
kmalloc_miss(t) ==
  /\ KmAt(t, "out")
  /\ \E b \in BlockTypes : WithFree(b) = {} /\ want' = [want EXCEPT ![t] = b]
  /\ KmGoto(t, "getpage")
  /\ UNCHANGED <<km_mem, root, pr, sizebases, prpage, ref, va, blocks, large, km_panic>>

getpage(t) ==
  /\ KmAt(t, "getpage")
  /\ \/ \E p \in Pages : /\ alloc_kpages(p)
                         /\ prpage' = [prpage EXCEPT ![t] = p]
                         /\ KmGoto(t, "getref") /\ UNCHANGED <<want, ref, va>>
     \/ alloc_kpages_fails /\ KmReturn(t)
  /\ UNCHANGED <<root, pr, sizebases, blocks, large, km_panic>>

\* The free list of a fresh page runs from its last block to its first.
FreshFreelist(b) == [i \in 1 .. BlocksPerPage[b] |-> BlocksPerPage[b] - i]

\* Mutant: the last block of the page stays on the free list.
install_keeps_block(t, x) ==
  LET new == [page |-> prpage[t], type |-> want[t], freelist |-> FreshFreelist(want[t])]
  IN  /\ sizebases' = [sizebases EXCEPT ![want[t]] = <<x>> \o @]
      /\ pr' = [pr EXCEPT ![x] = new]
      /\ blocks' = [blocks EXCEPT ![t] = @ \cup {<<prpage[t], Head(new.freelist)>>}]
      /\ KmReturn(t)

\* ... which becomes the first of the lists, and gives the block.
install(t, x) ==
  LET new == [page |-> prpage[t], type |-> want[t], freelist |-> FreshFreelist(want[t])]
  IN  /\ sizebases' = [sizebases EXCEPT ![want[t]] = <<x>> \o @]
      /\ doalloc(t, x, new)
      /\ KmReturn(t)

RootsWithRoom == {r \in Roots : Cardinality(root[r].inuse) < RefsPerPage}

\* Mutant: the pageref is found but not marked as in use.
allocpageref_unmarked(t) ==
  /\ KmAt(t, "getref") /\ RootsWithRoom # {}
  /\ LET r == Min(RootsWithRoom)
         x == <<r, Min((0 .. RefsPerPage - 1) \ root[r].inuse)>>
     IN  /\ UNCHANGED root
         /\ IF root[r].page # NoRef
            THEN install(t, x)
            ELSE /\ ref' = [ref EXCEPT ![t] = x]
                 /\ KmGoto(t, "refpage")
                 /\ UNCHANGED <<pr, sizebases, want, prpage, va, blocks>>
  /\ UNCHANGED <<km_mem, large, km_panic>>

\* allocpageref: the first free pageref of the first root that is not full is
\* marked; if its page does not exist yet the lock is dropped to get it.
allocpageref(t) ==
  /\ KmAt(t, "getref") /\ RootsWithRoom # {}
  /\ LET r == Min(RootsWithRoom)
         x == <<r, Min((0 .. RefsPerPage - 1) \ root[r].inuse)>>
     IN  /\ root' = [root EXCEPT ![r].inuse = @ \cup {x[2]}]
         /\ IF root[r].page # NoRef
            THEN install(t, x)
            ELSE /\ ref' = [ref EXCEPT ![t] = x]
                 /\ KmGoto(t, "refpage")
                 /\ UNCHANGED <<pr, sizebases, want, prpage, va, blocks>>
  /\ UNCHANGED <<km_mem, large, km_panic>>

\* Every pageref is in use.
allocpageref_fails(t) ==
  /\ KmAt(t, "getref") /\ RootsWithRoom = {}
  /\ KmGoto(t, "undo")
  /\ UNCHANGED <<km_mem, root, pr, sizebases, want, prpage, ref, va, blocks, large, km_panic>>

\* allocpagerefpage: get a page without the lock ...
refpage_alloc(t) ==
  /\ KmAt(t, "refpage")
  /\ \/ \E p \in Pages : alloc_kpages(p) /\ va' = [va EXCEPT ![t] = p]
     \/ alloc_kpages_fails /\ UNCHANGED va
  /\ KmGoto(t, "refpage_got")
  /\ UNCHANGED <<root, pr, sizebases, want, prpage, ref, blocks, large, km_panic>>

\* Mutant: the page is used even if somebody else has been faster.
refpage_got_always(t) ==
  LET r == ref[t][1]
  IN  /\ KmAt(t, "refpage_got") /\ va[t] # NoRef
      /\ root' = [root EXCEPT ![r].page = va[t]]
      /\ install(t, ref[t])
      /\ UNCHANGED <<km_mem, large, km_panic>>

\* ... use it if nobody else has been faster ...
refpage_got(t) ==
  LET r == ref[t][1]
  IN  /\ KmAt(t, "refpage_got") /\ va[t] # NoRef /\ root[r].page = NoRef
      /\ root' = [root EXCEPT ![r].page = va[t]]
      /\ install(t, ref[t])
      /\ UNCHANGED <<km_mem, large, km_panic>>

\* ... or else give it back, without the lock ...
refpage_unwanted(t) ==
  /\ KmAt(t, "refpage_got") /\ va[t] # NoRef /\ root[ref[t][1]].page # NoRef
  /\ KmGoto(t, "refpage_free")
  /\ UNCHANGED <<km_mem, root, pr, sizebases, want, prpage, ref, va, blocks, large, km_panic>>

refpage_free(t) ==
  /\ KmAt(t, "refpage_free")
  /\ free_kpages(va[t])
  /\ va' = [va EXCEPT ![t] = NoRef]
  /\ KmGoto(t, "refpage_got")
  /\ UNCHANGED <<root, pr, sizebases, want, prpage, ref, blocks, large, km_panic>>

\* ... and if there was no page, or it has been given back, go on with the page
\* that somebody else has got, or fail (the pageref stays marked).
refpage_none(t) ==
  /\ KmAt(t, "refpage_got") /\ va[t] = NoRef
  /\ IF root[ref[t][1]].page # NoRef
     THEN install(t, ref[t])
     ELSE /\ KmGoto(t, "undo")
          /\ UNCHANGED <<pr, sizebases, want, prpage, ref, va, blocks>>
  /\ UNCHANGED <<km_mem, root, large, km_panic>>

\* No pageref: the page is given back and kmalloc returns NULL.
undo(t) ==
  /\ KmAt(t, "undo")
  /\ free_kpages(prpage[t])
  /\ KmReturn(t)
  /\ UNCHANGED <<root, pr, sizebases, blocks, large, km_panic>>

\* kmalloc of a page or more.
kmalloc_large(t) ==
  /\ KmAt(t, "out")
  /\ \E p \in Pages : alloc_kpages(p) /\ large' = [large EXCEPT ![t] = @ \cup {p}]
  /\ UNCHANGED <<root, pr, sizebases, km_locals, blocks, km_panic>>

----------------------------------------------------------------------------
\* kfree

\* The pageref on the list of all pagerefs (allbase) that manages page p.
OnPage(p) == {x \in Pagerefs : pr[x] # NoRef /\ pr[x].page = p}

\* freepageref walks the roots in order and asserts that the ones it passes
\* that have no page have no pagerefs in use.
freepageref(x) ==
  /\ km_panic' = \E r \in 1 .. x[1] - 1 : root[r].page = NoRef /\ root[r].inuse # {}
  /\ root' = [root EXCEPT ![x[1]].inuse = @ \ {x[2]}]

remove_lists(x) ==
  /\ pr' = [pr EXCEPT ![x] = NoRef]
  /\ sizebases' = [sizebases EXCEPT ![pr[x].type] = SelectSeq(@, LAMBDA y : y # x)]

\* The block becomes the first of the free list of its page; a page that is all
\* free leaves the lists, to be given back without the lock.
subpage_kfree(t) ==
  /\ KmAt(t, "out")
  /\ \E blk \in blocks[t], x \in Pagerefs :
       /\ x \in OnPage(blk[1])
       /\ blocks' = [blocks EXCEPT ![t] = @ \ {blk}]
       /\ IF Len(pr[x].freelist) + 1 = BlocksPerPage[pr[x].type]
          THEN /\ remove_lists(x)
               /\ freepageref(x)
               /\ prpage' = [prpage EXCEPT ![t] = blk[1]]
               /\ KmGoto(t, "freepage")
          ELSE /\ pr' = [pr EXCEPT ![x].freelist = <<blk[2]>> \o @]
               /\ UNCHANGED <<root, sizebases, prpage, km_pc, km_panic>>
  /\ UNCHANGED <<km_mem, want, ref, va, large>>

freepage(t) ==
  /\ KmAt(t, "freepage")
  /\ free_kpages(prpage[t])
  /\ KmReturn(t)
  /\ UNCHANGED <<root, pr, sizebases, blocks, large, km_panic>>

\* A pointer to a page that is not on the lists is a whole-page allocation.
kfree_large(t) ==
  /\ KmAt(t, "out")
  /\ \E p \in large[t] : /\ OnPage(p) = {}
                         /\ free_kpages(p)
                         /\ large' = [large EXCEPT ![t] = @ \ {p}]
  /\ UNCHANGED <<root, pr, sizebases, km_locals, blocks, km_panic>>

km_halted == km_panic /\ UNCHANGED km_vars

KmNext ==
  \/ \E t \in KmThreads :
       \/ kmalloc_hit(t) \/ kmalloc_miss(t) \/ getpage(t)
       \/ allocpageref(t) \/ allocpageref_fails(t)
       \/ refpage_alloc(t) \/ refpage_got(t) \/ refpage_unwanted(t)
       \/ refpage_free(t) \/ refpage_none(t) \/ undo(t)
       \/ kmalloc_large(t) \/ subpage_kfree(t) \/ freepage(t) \/ kfree_large(t)
  \/ km_halted

KmSpec == KmInit /\ [][KmNext]_km_vars

----------------------------------------------------------------------------

Live == {x \in Pagerefs : pr[x] # NoRef}

\* Every block of a page of the subpage allocator is either on its free list,
\* once, or with exactly one caller of kmalloc, whatever allocations and frees
\* went on while the lock was dropped; a block in use is on a page that the
\* allocator still manages, so that kfree finds it.
EveryBlockOnce ==
  /\ \A x \in Live :
       LET idx == 0 .. BlocksPerPage[pr[x].type] - 1
           used(t) == {i \in idx : <<pr[x].page, i>> \in blocks[t]}
       IN  /\ IsInjective(pr[x].freelist)
           /\ ToSet(pr[x].freelist) = idx \ UNION {used(t) : t \in KmThreads}
           /\ \A t, u \in KmThreads : t # u => used(t) \cap used(u) = {}
  /\ \A t \in KmThreads : \A blk \in blocks[t] : Cardinality(OnPage(blk[1])) = 1

\* Every page has exactly one use: not given yet, managed, holding pagerefs,
\* allocated whole, on its way, or returned to free_kpages, which leaks it
\* (dumbvm.c).  kmalloc.c itself loses no page, also not to a race for a page of
\* pagerefs; it uses none twice, and none that it has returned.
EveryPageOnce ==
  \A p \in Pages :
    (IF p > stolen THEN 1 ELSE 0)
      + (IF p \in leaked THEN 1 ELSE 0)
      + Cardinality(OnPage(p))
      + Cardinality({r \in Roots : root[r].page = p})
      + Cardinality({t \in KmThreads : p \in large[t]})
      + Cardinality({t \in KmThreads : prpage[t] = p})
      + Cardinality({t \in KmThreads : va[t] = p}) = 1

\* A page on the lists has a pageref that is marked as in use on a page that
\* exists, and is on the list of its size exactly once; no pageref is handed out
\* to two threads.
PagerefsConsistent ==
  /\ \A x \in Live :
       /\ x[2] \in root[x[1]].inuse /\ root[x[1]].page # NoRef
       /\ \A b \in BlockTypes :
            Cardinality({i \in DOMAIN sizebases[b] : sizebases[b][i] = x})
              = (IF b = pr[x].type THEN 1 ELSE 0)
  /\ \A t, u \in KmThreads : ref[t] # NoRef =>
       /\ ref[t] \notin Live
       /\ t # u => ref[t] # ref[u]
=============================================================================
