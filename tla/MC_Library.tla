----------------------------- MODULE MC_Library -----------------------------
(***************************************************************************)
(* What programs are linked with, and tests that judge it or the kernel:   *)
(* arithmetic on long longs (module Quad), printf and its kin, sorting,    *)
(* moving and taking strings apart (module Libc), malloc with malloctest   *)
(* (module Malloc), sbrktest (module Sbrktest) and dirseek (module         *)
(* Fileprogs); and tac, a program that has its scratch files to keep in    *)
(* step (also there).  A behaviour takes one of them.                      *)
(*                                                                         *)
(* Arithmetic: every pair of long longs of 8 bits, ints having 4 and half  *)
(* words 2.  printf: every format of up to six characters, ints of 4 bits. *)
(* Sorting: every array of up to five values of 2 bits; moving: every      *)
(* source, destination and length in 8 bytes, words having 2.  malloc:     *)
(* heaps of two to six pages of 8 bytes, which the tests fill.  sbrktest   *)
(* and dirseek: a kernel that is right and one for each of the ways in     *)
(* which it can be wrong.  tac: every file of up to five bytes, read in    *)
(* pieces of at most two; and, in a run of its own, two files.             *)
(*                                                                         *)
(* All of them end, so deadlock is not checked.                            *)
(***************************************************************************)
EXTENDS Quad, Libc, Malloc, Sbrktest, Fileprogs

VARIABLE routine

quadvars == <<lla, llb>>
mc_vars == <<quadvars, pfvars, lvars, mvars, bvars, skvars, tacvars, routine>>

MCInit ==
  /\ routine \in {"quad", "printf", "libc", "malloc", "sbrk", "dirseek", "tac"}
  /\ PrintfInit /\ (routine # "printf" => snp = vsnprintf(0))
  /\ MallocInit /\ (routine # "malloc" => uheap = NewHeap(16))
  /\ SbrkInit /\ (routine # "sbrk" => kfault = "none")
  /\ seek_setup /\ (routine # "dirseek" => skfault = "none" /\ slots = CHOOSE o \in Orders : TRUE)
  /\ TacInit /\ (routine # "tac" => tacargs = <<<<>>>>)
  /\ IF routine = "quad" THEN QuadInit ELSE lla = 0 /\ llb = 0
  /\ IF routine = "libc" THEN LibcInit ELSE LibcStart([op |-> "move", dst |-> 0, src |-> 0, len |-> 0, s |-> <<>>])

MCNext ==
  /\ UNCHANGED routine
  /\ \/ routine = "quad" /\ QuadNext /\ UNCHANGED <<pfvars, lvars, mvars, bvars, skvars, tacvars>>
     \/ routine = "printf" /\ PrintfNext /\ UNCHANGED <<quadvars, lvars, mvars, bvars, skvars, tacvars>>
     \/ routine = "libc" /\ LibcNext /\ UNCHANGED <<quadvars, pfvars, mvars, bvars, skvars, tacvars>>
     \/ routine = "malloc" /\ MallocNext /\ UNCHANGED <<quadvars, pfvars, lvars, bvars, skvars, tacvars>>
     \/ routine = "sbrk" /\ SbrkNext /\ UNCHANGED <<quadvars, pfvars, lvars, mvars, skvars, tacvars>>
     \/ routine = "dirseek" /\ DirseekNext /\ UNCHANGED <<quadvars, pfvars, lvars, mvars, bvars, tacvars>>
     \/ routine = "tac" /\ TacNext /\ UNCHANGED <<quadvars, pfvars, lvars, mvars, bvars, skvars>>

MCSpec == MCInit /\ [][MCNext]_mc_vars
MCTacSpec == routine = "tac" /\ MCSpec

MCMade == <<"ogg", "qu">>
MCInputs == {<<f>> : f \in BoundedSeq({"a", "b", "nl"}, 5)}
MCTwoInputs == {<<f, g>> : f \in BoundedSeq({"a", "nl"}, 2), g \in BoundedSeq({"b", "nl"}, 2)}

----------------------------------------------------------------------------

(***************************************************************************)
(* The C library computes what its functions are for: long longs of two    *)
(* words behave as integers, numbers that are printed read back and fit    *)
(* their buffers, qsort sorts, memmove moves overlapping blocks, strtok_r  *)
(* loses no word.                                                          *)
(***************************************************************************)
LibraryIsRight ==
  CASE routine = "quad" -> WordsAgree /\ ProductsAndQuotientsAgree
    [] routine = "printf" -> NumbersReadBack /\ BuffersSuffice
    [] routine = "libc" -> SortsAreRight /\ BlocksAndWordsKept
    [] OTHER -> TRUE

(***************************************************************************)
(* malloc: the heap is blocks without gap or overlap, no two free ones     *)
(* next to each other, whatever the order of malloc and free and wherever  *)
(* sbrk fails; and malloctest, run on it, finds nothing wrong.             *)
(***************************************************************************)
HeapKept == routine = "malloc" => HeapTiled /\ MalloctestPasses

=============================================================================
