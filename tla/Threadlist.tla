----------------------------- MODULE Threadlist ----------------------------
(***************************************************************************)
(* Thread lists (thread/threadlist.c), which hold the run queues, the wait *)
(* channels and the zombies: doubly linked, with a node at either end that *)
(* belongs to no thread.  A thread has one node, so is on one list.        *)
(***************************************************************************)
EXTENDS Integers, Sequences

CONSTANTS Lists, ListThreads, NULLNODE

ASSUME NullIsNoNode == \A kind \in {"head", "tail", "node"}, x \in Lists \cup ListThreads : NULLNODE # <<kind, x>>

VARIABLES tln_next, tln_prev,   \* of every node
          tl_count,             \* of every list
          contents              \* what should be on every list, in order

tlvars == <<tln_next, tln_prev, tl_count, contents>>

Head_(tl) == <<"head", tl>>
Tail_(tl) == <<"tail", tl>>
NodeOf(t) == <<"node", t>>
Nodes == {Head_(tl) : tl \in Lists} \cup {Tail_(tl) : tl \in Lists} \cup {NodeOf(t) : t \in ListThreads}
OnNone(t) == \A tl \in Lists : \A i \in 1..Len(contents[tl]) : contents[tl][i] # t

threadlist_init ==
  /\ tln_next = [n \in Nodes |-> IF n[1] = "head" THEN Tail_(n[2]) ELSE NULLNODE]
  /\ tln_prev = [n \in Nodes |-> IF n[1] = "tail" THEN Head_(n[2]) ELSE NULLNODE]
  /\ tl_count = [tl \in Lists |-> 0]

threadlist_insertafternode(onlist, t) ==
  LET addee == NodeOf(t)
  IN  /\ tln_prev' = [tln_prev EXCEPT ![addee] = onlist, ![tln_next[onlist]] = addee]
      /\ tln_next' = [tln_next EXCEPT ![addee] = tln_next[onlist], ![onlist] = addee]

threadlist_insertbeforenode(t, onlist) ==
  LET addee == NodeOf(t)
  IN  /\ tln_prev' = [tln_prev EXCEPT ![addee] = tln_prev[onlist], ![onlist] = addee]
      /\ tln_next' = [tln_next EXCEPT ![addee] = onlist, ![tln_prev[onlist]] = addee]

\* Mutant: the neighbour after the node keeps pointing at it.
threadlist_removenode_half(tln) ==
  /\ tln_next' = [tln_next EXCEPT ![tln_prev[tln]] = tln_next[tln], ![tln] = NULLNODE]
  /\ tln_prev' = [tln_prev EXCEPT ![tln] = NULLNODE]
threadlist_removenode(tln) ==
  /\ tln_next' = [tln_next EXCEPT ![tln_prev[tln]] = tln_next[tln], ![tln] = NULLNODE]
  /\ tln_prev' = [tln_prev EXCEPT ![tln_next[tln]] = tln_prev[tln], ![tln] = NULLNODE]

More(tl) == tl_count' = [tl_count EXCEPT ![tl] = @ + 1]
Fewer(tl) == tl_count' = [tl_count EXCEPT ![tl] = @ - 1]
\* With t after the p-th, and without the p-th.
With(seq, p, t) == SubSeq(seq, 1, p) \o <<t>> \o SubSeq(seq, p + 1, Len(seq))
Without(seq, p) == SubSeq(seq, 1, p - 1) \o SubSeq(seq, p + 1, Len(seq))
Holds(tl, seq) == contents' = [contents EXCEPT ![tl] = seq]

threadlist_addhead(tl, t) ==
  /\ OnNone(t) /\ Holds(tl, With(contents[tl], 0, t))
  /\ threadlist_insertafternode(Head_(tl), t) /\ More(tl)

threadlist_addtail(tl, t) ==
  /\ OnNone(t) /\ Holds(tl, With(contents[tl], Len(contents[tl]), t))
  /\ threadlist_insertbeforenode(t, Tail_(tl)) /\ More(tl)

\* An empty list returns NULL and is left alone.
threadlist_remhead(tl) ==
  LET tln == tln_next[Head_(tl)]
  IN  /\ tln_next[tln] # NULLNODE
      /\ threadlist_removenode(tln) /\ Fewer(tl)
      /\ Holds(tl, Without(contents[tl], 1))

threadlist_remtail(tl) ==
  LET tln == tln_prev[Tail_(tl)]
  IN  /\ tln_prev[tln] # NULLNODE
      /\ threadlist_removenode(tln) /\ Fewer(tl)
      /\ Holds(tl, Without(contents[tl], Len(contents[tl])))

threadlist_insertafter(tl, i, addee) ==
  /\ OnNone(addee) /\ Holds(tl, With(contents[tl], i, addee))
  /\ threadlist_insertafternode(NodeOf(contents[tl][i]), addee) /\ More(tl)

threadlist_insertbefore(tl, i, addee) ==
  /\ OnNone(addee) /\ Holds(tl, With(contents[tl], i - 1, addee))
  /\ threadlist_insertbeforenode(addee, NodeOf(contents[tl][i])) /\ More(tl)

threadlist_remove(tl, i) ==
  /\ Holds(tl, Without(contents[tl], i))
  /\ threadlist_removenode(NodeOf(contents[tl][i])) /\ Fewer(tl)

TlInit == threadlist_init /\ contents = [tl \in Lists |-> <<>>]

TlNext ==
  \E tl \in Lists :
    \/ threadlist_remhead(tl) \/ threadlist_remtail(tl)
    \/ \E t \in ListThreads : threadlist_addhead(tl, t) \/ threadlist_addtail(tl, t)
    \/ \E i \in DOMAIN contents[tl] :
         \/ threadlist_remove(tl, i)
         \/ \E t \in ListThreads : threadlist_insertafter(tl, i, t) \/ threadlist_insertbefore(tl, i, t)

TlSpec == TlInit /\ [][TlNext]_tlvars

----------------------------------------------------------------------------

\* The i-th node of a list of threads: 0 is the head, and after the last thread
\* comes the tail.
NodeAt(tl, i) ==
  IF i = 0 THEN Head_(tl) ELSE IF i = Len(contents[tl]) + 1 THEN Tail_(tl) ELSE NodeOf(contents[tl][i])

\* THREADLIST_FORALL and THREADLIST_FORALL_REV meet exactly the threads that
\* were added and not removed, in order and in reverse, tl_count is their
\* number, and a thread on no list has no links, which the assertions of the
\* next insertion and of threadlistnode_cleanup need.
ListsHoldTheirThreads ==
  /\ \A tl \in Lists :
       /\ tl_count[tl] = Len(contents[tl])
       /\ tln_prev[Head_(tl)] = NULLNODE /\ tln_next[Tail_(tl)] = NULLNODE
       /\ \A i \in 0..Len(contents[tl]) :
            tln_next[NodeAt(tl, i)] = NodeAt(tl, i + 1) /\ tln_prev[NodeAt(tl, i + 1)] = NodeAt(tl, i)
  /\ \A t \in ListThreads : OnNone(t) => tln_next[NodeOf(t)] = NULLNODE /\ tln_prev[NodeOf(t)] = NULLNODE

============================================================================
