---------------------------- MODULE LinkedLists ----------------------------
(***************************************************************************)
(* The linked lists of thread/queues.c and utility/fsm.c: nodes from       *)
(* malloc, each with a pointer to the next one, the last one's NULL.  A    *)
(* heap is a function from the addresses allocated to nodes.               *)
(***************************************************************************)
EXTENDS Integers, FiniteSets, SequencesExt

CONSTANTS Nodes,          \* addresses malloc may return for a node
          NULL

ASSUME NodesAssumption == NULL \notin Nodes /\ IsFiniteSet(Nodes)

Ptr == Nodes \cup {NULL}

\* The nodes from the first pointer on, up to NULL or to a pointer into
\* nowhere.  A cycle would show as a list longer than the heap.
ChainOf(h, first) ==
  LET from[left \in 0 .. Cardinality(Nodes) + 1] ==
        [n \in Ptr |-> IF n \notin DOMAIN h \/ left = 0 THEN <<>>
                       ELSE <<n>> \o from[left - 1][h[n].next]]
  IN  from[Cardinality(Nodes) + 1][first]
=============================================================================
