---------------------------- MODULE MCFsmEngine ----------------------------
(***************************************************************************)
(* Two trees, one of three levels.  The rows cover a transition to itself, *)
(* to a descendant two levels down, to a parent, to a sibling, to the      *)
(* other tree, and two rows of one state and event.                        *)
(***************************************************************************)
EXTENDS FsmEngine

MCStates == {"a", "a1", "a11", "a2", "b"}

MCParent == [s \in MCStates |->
               CASE s \in {"a1", "a2"} -> "a"
                 [] s = "a11"          -> "a1"
                 [] OTHER              -> NULL]

Row(from, e, to) == [from |-> from, event |-> e, to |-> to]

MCTable ==
  <<Row("a", "e", "a11"), Row("a", "f", "a2"),
    Row("a11", "e", "a1"), Row("a11", "f", "b"),
    Row("a1", "e", "a2"), Row("a1", "f", "a1"), Row("a1", "e", "b"),
    Row("a2", "e", "a11"),
    Row("b", "e", "a")>>
=============================================================================
