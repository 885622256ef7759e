-------------------------- MODULE RunToCompletion --------------------------
(***************************************************************************)
(* What the event engine of utility/fsm.c promises its user: events are    *)
(* handled in the order they were dispatched, each once and to its end     *)
(* before the next, by the first row of the table that fits.  HostFsm uses *)
(* the engine at this level, one action per event.                         *)
(***************************************************************************)
EXTENDS Integers, Sequences

CONSTANTS States, Types,
          Table,          \* the rows [from, event, to], in order
          NULL            \* the state before fsm_init

VARIABLES state, pending

vars == <<state, pending>>

\* The rows for an event in a state, and where the event leads.
Rows(s, e) == {i \in DOMAIN Table : Table[i].from = s /\ Table[i].event = e}

Successor(s, e) ==
  IF Rows(s, e) = {} THEN s
  ELSE Table[CHOOSE i \in Rows(s, e) : \A j \in Rows(s, e) : i <= j].to

Init == state = NULL /\ pending = <<>>

\* The entry handler of the initial state may dispatch the first event.
Start ==
  /\ state = NULL
  /\ state' \in States
  /\ pending' \in {<<>>} \cup {<<e>> : e \in Types}

Dispatch ==
  /\ state # NULL
  /\ \E e \in Types : pending' = Append(pending, e)
  /\ UNCHANGED state

Handle ==
  /\ pending # <<>>
  /\ state' = Successor(state, Head(pending))
  /\ pending' = Tail(pending)

Next == Start \/ Dispatch \/ Handle

Spec == Init /\ [][Next]_vars
=============================================================================
