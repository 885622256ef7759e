----------------------------- MODULE FsmEngine -----------------------------
(***************************************************************************)
(* utility/fsm.c: events allocated, linked into a list under a mutex, and  *)
(* handled one by one by fsm_run, which leaves and enters the states of a  *)
(* hierarchy.  The thread of fsm_run is cut before the unlocked look at    *)
(* queue_head, before the mutex is taken, and at every call of a handler,  *)
(* so that other threads and the handlers themselves may dispatch there.   *)
(* What the handlers of this program do is in HostFsm; here a handler      *)
(* dispatches an event or none, and an action may clear fsm_running.       *)
(***************************************************************************)
EXTENDS LinkedLists

CONSTANTS States,
          Parent,         \* fsm_state_t.parent: state -> state or NULL
          Types,          \* event types
          Table           \* the rows [from, event, to], in order

StackSize == 10           \* stack[10] of fsm_enter_down_from

\* The parents form a forest no deeper than the stack.
ASSUME ForestAssumption ==
  /\ NULL \notin States
  /\ Parent \in [States -> States \cup {NULL}]
  /\ \E depth \in [States -> 1 .. StackSize] :
       \A s \in States :
         depth[s] = IF Parent[s] = NULL THEN 1 ELSE depth[Parent[s]] + 1

ASSUME TableAssumption ==
  Table \in Seq([from : States, event : Types, to : States])

VARIABLES fsm_running, current_state, queue_head, queue_tail,
          heap,           \* the events allocated: address -> [type, next]
          event,          \* the event fsm_run has in hand, or NULL
          row,            \* the row it matched, or 0
          cursor,         \* s in fsm_exit_up_to
          stack,          \* the states fsm_enter_down_from still has to enter
          pc,             \* where the thread of fsm_run is
          entered         \* ghost: entries less exits of each state

queue == <<queue_head, queue_tail, heap>>
vars  == <<fsm_running, current_state, queue, event, row, cursor, stack, pc, entered>>

\* A state and its ancestors, innermost first, short of the one given.
Path(from, to) ==
  LET up[s \in States \cup {NULL}] ==
        IF s \in {to, NULL} THEN <<>> ELSE <<s>> \o up[Parent[s]]
  IN  up[from]

AncestorsAndSelf(s) == ToSet(Path(s, NULL))

Init ==
  /\ fsm_running = FALSE
  /\ current_state = NULL
  /\ queue_head = NULL
  /\ queue_tail = NULL
  /\ heap = [n \in {} |-> NULL]
  /\ event = NULL
  /\ row = 0
  /\ cursor = NULL
  /\ stack = <<>>
  /\ pc = "raw"
  /\ entered = [s \in States |-> 0]

-----------------------------------------------------------------------------
(* Events: fsm_event_create, fsm_dispatch and fsm_queue_push. *)

\* Variation: the tail is not advanced.
fsm_queue_push_keeps_tail(n, type) ==
  LET new == [type |-> type, next |-> NULL]
  IN  IF queue_head = NULL
      THEN /\ queue_head' = n
           /\ queue_tail' = n
           /\ heap' = [m \in DOMAIN heap \cup {n} |-> IF m = n THEN new ELSE heap[m]]
      ELSE /\ heap' = [m \in DOMAIN heap \cup {n} |->
                         IF m = n THEN new
                         ELSE IF m = queue_tail THEN [heap[m] EXCEPT !.next = n]
                         ELSE heap[m]]
           /\ UNCHANGED <<queue_head, queue_tail>>

\* Variation: the event goes to the front of the list.
fsm_queue_push_front(n, type) ==
  LET new == [type |-> type, next |-> queue_head]
  IN  /\ queue_head' = n
      /\ queue_tail' = IF queue_head = NULL THEN n ELSE queue_tail
      /\ heap' = [m \in DOMAIN heap \cup {n} |-> IF m = n THEN new ELSE heap[m]]

\* The critical section is one step: fsm_queue_pop, the only reader without
\* the mutex, looks at queue_head and at nothing else.
fsm_queue_push(n, type) ==
  LET new == [type |-> type, next |-> NULL]
  IN  /\ queue_head' = IF queue_head = NULL THEN n ELSE queue_head
      /\ queue_tail' = n
      /\ heap' = [m \in DOMAIN heap \cup {n} |->
                    IF m = n THEN new
                    ELSE IF queue_head # NULL /\ m = queue_tail
                         THEN [heap[m] EXCEPT !.next = n]
                    ELSE heap[m]]

\* An event that cannot be allocated is NULL, and fsm_dispatch ignores NULL.
fsm_dispatch(type) ==
  \E n \in Nodes \ DOMAIN heap : fsm_queue_push(n, type)

\* A handler that dispatches an event or does not.
Handler == UNCHANGED queue \/ \E e \in Types : fsm_dispatch(e)

\* A dispatch by another thread.
Dispatch ==
  /\ pc # "raw"
  /\ \E e \in Types : fsm_dispatch(e)
  /\ UNCHANGED <<fsm_running, current_state, event, row, cursor, stack, pc, entered>>

-----------------------------------------------------------------------------
\* fsm_init.  Only the initial state's own entry handler runs, so it is a
\* state without a parent, as ST_INIT_STATE is.
fsm_init ==
  /\ pc = "raw"
  /\ \E s \in States :
       /\ Parent[s] = NULL
       /\ current_state' = s
       /\ entered' = [entered EXCEPT ![s] = @ + 1]
  /\ fsm_running' = TRUE
  /\ Handler
  /\ pc' = "main"
  /\ UNCHANGED <<event, row, cursor, stack>>

\* The main loop calls fsm_run as long as the FSM is running.
fsm_run ==
  /\ pc = "main"
  /\ fsm_running
  /\ pc' = "pop"
  /\ UNCHANGED <<fsm_running, current_state, queue, event, row, cursor, stack, entered>>

\* fsm_queue_pop looks at queue_head before it takes the mutex.
PopLooks ==
  /\ pc = "pop"
  /\ pc' = IF queue_head = NULL THEN "main" ELSE "take"
  /\ UNCHANGED <<fsm_running, current_state, queue, event, row, cursor, stack, entered>>

\* Variation: the tail is left at the event that is gone.
TailAfterPop_kept == queue_tail

\* queue_tail once the head is out.
TailAfterPop == IF heap[queue_head].next = NULL THEN NULL ELSE queue_tail

PopTakes ==
  /\ pc = "take"
  /\ event' = queue_head
  /\ queue_head' = heap[queue_head].next
  /\ queue_tail' = TailAfterPop
  /\ heap' = [heap EXCEPT ![queue_head].next = NULL]
  /\ pc' = "match"
  /\ UNCHANGED <<fsm_running, current_state, row, cursor, stack, entered>>

-----------------------------------------------------------------------------
(* One event. *)

Fits(i) == Table[i].from = current_state /\ Table[i].event = heap[event].type

\* Variation: the rows are searched from the last.
FirstRow_last == CHOOSE i \in DOMAIN Table :
                   Fits(i) /\ \A j \in DOMAIN Table : Fits(j) => i >= j

\* The linear search stops at the first row that fits.
FirstRow == CHOOSE i \in DOMAIN Table :
              Fits(i) /\ \A j \in DOMAIN Table : Fits(j) => i <= j

\* Variation: every transition is taken to be between siblings.
ExitTarget_siblings(target) == Parent[target]

\* From the target upward to the current state.  A target that is not the
\* current state or inside it leads beyond the root: NULL.
ExitTarget(target) ==
  IF current_state \in AncestorsAndSelf(target) THEN current_state ELSE NULL

\* The row fits.
Match ==
  /\ pc = "match"
  /\ \E i \in DOMAIN Table : Fits(i)
  /\ row' = FirstRow
  /\ cursor' = current_state
  /\ pc' = "exit"
  /\ UNCHANGED <<fsm_running, current_state, queue, event, stack, entered>>

\* No row does: the event is freed and nothing else happens.
NoMatch ==
  /\ pc = "match"
  /\ ~ \E i \in DOMAIN Table : Fits(i)
  /\ heap' = [n \in DOMAIN heap \ {event} |-> heap[n]]
  /\ event' = NULL
  /\ pc' = "pop"
  /\ UNCHANGED <<fsm_running, current_state, queue_head, queue_tail, row, cursor, stack, entered>>

\* fsm_exit_up_to, one handler.
Exit ==
  /\ pc = "exit"
  /\ cursor \notin {NULL, ExitTarget(Table[row].to)}
  /\ entered' = [entered EXCEPT ![cursor] = @ - 1]
  /\ Handler
  /\ cursor' = Parent[cursor]
  /\ UNCHANGED <<fsm_running, current_state, event, row, stack, pc>>

ExitEnd ==
  /\ pc = "exit"
  /\ cursor \in {NULL, ExitTarget(Table[row].to)}
  /\ pc' = "action"
  /\ UNCHANGED <<fsm_running, current_state, queue, event, row, cursor, stack, entered>>

\* The action of the row, then the path down to the target.
Action ==
  /\ pc = "action"
  /\ Handler
  /\ fsm_running' \in {fsm_running, FALSE}
  /\ stack' = Path(Table[row].to, ExitTarget(Table[row].to))
  /\ pc' = "enter"
  /\ UNCHANGED <<current_state, event, row, cursor, entered>>

\* Variation: the states are entered from the target upward.
Entering_inner_first == stack[1]

\* The end of the stack is the outermost state.
Entering == Last(stack)

Enter ==
  /\ pc = "enter"
  /\ stack # <<>>
  /\ entered' = [entered EXCEPT ![Entering] = @ + 1]
  /\ Handler
  /\ stack' = Front(stack)
  /\ UNCHANGED <<fsm_running, current_state, event, row, cursor, pc>>

\* Variation: the event is not freed.
Complete_leaks ==
  /\ pc = "enter"
  /\ stack = <<>>
  /\ current_state' = Table[row].to
  /\ event' = NULL
  /\ row' = 0
  /\ pc' = "pop"
  /\ UNCHANGED <<fsm_running, queue, cursor, stack, entered>>

\* current_state is assigned last, and the event freed.
Complete ==
  /\ pc = "enter"
  /\ stack = <<>>
  /\ current_state' = Table[row].to
  /\ heap' = [n \in DOMAIN heap \ {event} |-> heap[n]]
  /\ event' = NULL
  /\ row' = 0
  /\ pc' = "pop"
  /\ UNCHANGED <<fsm_running, queue_head, queue_tail, cursor, stack, entered>>

-----------------------------------------------------------------------------
Run ==
  \/ fsm_run \/ PopLooks \/ PopTakes \/ Match \/ NoMatch
  \/ Exit \/ ExitEnd \/ Action \/ Enter \/ Complete

Next == fsm_init \/ Dispatch \/ Run

\* The thread of fsm_run goes on; handlers return.
Spec == Init /\ [][Next]_vars /\ WF_vars(Run)

-----------------------------------------------------------------------------
\* The events from queue_head on.
Waiting == ChainOf(heap, queue_head)

\* Every event allocated is in the list, once, or in the hands of fsm_run:
\* none is lost, freed twice or leaked, handlers that dispatch from inside a
\* transition included.
EventsAccounted ==
  /\ DOMAIN heap = ToSet(Waiting) \cup ({event} \ {NULL})
  /\ event \notin ToSet(Waiting)
  /\ queue_tail = IF Waiting = <<>> THEN NULL ELSE Last(Waiting)

\* A state is entered only inside its parent and left only once everything
\* inside it has been left, in the middle of a transition too.
ParentsEnteredFirst ==
  \A s \in States : entered[s] = 1 /\ Parent[s] # NULL => entered[Parent[s]] = 1

\* Between two events, exactly the current state and its ancestors have been
\* entered and not left, whatever the transitions before.
EnteredIsCurrent ==
  pc \in {"main", "pop", "take", "match"} =>
    {s \in States : entered[s] = 1} = AncestorsAndSelf(current_state)

\* What is pending: the event in hand, then the list.
Pending ==
  [i \in DOMAIN Waiting |-> heap[Waiting[i]].type]

Completion == INSTANCE RunToCompletion WITH
  state   <- current_state,
  pending <- (IF event = NULL THEN <<>> ELSE <<heap[event].type>>) \o Pending

\* Once initialised the engine handles events in order, each to its end.
ImplementsRunToCompletion == Completion!Spec

\* An event that is queued is handled, unless an action stops the FSM, even
\* when every handler dispatches another one.
EventsHandled ==
  \A n \in Nodes : n \in ToSet(Waiting) ~> n \notin ToSet(Waiting) \/ ~fsm_running
=============================================================================
