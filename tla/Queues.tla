------------------------------- MODULE Queues -------------------------------
(***************************************************************************)
(* thread/queues.c over thread/threads.c: a linked list of packets under a *)
(* mutex, with a condition variable for the threads in queue_pop.  Every   *)
(* call is cut where another thread could see its effect: before the mutex *)
(* is taken, at the first assignment to the list, at the release, and      *)
(* where queue_pop uses its node after the release.                        *)
(*                                                                         *)
(* The program itself has one pusher and one poller (Lifecycle).  The file *)
(* promises more, several producers and consumers and a blocking pop:      *)
(* QueueClients is about that.                                             *)
(***************************************************************************)
EXTENDS LinkedLists

CONSTANTS Threads,
          Packets         \* the void * that are queued

ASSUME QueueAssumption == NULL \notin Threads /\ IsFiniteSet(Threads)

VARIABLES head, tail, size,
          heap,           \* the nodes allocated: node -> [data, next]
          mutex,          \* its owner, or NULL
          waiting,        \* threads asleep on the condition variable
          life,           \* the queue is "raw", "live" or "destroyed"
          op,             \* where each thread is in a call of the queue
          taken           \* ghost: the packets each thread has got, in order

list      == <<head, tail, size, heap>>
queueVars == <<list, mutex, waiting, life, op, taken>>

\* queue_t is static: all zero before queue_init.
QueueInit ==
  /\ head = NULL
  /\ tail = NULL
  /\ size = 0
  /\ heap = [n \in {} |-> NULL]
  /\ mutex = NULL
  /\ waiting = {}
  /\ life = "raw"
  /\ op = [t \in Threads |-> [step |-> "idle", node |-> NULL]]
  /\ taken = [t \in Threads |-> <<>>]

Free(n) == [m \in DOMAIN heap \ {n} |-> heap[m]]

\* Thread t goes on to a step of its call, with a node in its registers.
At(t, step, node) == op' = [op EXCEPT ![t] = [step |-> step, node |-> node]]

Deliver(t, n) == taken' = [taken EXCEPT ![t] = Append(@, heap[n].data)]

\* A call begins: it touches nothing but the thread's own registers.
Begin(t, step) ==
  /\ op[t].step = "idle"
  /\ At(t, step, NULL)
  /\ UNCHANGED <<list, mutex, waiting, life, taken>>

\* mutex_lock.
Acquire(t, from, to) ==
  /\ op[t].step = from
  /\ mutex = NULL
  /\ mutex' = t
  /\ At(t, to, op[t].node)
  /\ UNCHANGED <<list, waiting, life, taken>>

queue_init ==
  /\ head' = NULL
  /\ tail' = NULL
  /\ size' = 0
  /\ life' = "live"
  /\ UNCHANGED <<heap, mutex, waiting, op, taken>>

-----------------------------------------------------------------------------
(* queue_push. *)

queue_push(t, msg) ==
  /\ op[t].step = "idle"
  /\ \E n \in Nodes \ DOMAIN heap :
       /\ heap' = [m \in DOMAIN heap \cup {n} |->
                     IF m = n THEN [data |-> msg, next |-> NULL] ELSE heap[m]]
       /\ At(t, "push_lock", n)
  /\ UNCHANGED <<head, tail, size, mutex, waiting, life, taken>>

\* Variation: the mutex is not taken.
PushLock_unlocked(t) ==
  /\ op[t].step = "push_lock"
  /\ At(t, "push_link", op[t].node)
  /\ UNCHANGED <<list, mutex, waiting, life, taken>>

PushLock(t) == Acquire(t, "push_lock", "push_link")

\* Variation: the else is missing.
PushLink_no_else(t) ==
  /\ op[t].step = "push_link"
  /\ heap' = IF tail # NULL
             THEN [heap EXCEPT ![tail].next = op[t].node] ELSE heap
  /\ head' = op[t].node
  /\ At(t, "push_end", op[t].node)
  /\ UNCHANGED <<tail, size, mutex, waiting, life, taken>>

PushLink(t) ==
  /\ op[t].step = "push_link"
  /\ IF tail # NULL
     THEN heap' = [heap EXCEPT ![tail].next = op[t].node] /\ UNCHANGED head
     ELSE head' = op[t].node /\ UNCHANGED heap
  /\ At(t, "push_end", op[t].node)
  /\ UNCHANGED <<tail, size, mutex, waiting, life, taken>>

\* Variation: only a push into the empty queue wakes a consumer.
cond_signal_when_empty ==
  IF waiting = {} \/ size > 0
  THEN UNCHANGED waiting
  ELSE \E w \in waiting : waiting' = waiting \ {w}

\* One of the threads asleep, if there is any, is woken.
cond_signal ==
  IF waiting = {}
  THEN UNCHANGED waiting
  ELSE \E w \in waiting : waiting' = waiting \ {w}

\* Variation: the mutex is not released.
PushEnd_keeps_mutex(t) ==
  /\ op[t].step = "push_end"
  /\ tail' = op[t].node
  /\ size' = size + 1
  /\ cond_signal
  /\ At(t, "idle", NULL)
  /\ UNCHANGED <<head, heap, mutex, life, taken>>

PushEnd(t) ==
  /\ op[t].step = "push_end"
  /\ tail' = op[t].node
  /\ size' = size + 1
  /\ cond_signal
  /\ mutex' = NULL
  /\ At(t, "idle", NULL)
  /\ UNCHANGED <<head, heap, life, taken>>

-----------------------------------------------------------------------------
(* queue_try_pop. *)

queue_try_pop(t) == Begin(t, "try_lock")

TryLock(t) == Acquire(t, "try_lock", "try_head")

\* The queue is empty: false.
TryNothing(t) ==
  /\ op[t].step = "try_head"
  /\ size = 0
  /\ mutex' = NULL
  /\ At(t, "idle", NULL)
  /\ UNCHANGED <<list, waiting, life, taken>>

\* head = head->next, the node in hand.
UnlinkHead(t, to) ==
  /\ head' = heap[head].next
  /\ At(t, to, head)
  /\ UNCHANGED <<tail, size, heap, mutex, waiting, life, taken>>

TryHead(t) ==
  /\ op[t].step = "try_head"
  /\ size > 0
  /\ UnlinkHead(t, "try_end")

\* Variation: the tail is left behind when the last node goes.
TailAfterPop_kept == tail

TailAfterPop == IF head = NULL THEN NULL ELSE tail

\* The packet goes to the caller and its node back to the heap before the
\* mutex is released.
TryEnd(t) ==
  /\ op[t].step = "try_end"
  /\ tail' = TailAfterPop
  /\ size' = size - 1
  /\ Deliver(t, op[t].node)
  /\ heap' = Free(op[t].node)
  /\ mutex' = NULL
  /\ At(t, "idle", NULL)
  /\ UNCHANGED <<head, waiting, life>>

-----------------------------------------------------------------------------
(* queue_pop. *)

queue_pop(t) == Begin(t, "pop_lock")

PopLock(t) == Acquire(t, "pop_lock", "pop_test")

\* cond_wait: asleep, and the mutex released, in one step.
PopSleep(t) ==
  /\ op[t].step = "pop_test"
  /\ size = 0
  /\ waiting' = waiting \cup {t}
  /\ mutex' = NULL
  /\ At(t, "pop_wait", NULL)
  /\ UNCHANGED <<list, life, taken>>

\* pthread_cond_wait may return without a signal.
SpuriousWakeup(t) ==
  /\ t \in waiting
  /\ waiting' = waiting \ {t}
  /\ UNCHANGED <<list, mutex, life, op, taken>>

\* Variation: if instead of while, the size is not looked at again.
PopWake_if(t) ==
  /\ t \notin waiting
  /\ Acquire(t, "pop_wait", "pop_take")

\* cond_wait returns with the mutex; the loop tests the size again.
PopWake(t) ==
  /\ t \notin waiting
  /\ Acquire(t, "pop_wait", "pop_test")

PopGoesOn(t) ==
  /\ op[t].step = "pop_test"
  /\ size > 0
  /\ At(t, "pop_take", NULL)
  /\ UNCHANGED <<list, mutex, waiting, life, taken>>

PopTake(t) ==
  /\ op[t].step = "pop_take"
  /\ UnlinkHead(t, "pop_end")

PopEnd(t) ==
  /\ op[t].step = "pop_end"
  /\ tail' = TailAfterPop
  /\ size' = size - 1
  /\ mutex' = NULL
  /\ At(t, "pop_free", op[t].node)
  /\ UNCHANGED <<head, heap, waiting, life, taken>>

\* Variation: the node is forgotten.
PopFree_leaks(t) ==
  /\ op[t].step = "pop_free"
  /\ Deliver(t, op[t].node)
  /\ At(t, "idle", NULL)
  /\ UNCHANGED <<list, mutex, waiting, life>>

\* The node is read and freed after the release.
PopFree(t) ==
  /\ op[t].step = "pop_free"
  /\ Deliver(t, op[t].node)
  /\ heap' = Free(op[t].node)
  /\ At(t, "idle", NULL)
  /\ UNCHANGED <<head, tail, size, mutex, waiting, life>>

-----------------------------------------------------------------------------
(* queue_size. *)

queue_size(t) == Begin(t, "size_lock")

SizeLock(t) == Acquire(t, "size_lock", "size_end")

SizeEnd(t) ==
  /\ op[t].step = "size_end"
  /\ mutex' = NULL
  /\ At(t, "idle", NULL)
  /\ UNCHANGED <<list, waiting, life, taken>>

-----------------------------------------------------------------------------
\* The nodes of the queue, from head on.
Chain == ChainOf(heap, head)

\* Variation: the loop looks one node ahead and leaves the last one.
queue_destroy_all_but_last ==
  /\ heap' = [n \in DOMAIN heap \ ToSet(Front(Chain)) |-> heap[n]]
  /\ life' = "destroyed"
  /\ UNCHANGED <<head, tail, size, mutex, waiting, op, taken>>

\* The nodes are freed, the packets they point to are not.  The pointers of
\* the queue are left as they are.
queue_destroy ==
  /\ heap' = [n \in DOMAIN heap \ ToSet(Chain) |-> heap[n]]
  /\ life' = "destroyed"
  /\ UNCHANGED <<head, tail, size, mutex, waiting, op, taken>>

-----------------------------------------------------------------------------
\* head, tail and size describe one list without a cycle, all of whose nodes
\* are allocated, ending in NULL at tail; the empty list included.
ListWellFormed ==
  /\ size = Len(Chain)
  /\ tail = IF Chain = <<>> THEN NULL ELSE Last(Chain)
  /\ head # NULL => head \in DOMAIN heap
  /\ tail # NULL => heap[tail].next = NULL

\* Nodes a thread holds outside the list: allocated and not linked yet, or
\* taken out and not freed yet.
Held(t) ==
  IF op[t].step \in {"push_lock", "pop_free"} THEN {op[t].node} ELSE {}

\* Every allocated node is in the list or in the hands of one thread, so
\* that none is leaked, freed twice, or used after it has been freed.
NodesAccounted ==
  /\ DOMAIN heap = ToSet(Chain) \cup UNION {Held(t) : t \in Threads}
  /\ \A t \in Threads : Held(t) \cap ToSet(Chain) = {}
  /\ \A t, u \in Threads : t # u => Held(t) \cap Held(u) = {}

\* Whenever the mutex is free the queue is one list and owns every node that
\* no thread has in its hands.
QueueWellFormed ==
  life = "live" /\ mutex = NULL => ListWellFormed /\ NodesAccounted

\* Past the loop of queue_pop there is a node to take, however many consumers
\* were woken and whoever came in between.
PopFindsNode ==
  \A t \in Threads :
    op[t].step = "pop_take" => size > 0 /\ head \in DOMAIN heap

\* No wake-up is lost: while consumers are asleep, each packet in the queue
\* has a consumer that has been woken and is about to look.
NoLostWakeup ==
  mutex = NULL /\ waiting # {} =>
    size <= Cardinality({t \in Threads \ waiting : op[t].step = "pop_wait"})

-----------------------------------------------------------------------------
(* What the queue promises. *)

\* What the queue holds: a push counts from its release of the mutex on, and
\* so does a pop.
Contents ==
  LET packets   == [i \in DOMAIN Chain |-> heap[Chain[i]].data]
      Popping   == {t \in Threads : op[t].step \in {"try_end", "pop_end"}}
  IN  IF life = "destroyed" THEN <<>>
      ELSE IF \E t \in Threads : op[t].step = "push_end" THEN Front(packets)
      ELSE IF Popping # {}
           THEN <<heap[op[CHOOSE t \in Popping : TRUE].node].data>> \o packets
           ELSE packets

\* A packet is its consumer's from the release of the mutex on.
TakenBy ==
  [t \in Threads |->
     IF op[t].step = "pop_free" THEN Append(taken[t], heap[op[t].node].data)
     ELSE taken[t]]

FifoOf == INSTANCE Fifo WITH Consumers <- Threads,
                             fifo <- Contents, taken <- TakenBy,
                             closed <- life = "destroyed"

\* The list under its mutex is a FIFO, as HostFsm takes it to be: each packet
\* goes to one consumer, in the order of the pushes.
ImplementsFifo == FifoOf!Spec
=============================================================================
