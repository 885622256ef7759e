----------------------------- MODULE QueueProofs -----------------------------
(***************************************************************************)
(* thread/queues.c for any number of threads, packets and nodes, in three  *)
(* parts.  The calls: what each does to the list and to the mutex, whoever *)
(* the callers are.  The clients of QueueClients: one thread at a time is  *)
(* inside, no wake-up is lost, the list is well formed, a consumer finds   *)
(* its node, and the calls implement a FIFO.  The two threads of Lifecycle *)
(* from start to exit, for every interface, every number of packets and    *)
(* every heap: the receive queue is pushed and polled between queue_init   *)
(* and queue_destroy only; it is a FIFO; an exit leaves neither a node nor *)
(* the port behind.                                                        *)
(*                                                                         *)
(* The two specifications share the variables of Queues; the clients'      *)
(* theorems are about ClientsSpec, the threads' about Spec.                *)
(***************************************************************************)
EXTENDS QueueClients, Lifecycle, LinkedListProofs

-----------------------------------------------------------------------------
(* The list in the heap of the queue. *)

\* A heap: allocated nodes with a packet and a pointer.
HeapTyped(h) ==
  /\ DOMAIN h \subseteq Nodes
  /\ h \in [DOMAIN h -> [data : Packets, next : Ptr]]

LEMMA HeapPointers ==
  ASSUME NEW h, HeapTyped(h)
  PROVE  Pointers(h)
  BY DEF HeapTyped, Pointers

\* A node is put after the last one, or becomes the first one.
LEMMA LinkedAppend ==
  ASSUME NEW h, NEW first, NEW s, Linked(h, first, s), HeapTyped(h),
         NEW n \in DOMAIN h, n \notin ToSet(s), h[n].next = NULL,
         NEW g, g = IF s = <<>> THEN h ELSE [h EXCEPT ![Last(s)].next = n],
         NEW start, start = IF s = <<>> THEN n ELSE first
  PROVE  /\ Linked(g, start, Append(s, n))
         /\ HeapTyped(g) /\ DOMAIN g = DOMAIN h
         /\ \A m \in DOMAIN h : g[m].data = h[m].data
         /\ \A m \in DOMAIN h \ ToSet(s) : g[m] = h[m]
         /\ ToSet(Append(s, n)) = ToSet(s) \cup {n}
<1> DEFINE t == Append(s, n)
           l == Len(s)
<1>1. s \in Seq(DOMAIN h) /\ l \in Nat
  BY DEF Linked
<1>2. /\ t \in Seq(DOMAIN h) /\ Len(t) = l + 1 /\ t[l + 1] = n
      /\ \A i \in 1 .. l : t[i] = s[i]
  BY <1>1
<1>3. \A i \in 1 .. l : s[i] # n /\ s[i] \in ToSet(s)
  BY <1>1 DEF ToSet
<1>4. l # 0 => Last(s) = s[l] /\ s[l] \in ToSet(s) /\ Last(s) \in DOMAIN h
  BY <1>1 DEF Last, ToSet
<1>5. /\ DOMAIN g = DOMAIN h
      /\ \A m \in DOMAIN h : g[m].data = h[m].data
      /\ \A m \in DOMAIN h :
           g[m].next = IF s # <<>> /\ m = Last(s) THEN n ELSE h[m].next
      /\ HeapTyped(g)
  <2>1. n \in Ptr
    BY DEF HeapTyped, Ptr
  <2>2. CASE s = <<>>
    BY <2>2
  <2>3. CASE s # <<>>
    <3>1. Last(s) \in DOMAIN h
      BY <1>1, <1>4, <2>3
    <3>2. g = [h EXCEPT ![Last(s)].next = n]
      BY <2>3
    <3> QED BY <2>1, <2>3, <3>1, <3>2 DEF HeapTyped
  <2> QED BY <2>2, <2>3
<1>6. \A m \in DOMAIN h \ ToSet(s) : g[m] = h[m]
  BY <1>1, <1>4
<1>7. ToSet(t) = ToSet(s) \cup {n}
  <2>1. DOMAIN t = 1 .. l + 1 /\ DOMAIN s = 1 .. l
    BY <1>1, <1>2
  <2> HIDE DEF t, l
  <2>2. ToSet(t) \subseteq ToSet(s) \cup {n}
    BY <1>1, <1>2, <2>1 DEF ToSet
  <2>3. ToSet(s) \subseteq ToSet(t)
    BY <1>1, <1>2, <2>1 DEF ToSet
  <2>4. n \in ToSet(t)
    BY <1>1, <1>2, <2>1 DEF ToSet
  <2> QED BY <2>2, <2>3, <2>4
<1>8. \A i, j \in 1 .. Len(t) : t[i] = t[j] => i = j
  <2>1. \A i, j \in 1 .. l : s[i] = s[j] => i = j
    BY DEF Linked
  <2>2. \A i \in 1 .. Len(t) : i = l + 1 \/ i \in 1 .. l
    BY <1>1, <1>2
  <2> HIDE DEF t, l
  <2> QED BY <1>1, <1>2, <1>3, <2>1, <2>2
<1>9. start = t[1] /\ t # <<>>
  <2>1. CASE s = <<>>
    BY <1>1, <1>2, <2>1
  <2>2. CASE s # <<>>
    BY <1>1, <1>2, <2>2 DEF Linked
  <2> QED BY <2>1, <2>2
<1>10. \A i \in 1 .. Len(t) :
         g[t[i]].next = IF i = Len(t) THEN NULL ELSE t[i + 1]
  <2>1. g[n].next = NULL
    BY <1>6
  <2>2. ASSUME NEW i \in 1 .. l
        PROVE  g[s[i]].next = t[i + 1]
    <3>1. s # <<>> /\ Last(s) = s[l] /\ s[i] \in DOMAIN h
      BY <1>1, <1>4
    <3>2. CASE i = l
      BY <1>2, <1>5, <3>1, <3>2
    <3>3. CASE i # l
      <4>1. s[i] # s[l] /\ i + 1 \in 1 .. l
        BY <1>1, <3>3 DEF Linked
      <4>2. h[s[i]].next = s[i + 1]
        BY <3>3 DEF Linked
      <4>3. g[s[i]].next = h[s[i]].next
        BY <1>5, <3>1, <4>1
      <4>4. t[i + 1] = s[i + 1]
        BY <1>2, <4>1
      <4> QED BY <4>2, <4>3, <4>4
    <3> QED BY <3>2, <3>3
  <2>3. \A i \in 1 .. Len(t) : i = l + 1 \/ (i \in 1 .. l /\ i # l + 1)
    BY <1>1, <1>2
  <2> HIDE DEF t, l
  <2> QED BY <1>2, <2>1, <2>2, <2>3
<1>11. t \in Seq(DOMAIN g)
  BY <1>2, <1>5
<1> HIDE DEF t
<1>12. Linked(g, start, t)
  BY <1>8, <1>9, <1>10, <1>11 DEF Linked
<1> QED
  BY <1>5, <1>6, <1>7, <1>12 DEF t

-----------------------------------------------------------------------------
(* The mutex. *)

\* The steps a thread takes with the mutex in its hands.
Critical == {"push_link", "push_end", "try_head", "try_end",
             "pop_test", "pop_take", "pop_end", "size_end"}

\* The mutex belongs to the one thread that is inside, and whoever is asleep
\* is asleep in queue_pop.
MutexDiscipline ==
  /\ op = [t \in Threads |-> op[t]]
  /\ mutex \in Threads \cup {NULL}
  /\ waiting \subseteq {t \in Threads : op[t].step = "pop_wait"}
  /\ size \in Int
  /\ \A t \in Threads : op[t].step \in Critical <=> mutex = t

\* A step of one thread as the mutex sees it.
Moves(t, to) ==
  /\ t \in Threads
  /\ op' = [op EXCEPT ![t] = [step |-> to, node |-> op'[t].node]]
  /\ size' \in Int

\* A thread outside moves to another step outside.
LEMMA OutsideStep ==
  ASSUME MutexDiscipline, NEW t, NEW to, Moves(t, to),
         op[t].step \notin Critical \cup {"pop_wait"}, to \notin Critical,
         UNCHANGED <<mutex, waiting>>
  PROVE  MutexDiscipline'
  BY DEF MutexDiscipline, Moves

\* A thread takes the mutex.
LEMMA EnterStep ==
  ASSUME MutexDiscipline, NEW t, NEW to, Moves(t, to),
         mutex = NULL, NULL \notin Threads, mutex' = t, to \in Critical,
         t \notin waiting, UNCHANGED waiting
  PROVE  MutexDiscipline'
  BY DEF MutexDiscipline, Moves

\* The thread inside goes on inside.
LEMMA InsideStep ==
  ASSUME MutexDiscipline, NEW t, NEW to, Moves(t, to),
         op[t].step \in Critical, to \in Critical, UNCHANGED <<mutex, waiting>>
  PROVE  MutexDiscipline'
  BY DEF MutexDiscipline, Moves, Critical

\* The thread inside leaves: it may wake others, or fall asleep itself.
LEMMA LeaveStep ==
  ASSUME MutexDiscipline, NEW t, NEW to, Moves(t, to),
         op[t].step \in Critical, to \notin Critical,
         NULL \notin Threads, mutex' = NULL,
         \/ waiting' \subseteq waiting
         \/ waiting' = waiting \cup {t} /\ to = "pop_wait"
  PROVE  MutexDiscipline'
  BY DEF MutexDiscipline, Moves, Critical

\* What an assignment to op says.
LEMMA AtMoves ==
  ASSUME MutexDiscipline, NEW t \in Threads, NEW to, NEW node, At(t, to, node),
         size' \in Int
  PROVE  Moves(t, to)
  BY DEF MutexDiscipline, At, Moves

\* A step of thread t in some call of the file.
Call(t) ==
  \/ (\E msg \in Packets : queue_push(t, msg))
  \/ PushLock(t) \/ PushLink(t) \/ PushEnd(t)
  \/ queue_try_pop(t) \/ TryLock(t) \/ TryNothing(t) \/ TryHead(t) \/ TryEnd(t)
  \/ queue_pop(t) \/ PopLock(t) \/ PopSleep(t) \/ SpuriousWakeup(t) \/ PopWake(t)
  \/ PopGoesOn(t) \/ PopTake(t) \/ PopEnd(t) \/ PopFree(t)
  \/ queue_size(t) \/ SizeLock(t) \/ SizeEnd(t)

LEMMA MutexQueueInit == QueueInit => MutexDiscipline
  BY QueueAssumption, NodesAssumption DEF QueueInit, MutexDiscipline, Critical

LEMMA MutexInitialise == MutexDiscipline /\ queue_init => MutexDiscipline'
  BY DEF MutexDiscipline, queue_init, Critical

\* Every step of a call keeps the discipline.
LEMMA MutexCall ==
  ASSUME MutexDiscipline, NEW t \in Threads, Call(t)
  PROVE  MutexDiscipline'
<1>0. NULL \notin Threads
  BY QueueAssumption, NodesAssumption
<1>1. CASE queue_try_pop(t) \/ queue_pop(t) \/ queue_size(t)
  <2>1. \E to \in {"try_lock", "pop_lock", "size_lock"} :
          Moves(t, to) /\ op[t].step = "idle" /\ UNCHANGED <<mutex, waiting>>
    BY <1>1 DEF queue_try_pop, queue_pop, queue_size, Begin, list,
                At, Moves, MutexDiscipline
  <2> QED
    BY <2>1, OutsideStep DEF Critical
<1>10. CASE \E msg \in Packets : queue_push(t, msg)
  <2>1. PICK msg \in Packets : queue_push(t, msg)
    BY <1>10
  <2>2. Moves(t, "push_lock") /\ op[t].step = "idle" /\ UNCHANGED <<mutex, waiting>>
    BY <2>1 DEF queue_push, At, Moves, MutexDiscipline
  <2> QED
    BY <2>2, OutsideStep DEF Critical
<1>2. CASE PushLock(t) \/ TryLock(t) \/ PopLock(t) \/ PopWake(t) \/ SizeLock(t)
  <2>1. \E to \in {"push_link", "try_head", "pop_test", "size_end"} :
          /\ Moves(t, to) /\ mutex = NULL /\ mutex' = t
          /\ t \notin waiting /\ UNCHANGED waiting
    BY <1>2 DEF PushLock, TryLock, PopLock, PopWake, SizeLock, Acquire, list,
                At, Moves, MutexDiscipline
  <2> QED
    BY <1>0, <2>1, EnterStep DEF Critical
<1>3. CASE PushLink(t) \/ TryHead(t) \/ PopGoesOn(t) \/ PopTake(t)
  <2>1. \E to \in {"push_end", "try_end", "pop_take", "pop_end"} :
          Moves(t, to) /\ op[t].step \in Critical /\ UNCHANGED <<mutex, waiting>>
    BY <1>3 DEF PushLink, TryHead, PopGoesOn, PopTake, UnlinkHead, list, At,
                Moves, MutexDiscipline, Critical
  <2> QED
    BY <2>1, InsideStep DEF Critical
<1>4. CASE PushEnd(t)
  <2>1. At(t, "idle", NULL) /\ size' \in Int
    BY <1>4 DEF PushEnd, MutexDiscipline
  <2>2. op[t].step = "push_end" /\ mutex' = NULL /\ waiting' \subseteq waiting
    BY <1>4 DEF PushEnd, cond_signal
  <2>3. Moves(t, "idle")
    BY <2>1, AtMoves
  <2> QED
    BY <1>0, <2>2, <2>3, LeaveStep DEF Critical
<1>5. CASE TryNothing(t) \/ TryEnd(t) \/ SizeEnd(t)
  <2>1. Moves(t, "idle") /\ op[t].step \in Critical /\ mutex' = NULL
          /\ waiting' \subseteq waiting
    BY <1>5 DEF TryNothing, TryEnd, SizeEnd, list, At, Moves,
                MutexDiscipline, Critical
  <2> QED
    BY <1>0, <2>1, LeaveStep DEF Critical
<1>6. CASE PopSleep(t)
  <2>1. Moves(t, "pop_wait") /\ op[t].step = "pop_test" /\ mutex' = NULL
          /\ waiting' = waiting \cup {t}
    BY <1>6 DEF PopSleep, list, At, Moves, MutexDiscipline
  <2> QED
    BY <1>0, <2>1, LeaveStep DEF Critical
<1>7. CASE PopEnd(t)
  <2>1. At(t, "pop_free", op[t].node) /\ size' \in Int
    BY <1>7 DEF PopEnd, MutexDiscipline
  <2>2. op[t].step = "pop_end" /\ mutex' = NULL /\ waiting' \subseteq waiting
    BY <1>7 DEF PopEnd
  <2>3. Moves(t, "pop_free")
    BY <2>1, AtMoves
  <2> QED
    BY <1>0, <2>2, <2>3, LeaveStep DEF Critical
<1>8. CASE PopFree(t)
  <2>1. Moves(t, "idle") /\ op[t].step = "pop_free" /\ UNCHANGED <<mutex, waiting>>
    BY <1>8 DEF PopFree, At, Moves, MutexDiscipline
  <2> QED
    BY <2>1, OutsideStep DEF Critical
<1>9. CASE SpuriousWakeup(t)
  BY <1>9 DEF SpuriousWakeup, list, MutexDiscipline
<1> QED
  BY <1>1, <1>2, <1>3, <1>4, <1>5, <1>6, <1>7, <1>8, <1>9, <1>10
     DEF Call

-----------------------------------------------------------------------------
(* The list. *)

\* The steps a thread takes with a node in its hands: not linked yet, or taken
\* off the list and not freed yet.
Holding == {"push_lock", "push_link", "try_end", "pop_end", "pop_free"}

\* The nodes of the list s, and those in the hands of one thread each, are the
\* allocated ones.
Owned(h, s, o) ==
  /\ \A t \in Threads :
       o[t].step \in Holding => o[t].node \in DOMAIN h \ ToSet(s)
  /\ \A t, u \in Threads :
       /\ o[t].step \in Holding
       /\ o[u].step \in Holding
       /\ o[t].node = o[u].node
       => t = u
  /\ \A n \in DOMAIN h \ ToSet(s) :
       \E t \in Threads : o[t].step \in Holding /\ o[t].node = n

\* A node to be pushed ends a list.
Unlinked(h, o) ==
  \A t \in Threads :
    o[t].step \in {"push_lock", "push_link"} => h[o[t].node].next = NULL

\* Where the thread inside is, "idle" if nobody is.
Inside(m, o) == IF m = NULL THEN "idle" ELSE o[m].step

\* size and tail, between the assignments of a call too.
Bounded(s, n, last, in, node) ==
  /\ in = "push_end" => s # <<>> /\ Last(s) = node /\ n = Len(s) - 1
  /\ in \in {"try_end", "pop_end"} =>
       n = Len(s) + 1 /\ (s # <<>> => last = Last(s))
  /\ in = "pop_take" => s # <<>>
  /\ in \notin {"push_end", "try_end", "pop_end"} =>
       n = Len(s) /\ last = IF s = <<>> THEN NULL ELSE Last(s)

\* The queue is the list of the nodes s.
IsList(s) ==
  /\ HeapTyped(heap)
  /\ Linked(heap, head, s)
  /\ Owned(heap, s, op)
  /\ Unlinked(heap, op)
  /\ Bounded(s, size, tail, Inside(mutex, op), op[mutex].node)

ListInv == life # "destroyed" => \E s : IsList(s)


\* A thread takes no node in its hands and lets none go.
SameHands(before, after) ==
  \/ before.step \notin Holding /\ after.step \notin Holding
  \/ /\ before.step \in Holding /\ after.step \in Holding
     /\ after.node = before.node
     /\ after.step \in {"push_lock", "push_link"} =>
          before.step \in {"push_lock", "push_link"}

LEMMA HandsKept ==
  ASSUME NEW h, NEW s, NEW o, o = [t \in Threads |-> o[t]],
         Owned(h, s, o), Unlinked(h, o),
         NEW t \in Threads, NEW r, SameHands(o[t], r),
         NEW p, p = [o EXCEPT ![t] = r]
  PROVE  Owned(h, s, p) /\ Unlinked(h, p)
<1>1. /\ p[t] = r
      /\ \A u \in Threads : u # t => p[u] = o[u]
  OBVIOUS
<1>2. \A u \in Threads : p[u].step \in Holding <=> o[u].step \in Holding
  BY <1>1 DEF SameHands
<1>3. \A u \in Threads : p[u].step \in Holding => p[u].node = o[u].node
  BY <1>1 DEF SameHands
<1>4. \A u \in Threads : p[u].step \in {"push_lock", "push_link"} =>
        /\ o[u].step \in {"push_lock", "push_link"}
        /\ p[u].node = o[u].node
  BY <1>1 DEF SameHands, Holding
<1>5. Owned(h, s, p)
  BY <1>2, <1>3 DEF Owned
<1>6. Unlinked(h, p)
  BY <1>4 DEF Unlinked
<1> QED
  BY <1>5, <1>6

Middle == {"push_end", "try_end", "pop_end"}

\* The step is not one of a thread between two assignments to the list.
Quiet ==
  \/ mutex # NULL /\ mutex' = mutex /\ op'[mutex] = op[mutex]
  \/ Inside(mutex, op) \notin Middle /\ Inside(mutex', op') \notin Middle

\* A step that leaves the list alone.
LEMMA SameList ==
  ASSUME MutexDiscipline, NEW t \in Threads, NEW s, IsList(s),
         UNCHANGED list, NEW to, NEW node, At(t, to, node),
         SameHands(op[t], [step |-> to, node |-> node]),
         \/ UNCHANGED mutex /\ op[t].step \notin Critical
         \/ /\ mutex = t \/ mutex = NULL
            /\ mutex' = t \/ mutex' = NULL
            /\ mutex = t => op[t].step \notin Middle
            /\ mutex' = t => to \notin Middle /\ (to = "pop_take" => s # <<>>)
  PROVE  IsList(s)' /\ Quiet
<1>1. HeapTyped(heap') /\ Linked(heap', head', s)
  BY DEF IsList, list
<1>2. Owned(heap', s, op') /\ Unlinked(heap', op')
  <2>1. Owned(heap, s, op') /\ Unlinked(heap, op')
    BY HandsKept DEF At, IsList, MutexDiscipline
  <2> QED BY <2>1 DEF list
<1>3. Bounded(s, size', tail', Inside(mutex', op'), op'[mutex'].node) /\ Quiet
  <2>1. /\ op'[t] = [step |-> to, node |-> node]
        /\ \A u \in Threads : u # t => op'[u] = op[u]
    BY DEF At, MutexDiscipline
  <2>2. mutex \in Threads \cup {NULL} /\ NULL \notin Threads
    BY QueueAssumption, NodesAssumption DEF MutexDiscipline
  <2>3. size' = size /\ tail' = tail
    BY DEF list
  <2>4. CASE UNCHANGED mutex /\ op[t].step \notin Critical
    <3>1. mutex # t
      BY <2>4 DEF MutexDiscipline
    <3>2. Inside(mutex', op') = Inside(mutex, op)
      BY <2>1, <2>2, <2>4, <3>1 DEF Inside
    <3>3. CASE mutex = NULL
      BY <2>3, <3>2, <3>3 DEF IsList, Bounded, Inside, Quiet, Middle
    <3>4. CASE mutex # NULL
      <4>1. op'[mutex'] = op[mutex]
        BY <2>1, <2>2, <2>4, <3>1, <3>4
      <4> QED BY <2>3, <2>4, <3>2, <3>4, <4>1 DEF IsList, Quiet
    <3> QED BY <3>3, <3>4
  <2>5. CASE ~(UNCHANGED mutex /\ op[t].step \notin Critical)
    <3>1. Inside(mutex, op) \notin Middle
      BY <2>2, <2>5 DEF Inside, Middle
    <3>2. /\ Inside(mutex', op') \notin Middle
          /\ Inside(mutex', op') = "pop_take" => s # <<>>
      BY <2>1, <2>2, <2>5 DEF Inside, Middle
    <3>3. size = Len(s) /\ tail = IF s = <<>> THEN NULL ELSE Last(s)
      BY <3>1 DEF IsList, Bounded, Middle
    <3> QED BY <2>3, <3>1, <3>2, <3>3 DEF Bounded, Middle, Quiet
  <2> QED BY <2>4, <2>5
<1> QED
  BY <1>1, <1>2, <1>3 DEF IsList


\* Begins, locks and unlocks, the looks at size, and the sleep.
LEMMA PlainSteps ==
  ASSUME MutexDiscipline, NEW t \in Threads, NEW s, IsList(s),
         \/ queue_try_pop(t) \/ queue_pop(t) \/ queue_size(t)
         \/ PushLock(t) \/ TryLock(t) \/ PopLock(t) \/ PopWake(t) \/ SizeLock(t)
         \/ TryNothing(t) \/ PopSleep(t) \/ SizeEnd(t) \/ PopGoesOn(t)
  PROVE  IsList(s)' /\ Quiet
<1>1. CASE queue_try_pop(t) \/ queue_pop(t) \/ queue_size(t)
  <2>1. PICK to \in {"try_lock", "pop_lock", "size_lock"} : Begin(t, to)
    BY <1>1 DEF queue_try_pop, queue_pop, queue_size
  <2>2. SameHands(op[t], [step |-> to, node |-> NULL])
    BY <2>1 DEF Begin, SameHands, Holding
  <2> QED
    BY <2>1, <2>2, SameList DEF Begin, list, Critical
<1>2. CASE PushLock(t) \/ TryLock(t) \/ PopLock(t) \/ PopWake(t) \/ SizeLock(t)
  <2>1. PICK from, to :
          /\ Acquire(t, from, to)
          /\ <<from, to>> \in {<<"push_lock", "push_link">>,
                               <<"try_lock", "try_head">>, <<"pop_lock", "pop_test">>,
                               <<"pop_wait", "pop_test">>, <<"size_lock", "size_end">>}
    BY <1>2 DEF PushLock, TryLock, PopLock, PopWake, SizeLock
  <2>2. SameHands(op[t], [step |-> to, node |-> op[t].node])
    BY <2>1 DEF Acquire, SameHands, Holding
  <2>3. to \notin Middle /\ to # "pop_take"
    BY <2>1 DEF Middle
  <2>4. /\ At(t, to, op[t].node) /\ UNCHANGED list /\ mutex = NULL /\ mutex' = t
        /\ t # NULL
    BY <2>1, QueueAssumption, NodesAssumption DEF Acquire
  <2> QED
    BY <2>2, <2>3, <2>4, SameList
<1>3. CASE TryNothing(t) \/ PopSleep(t) \/ SizeEnd(t)
  <2>1. PICK to \in {"idle", "pop_wait"} :
          /\ At(t, to, NULL) /\ UNCHANGED list /\ mutex' = NULL
          /\ op[t].step \in {"try_head", "pop_test", "size_end"}
    BY <1>3 DEF TryNothing, PopSleep, SizeEnd
  <2>2. SameHands(op[t], [step |-> to, node |-> NULL])
    BY <2>1 DEF SameHands, Holding
  <2>3. mutex = t /\ op[t].step \notin Middle /\ t # NULL
    BY <2>1, QueueAssumption, NodesAssumption DEF MutexDiscipline, Critical, Middle
  <2> QED
    BY <2>1, <2>2, <2>3, SameList
<1>4. CASE PopGoesOn(t)
  <2>1. /\ At(t, "pop_take", NULL) /\ UNCHANGED list /\ mutex' = mutex
        /\ op[t].step = "pop_test" /\ size > 0
    BY <1>4 DEF PopGoesOn
  <2>2. SameHands(op[t], [step |-> "pop_take", node |-> NULL])
    BY <2>1 DEF SameHands, Holding
  <2>3. mutex = t /\ op[t].step \notin Middle /\ t # NULL
    BY <2>1, QueueAssumption, NodesAssumption DEF MutexDiscipline, Critical, Middle
  <2>4. s # <<>>
    <3>1. Inside(mutex, op) = "pop_test"
      BY <2>1, <2>3 DEF Inside
    <3>2. size = Len(s)
      BY <3>1 DEF IsList, Bounded
    <3> QED BY <2>1, <3>2
  <2> QED
    BY <2>1, <2>2, <2>3, <2>4, SameList DEF Middle
<1> QED
  BY <1>1, <1>2, <1>3, <1>4

LEMMA WakeupSteps ==
  ASSUME NEW t \in Threads, NEW s, IsList(s), SpuriousWakeup(t)
  PROVE  IsList(s)'
  BY DEF SpuriousWakeup, IsList, list

\* malloc and the start of queue_push: a node in the hands of the thread.
LEMMA PushSteps ==
  ASSUME MutexDiscipline, NEW t \in Threads, NEW s, IsList(s),
         NEW msg \in Packets, queue_push(t, msg)
  PROVE  IsList(s)'
<1>1. PICK n \in Nodes \ DOMAIN heap :
        /\ heap' = [m \in DOMAIN heap \cup {n} |->
                      IF m = n THEN [data |-> msg, next |-> NULL] ELSE heap[m]]
        /\ At(t, "push_lock", n)
  BY DEF queue_push
<1>2. /\ op[t].step = "idle" /\ UNCHANGED <<head, tail, size, mutex>>
  BY DEF queue_push
<1>3. /\ op'[t] = [step |-> "push_lock", node |-> n]
      /\ \A u \in Threads : u # t => op'[u] = op[u]
  BY <1>1 DEF At, MutexDiscipline
<1>4. /\ DOMAIN heap' = DOMAIN heap \cup {n}
      /\ heap'[n] = [data |-> msg, next |-> NULL]
      /\ \A m \in DOMAIN heap : heap'[m] = heap[m]
  BY <1>1
<1>5. HeapTyped(heap')
  BY <1>1, <1>4 DEF IsList, HeapTyped, Ptr
<1>6. ToSet(s) \subseteq DOMAIN heap
  BY DEF IsList, Linked, ToSet
<1>7. Linked(heap', head', s)
  BY <1>2, <1>4, <1>6, LinkedElsewhere DEF IsList
<1>8. Owned(heap', s, op')
  <2>0. Owned(heap, s, op) /\ op[t].step \notin Holding
    BY <1>2 DEF IsList, Holding
  <2>1. ASSUME NEW u \in Threads, op'[u].step \in Holding
        PROVE  op'[u].node \in DOMAIN heap' \ ToSet(s)
    BY <1>1, <1>3, <1>4, <1>6, <2>0, <2>1 DEF Owned
  <2>2. ASSUME NEW u \in Threads, u # t, op'[u].step \in Holding
        PROVE  op'[u].node # n
    BY <1>1, <1>3, <2>0, <2>2 DEF Owned
  <2>3. ASSUME NEW u \in Threads, NEW v \in Threads,
               op'[u].step \in Holding, op'[v].step \in Holding,
               op'[u].node = op'[v].node
        PROVE  u = v
    <3>1. CASE u = t
      BY <1>3, <2>2, <2>3, <3>1
    <3>2. CASE v = t
      BY <1>3, <2>2, <2>3, <3>2
    <3>3. CASE u # t /\ v # t
      BY <1>3, <2>0, <2>3, <3>3 DEF Owned
    <3> QED BY <3>1, <3>2, <3>3
  <2>4. ASSUME NEW m \in DOMAIN heap' \ ToSet(s)
        PROVE  \E u \in Threads : op'[u].step \in Holding /\ op'[u].node = m
    <3>1. CASE m = n
      BY <1>3, <3>1 DEF Holding
    <3>2. CASE m # n
      <4>1. PICK u \in Threads : op[u].step \in Holding /\ op[u].node = m
        BY <1>4, <2>0, <3>2 DEF Owned
      <4>2. u # t
        BY <2>0, <4>1
      <4> QED BY <1>3, <4>1, <4>2
    <3> QED BY <3>1, <3>2
  <2> QED BY <2>1, <2>3, <2>4 DEF Owned
<1>9. Unlinked(heap', op')
  <2>1. ASSUME NEW u \in Threads, op'[u].step \in {"push_lock", "push_link"}
        PROVE  heap'[op'[u].node].next = NULL
    <3>1. CASE u = t
      BY <1>3, <1>4, <3>1
    <3>2. CASE u # t
      <4>1. op[u].step \in {"push_lock", "push_link"} /\ op'[u] = op[u]
        BY <1>3, <2>1, <3>2
      <4>2. op[u].node \in DOMAIN heap /\ heap[op[u].node].next = NULL
        BY <4>1 DEF IsList, Owned, Unlinked, Holding
      <4> QED BY <1>4, <4>1, <4>2
    <3> QED BY <3>1, <3>2
  <2> QED BY <2>1 DEF Unlinked
<1>10. Bounded(s, size', tail', Inside(mutex', op'), op'[mutex'].node)
  <2>1. mutex # t /\ mutex \in Threads \cup {NULL} /\ NULL \notin Threads
    BY <1>2, QueueAssumption, NodesAssumption DEF MutexDiscipline, Critical
  <2>2. Inside(mutex', op') = Inside(mutex, op)
    BY <1>2, <1>3, <2>1 DEF Inside
  <2>3. CASE mutex = NULL
    BY <1>2, <2>2, <2>3 DEF IsList, Bounded, Inside
  <2>4. CASE mutex # NULL
    BY <1>2, <1>3, <2>1, <2>2, <2>4 DEF IsList
  <2> QED BY <2>3, <2>4
<1> QED
  BY <1>5, <1>7, <1>8, <1>9, <1>10 DEF IsList


\* The thread inside, and where it is.
LEMMA InsideIs ==
  ASSUME MutexDiscipline, NEW t \in Threads, op[t].step \in Critical
  PROVE  mutex = t /\ t # NULL /\ Inside(mutex, op) = op[t].step
  BY QueueAssumption, NodesAssumption DEF MutexDiscipline, Inside

LEMMA AtIs ==
  ASSUME MutexDiscipline, NEW t \in Threads, NEW to, NEW node, At(t, to, node)
  PROVE  /\ op'[t] = [step |-> to, node |-> node]
         /\ \A u \in Threads : u # t => op'[u] = op[u]
  BY DEF At, MutexDiscipline

\* The node goes from the hands of the thread to the end of the list.
LEMMA LinkSteps ==
  ASSUME MutexDiscipline, NEW t \in Threads, NEW s, IsList(s), PushLink(t),
         NEW n, n = op[t].node
  PROVE  /\ IsList(Append(s, n))'
         /\ n \in DOMAIN heap \ ToSet(s) /\ DOMAIN heap' = DOMAIN heap
         /\ \A m \in DOMAIN heap : heap'[m].data = heap[m].data
<1>1. /\ op[t].step = "push_link" /\ At(t, "push_end", n)
      /\ UNCHANGED <<tail, size, mutex>>
  BY DEF PushLink
<1>2. mutex = t /\ t # NULL /\ Inside(mutex, op) = "push_link"
  BY <1>1, InsideIs DEF Critical
<1>3. size = Len(s) /\ tail = IF s = <<>> THEN NULL ELSE Last(s)
  BY <1>2 DEF IsList, Bounded
<1>4. n \in DOMAIN heap \ ToSet(s) /\ heap[n].next = NULL
  BY <1>1 DEF IsList, Owned, Unlinked, Holding
<1>5. s # <<>> => Last(s) # NULL
  <2>1. s # <<>> => Last(s) \in DOMAIN heap
    BY DEF IsList, Linked, Last
  <2> QED BY <2>1, QueueAssumption, NodesAssumption DEF IsList, HeapTyped
<1>6. /\ heap' = IF s = <<>> THEN heap ELSE [heap EXCEPT ![Last(s)].next = n]
      /\ head' = IF s = <<>> THEN n ELSE head
  BY <1>3, <1>5 DEF PushLink
<1>7. /\ Linked(heap', head', Append(s, n))
      /\ HeapTyped(heap') /\ DOMAIN heap' = DOMAIN heap
      /\ \A m \in DOMAIN heap : heap'[m].data = heap[m].data
      /\ \A m \in DOMAIN heap \ ToSet(s) : heap'[m] = heap[m]
      /\ ToSet(Append(s, n)) = ToSet(s) \cup {n}
  <2>1. Linked(heap, head, s) /\ HeapTyped(heap)
    BY DEF IsList
  <2> QED BY <1>4, <1>6, <2>1, LinkedAppend
<1>8. /\ op'[t] = [step |-> "push_end", node |-> n]
      /\ \A u \in Threads : u # t => op'[u] = op[u]
  BY <1>1, AtIs
<1>9. Owned(heap', Append(s, n), op')
  <2>0. Owned(heap, s, op) /\ op[t].step \in Holding /\ op'[t].step \notin Holding
    BY <1>1, <1>8 DEF IsList, Holding
  <2>1. ASSUME NEW u \in Threads, op'[u].step \in Holding
        PROVE  op'[u].node \in DOMAIN heap' \ ToSet(Append(s, n))
    <3>1. u # t /\ op'[u] = op[u]
      BY <1>8, <2>0, <2>1
    <3>2. op[u].node # n /\ op[u].node \in DOMAIN heap \ ToSet(s)
      BY <2>0, <2>1, <3>1 DEF Owned
    <3> QED BY <1>7, <3>1, <3>2
  <2>2. \A u, v \in Threads :
          /\ op'[u].step \in Holding
          /\ op'[v].step \in Holding
          /\ op'[u].node = op'[v].node
          => u = v
    BY <1>8, <2>0 DEF Owned
  <2>3. ASSUME NEW m \in DOMAIN heap' \ ToSet(Append(s, n))
        PROVE  \E u \in Threads : op'[u].step \in Holding /\ op'[u].node = m
    <3>1. m \in DOMAIN heap \ ToSet(s) /\ m # n
      BY <1>7
    <3>2. PICK u \in Threads : op[u].step \in Holding /\ op[u].node = m
      BY <2>0, <3>1 DEF Owned
    <3>3. u # t
      BY <3>1, <3>2
    <3> QED BY <1>8, <3>2, <3>3
  <2> QED BY <2>1, <2>2, <2>3 DEF Owned
<1>10. Unlinked(heap', op')
  <2>1. ASSUME NEW u \in Threads, op'[u].step \in {"push_lock", "push_link"}
        PROVE  heap'[op'[u].node].next = NULL
    <3>1. u # t /\ op'[u] = op[u]
      BY <1>8, <2>1
    <3>2. op[u].node \in DOMAIN heap \ ToSet(s) /\ heap[op[u].node].next = NULL
      BY <2>1, <3>1 DEF IsList, Owned, Unlinked, Holding
    <3> QED BY <1>7, <3>1, <3>2
  <2> QED BY <2>1 DEF Unlinked
<1>11. Bounded(Append(s, n), size', tail', Inside(mutex', op'), op'[mutex'].node)
  <2>1. Inside(mutex', op') = "push_end" /\ op'[mutex'].node = n
    BY <1>1, <1>2, <1>8 DEF Inside
  <2>2. s \in Seq(DOMAIN heap)
    BY DEF IsList, Linked
  <2>3. /\ Append(s, n) # <<>> /\ Last(Append(s, n)) = n
        /\ Len(Append(s, n)) - 1 = Len(s)
    BY <2>2 DEF Last
  <2> QED BY <1>1, <1>3, <2>1, <2>3 DEF Bounded
<1>12. IsList(Append(s, n))'
  BY <1>7, <1>9, <1>10, <1>11 DEF IsList
<1> QED
  BY <1>4, <1>7, <1>12

\* tail and size follow, and the mutex is released.
LEMMA PushEndSteps ==
  ASSUME MutexDiscipline, NEW t \in Threads, NEW s, IsList(s), PushEnd(t)
  PROVE  IsList(s)' /\ s # <<>> /\ op[t].node = Last(s) /\ mutex = t
<1>1. /\ op[t].step = "push_end" /\ At(t, "idle", NULL)
      /\ tail' = op[t].node /\ size' = size + 1 /\ mutex' = NULL
      /\ UNCHANGED <<head, heap>>
  BY DEF PushEnd
<1>2. mutex = t /\ t # NULL /\ Inside(mutex, op) = "push_end"
  BY <1>1, InsideIs DEF Critical
<1>3. s # <<>> /\ Last(s) = op[t].node /\ size = Len(s) - 1
  BY <1>2 DEF IsList, Bounded
<1>4. Owned(heap, s, op') /\ Unlinked(heap, op')
  <2>1. SameHands(op[t], [step |-> "idle", node |-> NULL])
    BY <1>1 DEF SameHands, Holding
  <2> QED BY <1>1, <2>1, HandsKept DEF At, IsList, MutexDiscipline
<1>5. Bounded(s, size', tail', Inside(mutex', op'), op'[mutex'].node)
  <2>1. Inside(mutex', op') = "idle"
    BY <1>1 DEF Inside
  <2>2. Len(s) \in Nat
    BY DEF IsList, Linked
  <2>3. size' = Len(s)
    <3> DEFINE l == Len(s)
    <3> HIDE DEF l
    <3>1. l \in Nat /\ size = l - 1 /\ size' = size + 1
      BY <1>1, <1>3, <2>2 DEF l
    <3>2. size' = l
      BY <3>1
    <3> QED BY <3>2 DEF l
  <2> QED BY <1>1, <1>3, <2>1, <2>3 DEF Bounded
<1> QED
  BY <1>1, <1>2, <1>3, <1>4, <1>5 DEF IsList

\* The first node goes from the list to the hands of the thread.
LEMMA TakeSteps ==
  ASSUME MutexDiscipline, NEW t \in Threads, NEW s, IsList(s),
         TryHead(t) \/ PopTake(t)
  PROVE  /\ s # <<>> /\ IsList(Tail(s))'
         /\ mutex = t /\ op'[t].node = s[1] /\ heap' = heap
         /\ op[t].step \in {"try_head", "pop_take"}
         /\ op'[t].step \in {"try_end", "pop_end"}
<1>1. PICK to \in {"try_end", "pop_end"} :
        /\ head' = heap[head].next /\ At(t, to, head)
        /\ UNCHANGED <<tail, size, heap, mutex>>
        /\ op[t].step \in {"try_head", "pop_take"}
        /\ op[t].step = "try_head" => size > 0
  BY DEF TryHead, PopTake, UnlinkHead
<1>2. mutex = t /\ t # NULL /\ Inside(mutex, op) = op[t].step
  BY <1>1, InsideIs DEF Critical
<1>3. size = Len(s) /\ tail = (IF s = <<>> THEN NULL ELSE Last(s)) /\ s # <<>>
  <2>1. size = Len(s) /\ tail = IF s = <<>> THEN NULL ELSE Last(s)
    BY <1>1, <1>2 DEF IsList, Bounded
  <2>2. s # <<>>
    BY <1>1, <1>2, <2>1 DEF IsList, Bounded
  <2> QED BY <2>1, <2>2
<1>4. /\ head = s[1] /\ head \in DOMAIN heap
      /\ Linked(heap, head', Tail(s))
      /\ head \notin ToSet(Tail(s))
      /\ ToSet(s) = {head} \cup ToSet(Tail(s))
  BY <1>1, <1>3, LinkedTail DEF IsList
<1>5. /\ op'[t] = [step |-> to, node |-> head]
      /\ \A u \in Threads : u # t => op'[u] = op[u]
  BY <1>1, AtIs
<1>6. Owned(heap, Tail(s), op')
  <2>0. Owned(heap, s, op) /\ op[t].step \notin Holding
    BY <1>1 DEF IsList, Holding
  <2>1. ASSUME NEW u \in Threads, op'[u].step \in Holding
        PROVE  op'[u].node \in DOMAIN heap \ ToSet(Tail(s))
    BY <1>4, <1>5, <2>0, <2>1 DEF Owned
  <2>2. ASSUME NEW u \in Threads, u # t, op'[u].step \in Holding
        PROVE  op'[u].node # head
    BY <1>4, <1>5, <2>0, <2>2 DEF Owned
  <2>3. ASSUME NEW u \in Threads, NEW v \in Threads,
               op'[u].step \in Holding, op'[v].step \in Holding,
               op'[u].node = op'[v].node
        PROVE  u = v
    <3>1. CASE u = t
      BY <1>5, <2>2, <2>3, <3>1
    <3>2. CASE v = t
      BY <1>5, <2>2, <2>3, <3>2
    <3>3. CASE u # t /\ v # t
      BY <1>5, <2>0, <2>3, <3>3 DEF Owned
    <3> QED BY <3>1, <3>2, <3>3
  <2>4. ASSUME NEW m \in DOMAIN heap \ ToSet(Tail(s))
        PROVE  \E u \in Threads : op'[u].step \in Holding /\ op'[u].node = m
    <3>1. CASE m = head
      BY <1>5, <3>1 DEF Holding
    <3>2. CASE m # head
      <4>1. PICK u \in Threads : op[u].step \in Holding /\ op[u].node = m
        BY <1>4, <2>0, <3>2 DEF Owned
      <4>2. u # t
        BY <2>0, <4>1
      <4> QED BY <1>5, <4>1, <4>2
    <3> QED BY <3>1, <3>2
  <2> QED BY <2>1, <2>3, <2>4 DEF Owned
<1>7. Unlinked(heap, op')
  BY <1>5 DEF IsList, Unlinked
<1>8. Bounded(Tail(s), size', tail', Inside(mutex', op'), op'[mutex'].node)
  <2>1. Inside(mutex', op') \in {"try_end", "pop_end"}
    BY <1>1, <1>2, <1>5 DEF Inside
  <2>2. s \in Seq(DOMAIN heap)
    BY DEF IsList, Linked
  <2>3. Len(s) = Len(Tail(s)) + 1 /\ (Tail(s) # <<>> => Last(Tail(s)) = Last(s))
    BY <1>3, <2>2 DEF Last
  <2> QED BY <1>1, <1>3, <2>1, <2>3 DEF Bounded
<1> QED
  BY <1>1, <1>2, <1>3, <1>4, <1>5, <1>6, <1>7, <1>8 DEF IsList


\* A node in the hands of the thread is freed.
LEMMA Freed ==
  ASSUME NEW h, HeapTyped(h), NEW first, NEW s, Linked(h, first, s),
         NEW o, o = [t \in Threads |-> o[t]], Owned(h, s, o), Unlinked(h, o),
         NEW t \in Threads, o[t].step \in Holding,
         NEW n, n = o[t].node,
         NEW r, r.step \notin Holding,
         NEW p, p = [o EXCEPT ![t] = r],
         NEW g, g = [m \in DOMAIN h \ {n} |-> h[m]]
  PROVE  /\ HeapTyped(g) /\ Linked(g, first, s)
         /\ Owned(g, s, p) /\ Unlinked(g, p)
<1>1. n \in DOMAIN h \ ToSet(s)
  BY DEF Owned
<1>2. DOMAIN g = DOMAIN h \ {n} /\ \A m \in DOMAIN h \ {n} : g[m] = h[m]
  OBVIOUS
<1>3. HeapTyped(g)
  BY <1>2 DEF HeapTyped
<1>4. ToSet(s) \subseteq DOMAIN h
  BY DEF Linked, ToSet
<1>5. Linked(g, first, s)
  BY <1>1, <1>2, <1>4, LinkedElsewhere
<1>6. p[t] = r /\ \A u \in Threads : u # t => p[u] = o[u]
  OBVIOUS
<1>7. \A u \in Threads : p[u].step \in Holding => u # t /\ p[u] = o[u]
  BY <1>6
<1>8. \A u \in Threads : p[u].step \in Holding => p[u].node # n
  BY <1>7 DEF Owned
<1>9. Owned(g, s, p)
  <2>1. \A u \in Threads :
          p[u].step \in Holding => p[u].node \in DOMAIN g \ ToSet(s)
    BY <1>2, <1>7, <1>8 DEF Owned
  <2>2. \A u, v \in Threads :
          /\ p[u].step \in Holding
          /\ p[v].step \in Holding
          /\ p[u].node = p[v].node
          => u = v
    BY <1>7 DEF Owned
  <2>3. ASSUME NEW m \in DOMAIN g \ ToSet(s)
        PROVE  \E u \in Threads : p[u].step \in Holding /\ p[u].node = m
    <3>1. m \in DOMAIN h \ ToSet(s) /\ m # n
      BY <1>2
    <3>2. PICK u \in Threads : o[u].step \in Holding /\ o[u].node = m
      BY <3>1 DEF Owned
    <3>3. u # t
      BY <3>1, <3>2
    <3> QED BY <1>6, <3>2, <3>3
  <2> QED BY <2>1, <2>2, <2>3 DEF Owned
<1>10. Unlinked(g, p)
  <2>1. ASSUME NEW u \in Threads, p[u].step \in {"push_lock", "push_link"}
        PROVE  g[p[u].node].next = NULL
    <3>1. p[u].step \in Holding
      BY <2>1 DEF Holding
    <3>2. p[u] = o[u] /\ p[u].node \in DOMAIN h \ {n}
      BY <1>7, <1>8, <3>1 DEF Owned
    <3>3. h[o[u].node].next = NULL
      BY <2>1, <3>2 DEF Unlinked
    <3> QED BY <1>2, <3>2, <3>3
  <2> QED BY <2>1 DEF Unlinked
<1> QED
  BY <1>3, <1>5, <1>9, <1>10

\* The end of a pop inside the mutex: tail and size follow, the node is freed
\* at once by queue_try_pop and later by queue_pop.
LEMMA PopEndSteps ==
  ASSUME MutexDiscipline, NEW t \in Threads, NEW s, IsList(s),
         TryEnd(t) \/ PopEnd(t)
  PROVE  IsList(s)' /\ mutex = t
<1>1. /\ op[t].step \in {"try_end", "pop_end"}
      /\ tail' = TailAfterPop /\ size' = size - 1 /\ mutex' = NULL
      /\ head' = head
  BY DEF TryEnd, PopEnd
<1>2. mutex = t /\ t # NULL /\ Inside(mutex, op) = op[t].step
  BY <1>1, InsideIs DEF Critical
<1>3. size = Len(s) + 1 /\ (s # <<>> => tail = Last(s))
  BY <1>1, <1>2 DEF IsList, Bounded
<1>4. Bounded(s, size', tail', Inside(mutex', op'), op'[mutex'].node)
  <2>1. Inside(mutex', op') = "idle"
    BY <1>1 DEF Inside
  <2>2. size' = Len(s)
    <3> DEFINE l == Len(s)
    <3>1. l \in Nat
      BY DEF IsList, Linked
    <3>2. size = l + 1 /\ size' = size - 1
      BY <1>1, <1>3
    <3> HIDE DEF l
    <3>3. size' = l
      BY <3>1, <3>2
    <3> QED BY <3>3 DEF l
  <2>3. tail' = IF s = <<>> THEN NULL ELSE Last(s)
    <3>1. s = <<>> <=> head = NULL
      <4>1. s # <<>> => s[1] \in DOMAIN heap /\ head = s[1]
        BY DEF IsList, Linked
      <4>2. s = <<>> => head = NULL
        BY DEF IsList, Linked
      <4> QED BY <4>1, <4>2, QueueAssumption, NodesAssumption DEF IsList, HeapTyped
    <3> QED BY <1>1, <1>3, <3>1 DEF TailAfterPop
  <2> QED BY <2>1, <2>2, <2>3 DEF Bounded
<1>5. CASE TryEnd(t)
  <2>1. At(t, "idle", NULL) /\ heap' = Free(op[t].node) /\ op[t].step = "try_end"
    BY <1>5 DEF TryEnd
  <2>2. /\ op' = [op EXCEPT ![t] = [step |-> "idle", node |-> NULL]]
        /\ heap' = [m \in DOMAIN heap \ {op[t].node} |-> heap[m]]
        /\ op[t].step \in Holding
        /\ [step |-> "idle", node |-> NULL].step \notin Holding
        /\ op = [u \in Threads |-> op[u]]
    BY <2>1 DEF At, Free, Holding, MutexDiscipline
  <2>3. /\ HeapTyped(heap) /\ Linked(heap, head, s)
        /\ Owned(heap, s, op) /\ Unlinked(heap, op)
    BY DEF IsList
  <2>4. /\ HeapTyped(heap') /\ Linked(heap', head, s)
        /\ Owned(heap', s, op') /\ Unlinked(heap', op')
    <3> HIDE DEF MutexDiscipline
    <3> QED BY <2>2, <2>3, Freed, SMTT(30)
  <2> QED BY <1>1, <1>2, <1>4, <2>4 DEF IsList
<1>6. CASE PopEnd(t)
  <2>1. At(t, "pop_free", op[t].node) /\ heap' = heap /\ op[t].step = "pop_end"
    BY <1>6 DEF PopEnd
  <2>2. SameHands(op[t], [step |-> "pop_free", node |-> op[t].node])
    BY <2>1 DEF SameHands, Holding
  <2>3. Owned(heap, s, op') /\ Unlinked(heap, op')
    BY <2>1, <2>2, HandsKept DEF At, IsList, MutexDiscipline
  <2> QED BY <1>1, <1>2, <1>4, <2>1, <2>3 DEF IsList
<1> QED
  BY <1>5, <1>6

\* The node of a queue_pop is freed outside the mutex.
LEMMA FreeSteps ==
  ASSUME MutexDiscipline, NEW t \in Threads, NEW s, IsList(s), PopFree(t)
  PROVE  IsList(s)'
<1>1. /\ op[t].step = "pop_free" /\ At(t, "idle", NULL)
      /\ heap' = Free(op[t].node)
      /\ UNCHANGED <<head, tail, size, mutex>>
  BY DEF PopFree
<1> DEFINE r == [step |-> "idle", node |-> NULL]
<1>2. /\ op' = [op EXCEPT ![t] = r]
      /\ heap' = [m \in DOMAIN heap \ {op[t].node} |-> heap[m]]
      /\ op[t].step \in Holding
      /\ r.step \notin Holding
      /\ op = [u \in Threads |-> op[u]]
  BY <1>1 DEF At, Free, Holding, MutexDiscipline
<1>3. /\ HeapTyped(heap) /\ Linked(heap, head, s)
      /\ Owned(heap, s, op) /\ Unlinked(heap, op)
  BY DEF IsList
<1>4. /\ HeapTyped(heap') /\ Linked(heap', head, s)
      /\ Owned(heap', s, op') /\ Unlinked(heap', op')
  <2> HIDE DEF r
  <2> QED BY <1>2, <1>3, Freed, ZenonT(30)
<1>5. Bounded(s, size', tail', Inside(mutex', op'), op'[mutex'].node)
  <2>1. mutex # t /\ mutex \in Threads \cup {NULL} /\ NULL \notin Threads
    BY <1>1, QueueAssumption, NodesAssumption DEF MutexDiscipline, Critical
  <2>2. \A u \in Threads : u # t => op'[u] = op[u]
    BY <1>2
  <2>3. Inside(mutex', op') = Inside(mutex, op)
    BY <1>1, <2>1, <2>2 DEF Inside
  <2>4. CASE mutex = NULL
    BY <1>1, <2>3, <2>4 DEF IsList, Bounded, Inside
  <2>5. CASE mutex # NULL
    BY <1>1, <2>1, <2>2, <2>3, <2>5 DEF IsList
  <2> QED BY <2>4, <2>5
<1> QED
  BY <1>1, <1>4, <1>5 DEF IsList

-----------------------------------------------------------------------------
(* The invariant. *)

\* Outside queue_init .. queue_destroy nobody is in a call; before queue_init
\* the list is empty.  Every thread has its list of packets.
Lives ==
  /\ life \in {"raw", "live", "destroyed"}
  /\ life # "live" => \A t \in Threads : op[t].step = "idle"
  /\ life = "raw" => heap = [n \in {} |-> NULL] /\ mutex = NULL
  /\ DOMAIN taken = Threads

QueueInv == MutexDiscipline /\ Lives /\ ListInv

LEMMA EmptyList ==
  ASSUME MutexDiscipline, head = NULL, tail = NULL, size = 0, mutex = NULL,
         heap = [n \in {} |-> NULL], \A t \in Threads : op[t].step = "idle"
  PROVE  IsList(<<>>)
<1>1. HeapTyped(heap) /\ Linked(heap, head, <<>>)
  BY DEF HeapTyped, Linked
<1>2. Owned(heap, <<>>, op) /\ Unlinked(heap, op)
  BY DEF Owned, Unlinked, Holding
<1>3. Bounded(<<>>, size, tail, Inside(mutex, op), op[mutex].node)
  BY DEF Bounded, Inside
<1> QED
  BY <1>1, <1>2, <1>3 DEF IsList

LEMMA QueueInvInit == QueueInit => QueueInv
<1> SUFFICES ASSUME QueueInit PROVE QueueInv
  OBVIOUS
<1>1. MutexDiscipline
  BY MutexQueueInit
<1>2. \A t \in Threads : op[t].step = "idle"
  BY DEF QueueInit
<1>3. IsList(<<>>)
  BY <1>1, <1>2, EmptyList DEF QueueInit
<1> QED
  BY <1>1, <1>2, <1>3 DEF QueueInv, Lives, ListInv, QueueInit

LEMMA QueueInvInitialise == QueueInv /\ life = "raw" /\ queue_init => QueueInv'
<1> SUFFICES ASSUME QueueInv, life = "raw", queue_init PROVE QueueInv'
  OBVIOUS
<1>1. MutexDiscipline'
  BY MutexInitialise DEF QueueInv
<1>2. /\ head' = NULL /\ tail' = NULL /\ size' = 0 /\ mutex' = NULL
      /\ heap' = [n \in {} |-> NULL] /\ life' = "live" /\ taken' = taken
      /\ \A t \in Threads : op'[t].step = "idle"
  BY DEF queue_init, QueueInv, Lives
<1>3. IsList(<<>>)'
  <2>1. HeapTyped(heap') /\ Linked(heap', head', <<>>)
    BY <1>2 DEF HeapTyped, Linked
  <2>2. Owned(heap', <<>>, op') /\ Unlinked(heap', op')
    BY <1>2 DEF Owned, Unlinked, Holding
  <2>3. Bounded(<<>>, size', tail', Inside(mutex', op'), op'[mutex'].node)
    BY <1>2 DEF Bounded, Inside
  <2> QED BY <2>1, <2>2, <2>3 DEF IsList
<1> QED
  BY <1>1, <1>2, <1>3 DEF QueueInv, Lives, ListInv

\* Whatever a thread does in a call, the queue stays one list.
LEMMA ListCall ==
  ASSUME QueueInv, life = "live", NEW t \in Threads, Call(t)
  PROVE  QueueInv'
<1>0. life = "live"
  OBVIOUS
<1>1. MutexDiscipline'
  BY MutexCall DEF QueueInv
<1>2. Lives'
  <2>1. life' = life /\ (UNCHANGED taken \/ \E n : Deliver(t, n))
    BY DEF Call, queue_push, PushLock, PushLink, PushEnd, queue_try_pop, TryLock,
           TryNothing, TryHead, TryEnd, queue_pop, PopLock, PopSleep,
           SpuriousWakeup, PopWake, PopGoesOn, PopTake, PopEnd, PopFree,
           queue_size, SizeLock, SizeEnd, Begin, Acquire, UnlinkHead
  <2>2. DOMAIN taken' = Threads
    BY <2>1 DEF Deliver, QueueInv, Lives
  <2> QED BY <2>1, <2>2, <1>0 DEF Lives
<1>3. PICK s : IsList(s)
  BY DEF QueueInv, ListInv
<1>4. MutexDiscipline
  BY DEF QueueInv
<1>5. \E z : IsList(z)'
  <2>1. CASE \E msg \in Packets : queue_push(t, msg)
    BY <1>3, <1>4, <2>1, PushSteps
  <2>2. CASE PushLink(t)
    <3>1. PICK n : n = op[t].node
      OBVIOUS
    <3> QED BY <1>3, <1>4, <2>2, <3>1, LinkSteps
  <2>3. CASE PushEnd(t)
    BY <1>3, <1>4, <2>3, PushEndSteps
  <2>4. CASE TryHead(t) \/ PopTake(t)
    BY <1>3, <1>4, <2>4, TakeSteps
  <2>5. CASE TryEnd(t) \/ PopEnd(t)
    BY <1>3, <1>4, <2>5, PopEndSteps
  <2>6. CASE PopFree(t)
    BY <1>3, <1>4, <2>6, FreeSteps
  <2>7. CASE SpuriousWakeup(t)
    BY <1>3, <2>7, WakeupSteps
  <2>8. CASE \/ queue_try_pop(t) \/ queue_pop(t) \/ queue_size(t)
             \/ PushLock(t) \/ TryLock(t) \/ PopLock(t) \/ PopWake(t) \/ SizeLock(t)
             \/ TryNothing(t) \/ PopSleep(t) \/ SizeEnd(t) \/ PopGoesOn(t)
    BY <1>3, <1>4, <2>8, PlainSteps
  <2> QED
    BY <2>1, <2>2, <2>3, <2>4, <2>5, <2>6, <2>7, <2>8 DEF Call
<1> QED
  BY <1>1, <1>2, <1>5 DEF QueueInv, ListInv


\* The list of the invariant is the one the model walks through.
LEMMA ListIsChain == \A s : IsList(s) => Chain = s
  BY ChainIs, HeapPointers DEF IsList, Chain

LEMMA InvWellFormed == QueueInv => QueueWellFormed
<1> SUFFICES ASSUME QueueInv, life = "live", mutex = NULL
             PROVE  ListWellFormed /\ NodesAccounted
  BY DEF QueueWellFormed
<1>1. PICK s : IsList(s)
  BY DEF QueueInv, ListInv
<1>2. Chain = s
  BY <1>1, ListIsChain
<1>3. /\ HeapTyped(heap) /\ Linked(heap, head, s) /\ Owned(heap, s, op)
      /\ size = Len(s) /\ tail = IF s = <<>> THEN NULL ELSE Last(s)
  BY <1>1 DEF IsList, Bounded, Inside
<1>4. ListWellFormed
  <2>1. s \in Seq(DOMAIN heap)
    BY <1>3 DEF Linked
  <2>2. head # NULL => head \in DOMAIN heap
    BY <1>3, <2>1 DEF Linked
  <2>3. tail # NULL => heap[tail].next = NULL
    <3>1. ASSUME s # <<>> PROVE heap[Last(s)].next = NULL
      <4>1. Len(s) \in 1 .. Len(s) /\ Last(s) = s[Len(s)]
        BY <2>1, <3>1 DEF Last
      <4> QED BY <1>3, <4>1 DEF Linked
    <3> QED BY <1>3, <3>1
  <2> QED BY <1>2, <1>3, <2>2, <2>3 DEF ListWellFormed
<1>5. \A t \in Threads :
        /\ op[t].step \in Holding <=> op[t].step \in {"push_lock", "pop_free"}
        /\ Held(t) = IF op[t].step \in Holding THEN {op[t].node} ELSE {}
  <2>1. \A t \in Threads : op[t].step \notin Critical
    BY QueueAssumption, NodesAssumption DEF QueueInv, MutexDiscipline
  <2> QED BY <2>1 DEF Held, Holding, Critical
<1>6. NodesAccounted
  <2>1. ToSet(s) \subseteq DOMAIN heap
    BY <1>3 DEF Linked, ToSet
  <2>2. DOMAIN heap = ToSet(s) \cup UNION {Held(t) : t \in Threads}
    <3>1. \A n \in DOMAIN heap \ ToSet(s) : \E t \in Threads : n \in Held(t)
      BY <1>3, <1>5 DEF Owned
    <3>2. \A t \in Threads : Held(t) \subseteq DOMAIN heap
      BY <1>3, <1>5 DEF Owned
    <3> QED BY <2>1, <3>1, <3>2
  <2>3. \A t \in Threads : Held(t) \cap ToSet(s) = {}
    BY <1>3, <1>5 DEF Owned
  <2>4. \A t, u \in Threads : t # u => Held(t) \cap Held(u) = {}
    BY <1>3, <1>5 DEF Owned
  <2> QED BY <1>2, <2>2, <2>3, <2>4 DEF NodesAccounted
<1> QED
  BY <1>4, <1>6

LEMMA InvFindsNode == QueueInv => PopFindsNode
<1> SUFFICES ASSUME QueueInv, NEW t \in Threads, op[t].step = "pop_take"
             PROVE  size > 0 /\ head \in DOMAIN heap
  BY DEF PopFindsNode
<1>1. life = "live"
  BY DEF QueueInv, Lives
<1>2. PICK s : IsList(s)
  BY <1>1 DEF QueueInv, ListInv
<1>3. Inside(mutex, op) = "pop_take"
  BY InsideIs DEF QueueInv, Critical
<1>4. size = Len(s) /\ s # <<>>
  BY <1>2, <1>3 DEF IsList, Bounded
<1> QED
  BY <1>2, <1>4 DEF IsList, Linked


-----------------------------------------------------------------------------
(* The queue as a FIFO. *)

\* What the model calls Contents and TakenBy, for any heap, list and calls.
ContentsOf(h, c, o, l) ==
  LET packets   == [i \in DOMAIN c |-> h[c[i]].data]
      Outgoing  == {t \in Threads : o[t].step \in {"try_end", "pop_end"}}
  IN  IF l = "destroyed" THEN <<>>
      ELSE IF \E t \in Threads : o[t].step = "push_end" THEN Front(packets)
      ELSE IF Outgoing # {}
           THEN <<h[o[CHOOSE t \in Outgoing : TRUE].node].data>> \o packets
           ELSE packets

TakenOf(h, o, tk) ==
  [t \in Threads |->
     IF o[t].step = "pop_free" THEN Append(tk[t], h[o[t].node].data) ELSE tk[t]]

\* The packets of a list, and what the queue holds while a thread is inside.
PacketsOf(h, s) == [i \in 1 .. Len(s) |-> h[s[i]].data]

Holds(h, s, in, node) ==
  IF in = "push_end" THEN Front(PacketsOf(h, s))
  ELSE IF in \in {"try_end", "pop_end"}
       THEN <<h[node].data>> \o PacketsOf(h, s)
       ELSE PacketsOf(h, s)

\* The thread that owns the mutex is the one between two assignments.
LEMMA ContentsHolds ==
  ASSUME NEW h, NEW s, s \in Seq(DOMAIN h), NEW o, NEW m,
         m \in Threads \cup {NULL},
         \A t \in Threads : o[t].step \in Critical <=> m = t,
         NEW l, l # "destroyed"
  PROVE  ContentsOf(h, s, o, l) = Holds(h, s, Inside(m, o), o[m].node)
<1>0. NULL \notin Threads
  BY QueueAssumption, NodesAssumption
<1> DEFINE packets == [i \in DOMAIN s |-> h[s[i]].data]
           Outgoing == {t \in Threads : o[t].step \in {"try_end", "pop_end"}}
<1>1. packets = PacketsOf(h, s)
  BY DEF PacketsOf
<1>2. (\E t \in Threads : o[t].step = "push_end") <=> Inside(m, o) = "push_end"
  BY <1>0 DEF Inside, Critical
<1>3. Outgoing # {} <=> Inside(m, o) \in {"try_end", "pop_end"}
  BY <1>0 DEF Inside, Critical
<1>4. Outgoing # {} => (CHOOSE t \in Outgoing : TRUE) = m
  <2>1. \A t \in Outgoing : t = m
    BY DEF Critical
  <2> HIDE DEF Outgoing
  <2> QED BY <2>1
<1>5. ContentsOf(h, s, o, l) =
        IF l = "destroyed" THEN <<>>
        ELSE IF \E t \in Threads : o[t].step = "push_end" THEN Front(packets)
        ELSE IF Outgoing # {}
             THEN <<h[o[CHOOSE t \in Outgoing : TRUE].node].data>> \o packets
             ELSE packets
  BY DEF ContentsOf
<1> HIDE DEF packets, Outgoing
<1> QED
  BY <1>1, <1>2, <1>3, <1>4, <1>5 DEF Holds

LEMMA PacketsTyped ==
  ASSUME NEW h, HeapTyped(h), NEW s \in Seq(DOMAIN h)
  PROVE  PacketsOf(h, s) \in Seq(Packets) /\ Len(PacketsOf(h, s)) = Len(s)
<1>1. \A i \in 1 .. Len(s) : h[s[i]].data \in Packets
  BY DEF HeapTyped
<1>2. Len(s) \in Nat
  OBVIOUS
<1> QED
  BY <1>1, <1>2 DEF PacketsOf

LEMMA PacketsAppend ==
  ASSUME NEW h, NEW s \in Seq(DOMAIN h), NEW n \in DOMAIN h, HeapTyped(h)
  PROVE  Front(PacketsOf(h, Append(s, n))) = PacketsOf(h, s)
<1> DEFINE t == Append(s, n)
           p == PacketsOf(h, t)
           q == PacketsOf(h, s)
<1>1. /\ t \in Seq(DOMAIN h) /\ Len(t) = Len(s) + 1 /\ Len(s) \in Nat
      /\ \A i \in 1 .. Len(s) : t[i] = s[i]
  OBVIOUS
<1>2. /\ p \in Seq(Packets) /\ Len(p) = Len(s) + 1
      /\ q \in Seq(Packets) /\ Len(q) = Len(s)
  BY <1>1, PacketsTyped
<1>3. \A i \in 1 .. Len(s) : p[i] = q[i]
  BY <1>1 DEF PacketsOf
<1> HIDE DEF t, p, q
<1>4. Front(p) = q
  BY <1>1, <1>2, <1>3 DEF Front
<1> QED
  BY <1>4 DEF t, p, q

LEMMA PacketsTail ==
  ASSUME NEW h, NEW s \in Seq(DOMAIN h), s # <<>>, HeapTyped(h)
  PROVE  <<h[s[1]].data>> \o PacketsOf(h, Tail(s)) = PacketsOf(h, s)
<1> DEFINE t == Tail(s)
           p == PacketsOf(h, t)
           q == PacketsOf(h, s)
           l == Len(s)
<1>1. /\ t \in Seq(DOMAIN h) /\ Len(t) = l - 1 /\ l \in Nat \ {0}
      /\ \A i \in 1 .. l - 1 : t[i] = s[i + 1]
  OBVIOUS
<1>2. /\ p \in Seq(Packets) /\ Len(p) = l - 1
      /\ q \in Seq(Packets) /\ Len(q) = l
  BY <1>1, PacketsTyped
<1>3. \A i \in 1 .. l - 1 : p[i] = q[i + 1]
  <2>1. \A i \in 1 .. l - 1 : p[i] = h[t[i]].data
    BY <1>1 DEF PacketsOf
  <2>2. \A i \in 1 .. l : q[i] = h[s[i]].data
    BY DEF PacketsOf
  <2>3. \A i \in 1 .. l - 1 : i + 1 \in 1 .. l
    BY <1>1
  <2> HIDE DEF t, p, q, l
  <2> QED BY <1>1, <2>1, <2>2, <2>3
<1>4. q[1] = h[s[1]].data /\ q[1] \in Packets
  <2>1. q[1] = h[s[1]].data
    BY <1>1 DEF PacketsOf
  <2>2. 1 \in 1 .. Len(q)
    BY <1>1, <1>2
  <2> HIDE DEF q
  <2> QED BY <1>2, <2>1, <2>2
<1> HIDE DEF t, p, q, l
<1>5. <<q[1]>> \o p = q
  BY <1>1, <1>2, <1>3, <1>4
<1> QED
  BY <1>4, <1>5 DEF t, p, q


\* What the queue holds and what the threads have got, through the list s.
LEMMA AbstractState ==
  ASSUME QueueInv, life = "live", NEW s, IsList(s)
  PROVE  /\ Contents = Holds(heap, s, Inside(mutex, op), op[mutex].node)
         /\ TakenBy = TakenOf(heap, op, taken)
<1>1. Chain = s
  BY ListIsChain
<1>2. Contents = ContentsOf(heap, s, op, life)
  BY <1>1 DEF Contents, ContentsOf
<1>3. s \in Seq(DOMAIN heap)
  BY DEF IsList, Linked
<1>4. /\ mutex \in Threads \cup {NULL}
      /\ \A t \in Threads : op[t].step \in Critical <=> mutex = t
  BY DEF QueueInv, MutexDiscipline
<1>5. Contents = Holds(heap, s, Inside(mutex, op), op[mutex].node)
  BY <1>2, <1>3, <1>4, ContentsHolds
<1>6. TakenBy = TakenOf(heap, op, taken)
  BY DEF TakenBy, TakenOf
<1> QED
  BY <1>5, <1>6

LEMMA AbstractNext ==
  ASSUME MutexDiscipline', life' = "live", NEW z, IsList(z)'
  PROVE  /\ Contents' = Holds(heap', z, Inside(mutex', op'), op'[mutex'].node)
         /\ TakenBy' = TakenOf(heap', op', taken')
<1>1. Chain' = z
  <2>1. Chain' = ChainOf(heap', head')
    BY DEF Chain
  <2>2. HeapTyped(heap') /\ Linked(heap', head', z)
    BY DEF IsList
  <2> QED BY <2>1, <2>2, ChainIs, HeapPointers
<1>2. Contents' = ContentsOf(heap', z, op', life')
  BY <1>1 DEF Contents, ContentsOf
<1>3. z \in Seq(DOMAIN heap')
  BY DEF IsList, Linked
<1>4. /\ mutex' \in Threads \cup {NULL}
      /\ \A t \in Threads : op'[t].step \in Critical <=> mutex' = t
  BY DEF MutexDiscipline
<1>5. life' # "destroyed"
  OBVIOUS
<1>6. Contents' = Holds(heap', z, Inside(mutex', op'), op'[mutex'].node)
  BY <1>2, <1>3, <1>4, <1>5, ContentsHolds
<1>7. TakenBy' = TakenOf(heap', op', taken')
  BY DEF TakenBy, TakenOf
<1> QED
  BY <1>6, <1>7


\* The packets of the list and of the node in hand are where they were.
LEMMA ContentsKept ==
  ASSUME MutexDiscipline, NEW s, Quiet,
         \A i \in 1 .. Len(s) : heap'[s[i]].data = heap[s[i]].data,
         \A u \in Threads : op[u].step \in {"try_end", "pop_end"} =>
                              heap'[op[u].node].data = heap[op[u].node].data
  PROVE  Holds(heap', s, Inside(mutex', op'), op'[mutex'].node)
         = Holds(heap, s, Inside(mutex, op), op[mutex].node)
<1>1. PacketsOf(heap', s) = PacketsOf(heap, s)
  BY DEF PacketsOf
<1>2. CASE mutex # NULL /\ mutex' = mutex /\ op'[mutex] = op[mutex]
  <2>1. mutex \in Threads
    BY <1>2 DEF MutexDiscipline
  <2>2. /\ Inside(mutex', op') = op[mutex].step
        /\ Inside(mutex, op) = op[mutex].step
    BY <1>2 DEF Inside
  <2>3. op'[mutex'].node = op[mutex].node
    BY <1>2
  <2>4. CASE op[mutex].step \in {"try_end", "pop_end"}
    <3>1. heap'[op[mutex].node].data = heap[op[mutex].node].data
      BY <2>1, <2>4
    <3> QED BY <1>1, <2>2, <2>3, <3>1 DEF Holds
  <2>5. CASE op[mutex].step \notin {"try_end", "pop_end"}
    BY <1>1, <2>2, <2>5 DEF Holds
  <2> QED BY <2>4, <2>5
<1>3. CASE Inside(mutex, op) \notin Middle /\ Inside(mutex', op') \notin Middle
  BY <1>1, <1>3 DEF Holds, Middle
<1> QED
  BY <1>2, <1>3 DEF Quiet

LEMMA TakenKept ==
  ASSUME \A u \in Threads :
           \/ /\ op'[u].step # "pop_free" /\ op[u].step # "pop_free"
              /\ taken'[u] = taken[u]
           \/ /\ op'[u] = op[u] /\ taken'[u] = taken[u]
              /\ heap'[op[u].node].data = heap[op[u].node].data
           \/ /\ op'[u].step # "pop_free" /\ op[u].step = "pop_free"
              /\ taken'[u] = Append(taken[u], heap[op[u].node].data)
  PROVE  TakenOf(heap', op', taken') = TakenOf(heap, op, taken)
  BY DEF TakenOf

AbstractSame == UNCHANGED <<Contents, TakenBy>>

\* A step that leaves the list and the deliveries alone shows nothing.
LEMMA PlainHidden ==
  ASSUME QueueInv, life = "live", NEW t \in Threads, NEW s, IsList(s),
         \/ queue_try_pop(t) \/ queue_pop(t) \/ queue_size(t)
         \/ PushLock(t) \/ TryLock(t) \/ PopLock(t) \/ PopWake(t) \/ SizeLock(t)
         \/ TryNothing(t) \/ PopSleep(t) \/ SizeEnd(t) \/ PopGoesOn(t),
         MutexDiscipline', life' = "live"
  PROVE  AbstractSame
<1>0. MutexDiscipline
  BY DEF QueueInv
<1>1. IsList(s)' /\ Quiet
  BY <1>0, PlainSteps
<1>2. /\ UNCHANGED <<heap, taken>>
      /\ \E to, n : At(t, to, n) /\ to # "pop_free"
      /\ op[t].step # "pop_free"
  BY DEF queue_try_pop, queue_pop, queue_size, PushLock, TryLock, PopLock,
         PopWake, SizeLock, TryNothing, PopSleep, SizeEnd, PopGoesOn, Begin,
         Acquire, list
<1>3. \A u \in Threads :
        \/ op'[u] = op[u]
        \/ op'[u].step # "pop_free" /\ op[u].step # "pop_free"
  <2>1. PICK to, n : At(t, to, n) /\ to # "pop_free"
    BY <1>2
  <2>2. /\ op'[t] = [step |-> to, node |-> n]
        /\ \A u \in Threads : u # t => op'[u] = op[u]
    BY <1>0, <2>1, AtIs
  <2>3. op'[t].step # "pop_free" /\ op[t].step # "pop_free"
    BY <1>2, <2>1, <2>2
  <2> QED BY <2>2, <2>3
<1>4. Holds(heap', s, Inside(mutex', op'), op'[mutex'].node)
        = Holds(heap, s, Inside(mutex, op), op[mutex].node)
  BY <1>0, <1>1, <1>2, ContentsKept
<1>5. TakenOf(heap', op', taken') = TakenOf(heap, op, taken)
  BY <1>2, <1>3, TakenKept
<1> QED
  BY <1>1, <1>4, <1>5, AbstractState, AbstractNext DEF AbstractSame

LEMMA WakeupHidden ==
  ASSUME NEW t \in Threads, SpuriousWakeup(t)
  PROVE  AbstractSame
  BY DEF SpuriousWakeup, list, AbstractSame, Contents, TakenBy, Chain

LEMMA PushHidden ==
  ASSUME QueueInv, life = "live", NEW t \in Threads, NEW s, IsList(s),
         NEW msg \in Packets, queue_push(t, msg), MutexDiscipline', life' = "live"
  PROVE  AbstractSame
<1>0. MutexDiscipline
  BY DEF QueueInv
<1>1. IsList(s)'
  BY <1>0, PushSteps
<1>2. /\ UNCHANGED <<taken, mutex>> /\ op[t].step = "idle"
      /\ \E n : At(t, "push_lock", n)
      /\ \A m \in DOMAIN heap : heap'[m] = heap[m]
  BY DEF queue_push
<1>3. op'[t].step = "push_lock" /\ \A u \in Threads : u # t => op'[u] = op[u]
  <2>1. PICK n : At(t, "push_lock", n)
    BY <1>2
  <2>2. /\ op'[t] = [step |-> "push_lock", node |-> n]
        /\ \A u \in Threads : u # t => op'[u] = op[u]
    BY <1>0, <2>1, AtIs
  <2> QED BY <2>2
<1>4. mutex # t
  BY <1>0, <1>2 DEF MutexDiscipline, Critical
<1>5. Quiet
  <2>1. mutex \in Threads \cup {NULL} /\ NULL \notin Threads
    BY <1>0, QueueAssumption, NodesAssumption DEF MutexDiscipline
  <2> QED BY <1>2, <1>3, <1>4, <2>1 DEF Quiet, Inside, Middle
<1>6. \A u \in Threads : op[u].step \in Holding => op[u].node \in DOMAIN heap
  BY DEF IsList, Owned
<1>7. \A i \in 1 .. Len(s) : s[i] \in DOMAIN heap
  BY DEF IsList, Linked
<1>8. Holds(heap', s, Inside(mutex', op'), op'[mutex'].node)
        = Holds(heap, s, Inside(mutex, op), op[mutex].node)
  <2>1. \A u \in Threads : op[u].step \in {"try_end", "pop_end"} =>
          heap'[op[u].node].data = heap[op[u].node].data
    BY <1>2, <1>6 DEF Holding
  <2> QED BY <1>0, <1>2, <1>5, <1>7, <2>1, ContentsKept
<1>9. TakenOf(heap', op', taken') = TakenOf(heap, op, taken)
  <2>1. \A u \in Threads : op[u].step = "pop_free" =>
          heap'[op[u].node].data = heap[op[u].node].data
    BY <1>2, <1>6 DEF Holding
  <2>2. \A u \in Threads :
          \/ /\ op'[u].step # "pop_free" /\ op[u].step # "pop_free"
             /\ taken'[u] = taken[u]
          \/ /\ op'[u] = op[u] /\ taken'[u] = taken[u]
             /\ heap'[op[u].node].data = heap[op[u].node].data
    BY <1>2, <1>3, <2>1
  <2> QED BY <2>2, TakenKept
<1> QED
  BY <1>1, <1>8, <1>9, AbstractState, AbstractNext DEF AbstractSame

LEMMA FreeHidden ==
  ASSUME QueueInv, life = "live", NEW t \in Threads, NEW s, IsList(s),
         PopFree(t), MutexDiscipline', life' = "live"
  PROVE  AbstractSame
<1>0. MutexDiscipline
  BY DEF QueueInv
<1>1. IsList(s)'
  BY <1>0, FreeSteps
<1>2. /\ UNCHANGED mutex /\ op[t].step = "pop_free"
      /\ At(t, "idle", NULL)
      /\ taken' = [taken EXCEPT ![t] = Append(@, heap[op[t].node].data)]
      /\ \A m \in DOMAIN heap \ {op[t].node} : heap'[m] = heap[m]
      /\ DOMAIN taken = Threads
  BY DEF PopFree, Deliver, Free, QueueInv, Lives
<1>3. op'[t].step = "idle" /\ \A u \in Threads : u # t => op'[u] = op[u]
  <2>1. At(t, "idle", NULL)
    BY <1>2
  <2>2. /\ op'[t] = [step |-> "idle", node |-> NULL]
        /\ \A u \in Threads : u # t => op'[u] = op[u]
    BY <1>0, <2>1, AtIs
  <2> QED BY <2>2
<1>4. mutex # t
  BY <1>0, <1>2 DEF MutexDiscipline, Critical
<1>5. Quiet
  <2>1. mutex \in Threads \cup {NULL} /\ NULL \notin Threads
    BY <1>0, QueueAssumption, NodesAssumption DEF MutexDiscipline
  <2> QED BY <1>2, <1>3, <1>4, <2>1 DEF Quiet, Inside, Middle
<1>6. \A u \in Threads \ {t} : op[u].step \in Holding =>
        op[u].node \in DOMAIN heap \ {op[t].node}
  BY <1>2 DEF IsList, Owned, Holding
<1>7. \A i \in 1 .. Len(s) : s[i] \in DOMAIN heap \ {op[t].node}
  <2>1. op[t].node \notin ToSet(s)
    BY <1>2 DEF IsList, Owned, Holding
  <2> QED BY <2>1 DEF IsList, Linked, ToSet
<1>8. Holds(heap', s, Inside(mutex', op'), op'[mutex'].node)
        = Holds(heap, s, Inside(mutex, op), op[mutex].node)
  <2>1. \A u \in Threads : op[u].step \in {"try_end", "pop_end"} =>
          heap'[op[u].node].data = heap[op[u].node].data
    BY <1>2, <1>6 DEF Holding
  <2>2. \A i \in 1 .. Len(s) : heap'[s[i]].data = heap[s[i]].data
    BY <1>2, <1>7
  <2> QED BY <1>0, <1>5, <2>1, <2>2, ContentsKept
<1>9. TakenOf(heap', op', taken') = TakenOf(heap, op, taken)
  <2>1. \A u \in Threads \ {t} : op[u].step = "pop_free" =>
          heap'[op[u].node].data = heap[op[u].node].data
    BY <1>2, <1>6 DEF Holding
  <2>2. taken'[t] = Append(taken[t], heap[op[t].node].data)
    BY <1>2
  <2>3. \A u \in Threads \ {t} : taken'[u] = taken[u]
    BY <1>2
  <2>4. \A u \in Threads :
          \/ /\ op'[u].step # "pop_free" /\ op[u].step # "pop_free"
             /\ taken'[u] = taken[u]
          \/ /\ op'[u] = op[u] /\ taken'[u] = taken[u]
             /\ heap'[op[u].node].data = heap[op[u].node].data
          \/ /\ op'[u].step # "pop_free" /\ op[u].step = "pop_free"
             /\ taken'[u] = Append(taken[u], heap[op[u].node].data)
    BY <1>2, <1>3, <2>1, <2>2, <2>3
  <2> QED BY <2>4, TakenKept
<1> QED
  BY <1>1, <1>8, <1>9, AbstractState, AbstractNext DEF AbstractSame


LEMMA LinkHidden ==
  ASSUME QueueInv, life = "live", NEW t \in Threads, NEW s, IsList(s),
         PushLink(t), MutexDiscipline', life' = "live"
  PROVE  AbstractSame
<1>0. MutexDiscipline
  BY DEF QueueInv
<1>1. PICK n : n = op[t].node
  OBVIOUS
<1>2. /\ IsList(Append(s, n))' /\ n \in DOMAIN heap \ ToSet(s)
      /\ DOMAIN heap' = DOMAIN heap
      /\ \A m \in DOMAIN heap : heap'[m].data = heap[m].data
  BY <1>0, <1>1, LinkSteps
<1>3. /\ UNCHANGED <<taken, mutex>> /\ op[t].step = "push_link"
      /\ At(t, "push_end", n)
  BY <1>1 DEF PushLink
<1>4. /\ op'[t] = [step |-> "push_end", node |-> n]
      /\ \A u \in Threads : u # t => op'[u] = op[u]
  BY <1>0, <1>3, AtIs
<1>5. mutex = t /\ t # NULL /\ Inside(mutex, op) = "push_link"
  BY <1>0, <1>3, InsideIs DEF Critical
<1>6. Inside(mutex', op') = "push_end"
  BY <1>3, <1>4, <1>5 DEF Inside
<1>7. s \in Seq(DOMAIN heap) /\ HeapTyped(heap')
  BY <1>2 DEF IsList, Linked
<1>8. Front(PacketsOf(heap', Append(s, n))) = PacketsOf(heap', s)
  BY <1>2, <1>7, PacketsAppend
<1>9. PacketsOf(heap', s) = PacketsOf(heap, s)
  BY <1>2, <1>7 DEF PacketsOf
<1>10. TakenOf(heap', op', taken') = TakenOf(heap, op, taken)
  <2>1. \A u \in Threads : op[u].step = "pop_free" =>
          heap'[op[u].node].data = heap[op[u].node].data
    BY <1>2 DEF IsList, Owned, Holding
  <2>2. op'[t].step # "pop_free"
    BY <1>4
  <2>3. \A u \in Threads :
          \/ /\ op'[u].step # "pop_free" /\ op[u].step # "pop_free"
             /\ taken'[u] = taken[u]
          \/ /\ op'[u] = op[u] /\ taken'[u] = taken[u]
             /\ heap'[op[u].node].data = heap[op[u].node].data
    BY <1>3, <1>4, <2>1, <2>2
  <2> QED BY <2>3, TakenKept
<1>11. /\ Contents = PacketsOf(heap, s)
       /\ TakenBy = TakenOf(heap, op, taken)
  BY <1>5, AbstractState DEF Holds
<1>12. /\ Contents' = Front(PacketsOf(heap', Append(s, n)))
       /\ TakenBy' = TakenOf(heap', op', taken')
  BY <1>2, <1>6, AbstractNext DEF Holds
<1> QED
  BY <1>8, <1>9, <1>10, <1>11, <1>12 DEF AbstractSame

LEMMA TakeHidden ==
  ASSUME QueueInv, life = "live", NEW t \in Threads, NEW s, IsList(s),
         TryHead(t) \/ PopTake(t), MutexDiscipline', life' = "live"
  PROVE  AbstractSame
<1>0. MutexDiscipline
  BY DEF QueueInv
<1>1. /\ s # <<>> /\ IsList(Tail(s))'
      /\ mutex = t /\ op'[t].node = s[1] /\ heap' = heap
      /\ op[t].step \in {"try_head", "pop_take"}
      /\ op'[t].step \in {"try_end", "pop_end"}
  BY <1>0, TakeSteps
<1>2. UNCHANGED <<taken, mutex>> /\ \E to : At(t, to, head)
  BY DEF TryHead, PopTake, UnlinkHead
<1>3. \A u \in Threads : u # t => op'[u] = op[u]
  BY <1>0, <1>2, AtIs
<1>4. t # NULL
  BY QueueAssumption, NodesAssumption
<1>5. /\ Inside(mutex, op) \notin Middle
      /\ Inside(mutex', op') \in {"try_end", "pop_end"}
  BY <1>1, <1>2, <1>4 DEF Inside, Middle
<1>6. s \in Seq(DOMAIN heap) /\ HeapTyped(heap)
  BY DEF IsList, Linked
<1>7. <<heap[s[1]].data>> \o PacketsOf(heap, Tail(s)) = PacketsOf(heap, s)
  BY <1>1, <1>6, PacketsTail
<1>8. TakenOf(heap', op', taken') = TakenOf(heap, op, taken)
  <2>1. \A u \in Threads :
          \/ /\ op'[u].step # "pop_free" /\ op[u].step # "pop_free"
             /\ taken'[u] = taken[u]
          \/ /\ op'[u] = op[u] /\ taken'[u] = taken[u]
             /\ heap'[op[u].node].data = heap[op[u].node].data
    BY <1>1, <1>2, <1>3
  <2> QED BY <2>1, TakenKept
<1>9. /\ Contents = PacketsOf(heap, s)
      /\ TakenBy = TakenOf(heap, op, taken)
  BY <1>5, AbstractState DEF Holds, Middle
<1>10. /\ Contents' = <<heap'[op'[mutex'].node].data>> \o PacketsOf(heap', Tail(s))
       /\ TakenBy' = TakenOf(heap', op', taken')
  BY <1>1, <1>5, AbstractNext DEF Holds
<1>11. op'[mutex'].node = s[1]
  BY <1>1, <1>2
<1> QED
  BY <1>1, <1>7, <1>8, <1>9, <1>10, <1>11 DEF AbstractSame

\* A push counts from the release of the mutex on.
LEMMA PushEndPushes ==
  ASSUME QueueInv, life = "live", NEW t \in Threads, NEW s, IsList(s),
         PushEnd(t), MutexDiscipline', life' = "live"
  PROVE  /\ \E p \in Packets : Contents' = Append(Contents, p)
         /\ TakenBy' = TakenBy
<1>0. MutexDiscipline
  BY DEF QueueInv
<1>1. IsList(s)' /\ s # <<>> /\ mutex = t
  BY <1>0, PushEndSteps
<1>2. /\ UNCHANGED <<taken, heap>> /\ mutex' = NULL /\ op[t].step = "push_end"
      /\ At(t, "idle", NULL)
  BY DEF PushEnd
<1>3. /\ op'[t] = [step |-> "idle", node |-> NULL]
      /\ \A u \in Threads : u # t => op'[u] = op[u]
  BY <1>0, <1>2, AtIs
<1>4. Inside(mutex, op) = "push_end" /\ Inside(mutex', op') = "idle"
  BY <1>0, <1>2, InsideIs DEF Critical, Inside
<1>5. s \in Seq(DOMAIN heap) /\ HeapTyped(heap)
  BY DEF IsList, Linked
<1> DEFINE p == PacketsOf(heap, s)
<1>6. p \in Seq(Packets) /\ Len(p) = Len(s) /\ Len(s) \in Nat \ {0}
  BY <1>1, <1>5, PacketsTyped
<1>7. p = Append(Front(p), Last(p)) /\ Last(p) \in Packets
  <2> HIDE DEF p
  <2>1. Len(p) \in Nat \ {0}
    BY <1>6
  <2> QED BY <1>6, <2>1 DEF Front, Last
<1>8. TakenOf(heap', op', taken') = TakenOf(heap, op, taken)
  <2>1. op'[t].step # "pop_free"
    BY <1>3
  <2>2. \A u \in Threads :
          \/ /\ op'[u].step # "pop_free" /\ op[u].step # "pop_free"
             /\ taken'[u] = taken[u]
          \/ /\ op'[u] = op[u] /\ taken'[u] = taken[u]
             /\ heap'[op[u].node].data = heap[op[u].node].data
    BY <1>2, <1>3, <2>1
  <2> QED BY <2>2, TakenKept
<1>9. Contents = Front(p) /\ TakenBy = TakenOf(heap, op, taken)
  BY <1>4, AbstractState DEF Holds
<1>10. Contents' = p /\ TakenBy' = TakenOf(heap', op', taken')
  BY <1>1, <1>2, <1>4, AbstractNext DEF Holds
<1> QED
  BY <1>7, <1>8, <1>9, <1>10

\* A packet is its consumer's from the release of the mutex on.
LEMMA PopEndPops ==
  ASSUME QueueInv, life = "live", NEW t \in Threads, NEW s, IsList(s),
         TryEnd(t) \/ PopEnd(t), MutexDiscipline', life' = "live"
  PROVE  /\ Contents # <<>> /\ Contents' = Tail(Contents)
         /\ TakenBy' = [TakenBy EXCEPT ![t] = Append(@, Head(Contents))]
<1>0. MutexDiscipline
  BY DEF QueueInv
<1>1. IsList(s)' /\ mutex = t
  BY <1>0, PopEndSteps
<1>2. /\ mutex' = NULL /\ op[t].step \in {"try_end", "pop_end"}
      /\ \E to, n : At(t, to, n)
      /\ DOMAIN taken = Threads
  BY DEF TryEnd, PopEnd, QueueInv, Lives
<1>3. \A u \in Threads : u # t => op'[u] = op[u]
  <2>1. PICK to, n : At(t, to, n)
    BY <1>2
  <2> QED BY <1>0, <2>1, AtIs
<1>4. /\ Inside(mutex, op) \in {"try_end", "pop_end"}
      /\ Inside(mutex', op') = "idle"
  BY <1>0, <1>2, InsideIs DEF Critical, Inside
<1>5. /\ s \in Seq(DOMAIN heap) /\ HeapTyped(heap)
      /\ op[t].node \in DOMAIN heap \ ToSet(s)
  BY <1>2 DEF IsList, Linked, Owned, Holding
<1> DEFINE p == PacketsOf(heap, s)
           d == heap[op[t].node].data
<1>6. p \in Seq(Packets) /\ d \in Packets
  BY <1>5, PacketsTyped DEF HeapTyped
<1>7. /\ <<d>> \o p # <<>> /\ Tail(<<d>> \o p) = p /\ Head(<<d>> \o p) = d
  <2> HIDE DEF p, d
  <2> QED BY <1>6
<1>8. \A m \in DOMAIN heap \ {op[t].node} : heap'[m] = heap[m]
  BY DEF TryEnd, PopEnd, Free
<1>9. PacketsOf(heap', s) = p
  <2>1. \A i \in 1 .. Len(s) : s[i] \in DOMAIN heap \ {op[t].node}
    BY <1>5 DEF ToSet
  <2> QED BY <1>8, <2>1 DEF PacketsOf
<1>10. TakenOf(heap', op', taken')
         = [TakenOf(heap, op, taken) EXCEPT ![t] = Append(@, d)]
  <2> DEFINE before == TakenOf(heap, op, taken)
             after == TakenOf(heap', op', taken')
  <2>1. before[t] = taken[t]
    BY <1>2 DEF TakenOf
  <2>2. after[t] = Append(taken[t], d)
    <3>1. CASE TryEnd(t)
      <4>1. At(t, "idle", NULL) /\ taken' = [taken EXCEPT ![t] = Append(@, d)]
        BY <3>1 DEF TryEnd, Deliver
      <4>2. op'[t] = [step |-> "idle", node |-> NULL]
        BY <1>0, <4>1, AtIs
      <4> HIDE DEF d
      <4> QED BY <1>2, <4>1, <4>2 DEF TakenOf
    <3>2. CASE PopEnd(t)
      <4>1. At(t, "pop_free", op[t].node) /\ taken' = taken /\ heap' = heap
        BY <3>2 DEF PopEnd
      <4>2. op'[t] = [step |-> "pop_free", node |-> op[t].node]
        BY <1>0, <4>1, AtIs
      <4> QED BY <4>1, <4>2 DEF TakenOf
    <3> QED BY <3>1, <3>2
  <2>3. ASSUME NEW u \in Threads, u # t
        PROVE  after[u] = before[u]
    <3>1. op'[u] = op[u]
      BY <1>3, <2>3
    <3>2. taken'[u] = taken[u]
      BY <2>3, <1>2 DEF TryEnd, PopEnd, Deliver
    <3>3. op[u].step = "pop_free" => op[u].node \in DOMAIN heap \ {op[t].node}
      BY <1>2, <2>3 DEF IsList, Owned, Holding
    <3>4. op[u].step = "pop_free" => heap'[op[u].node] = heap[op[u].node]
      BY <1>8, <3>3
    <3> QED BY <3>1, <3>2, <3>4 DEF TakenOf
  <2>4. /\ before = [u \in Threads |-> before[u]]
        /\ after = [u \in Threads |-> after[u]]
    BY DEF TakenOf
  <2>5. PICK v : v = Append(taken[t], d)
    OBVIOUS
  <2> HIDE DEF before, after, d
  <2>6. after = [before EXCEPT ![t] = v]
    BY <2>2, <2>3, <2>4, <2>5
  <2>7. [before EXCEPT ![t] = v] = [before EXCEPT ![t] = Append(@, d)]
    BY <2>1, <2>5, Zenon
  <2> QED BY <2>6, <2>7 DEF before, after
<1>11. Contents = <<d>> \o p /\ TakenBy = TakenOf(heap, op, taken)
  BY <1>1, <1>4, AbstractState DEF Holds
<1>12. Contents' = PacketsOf(heap', s) /\ TakenBy' = TakenOf(heap', op', taken')
  BY <1>1, <1>4, AbstractNext DEF Holds
<1> HIDE DEF p, d
<1> QED
  BY <1>7, <1>9, <1>10, <1>11, <1>12


\* Every step of a call is a step of the FIFO, or shows nothing of it.
LEMMA FifoCall ==
  ASSUME QueueInv, life = "live", NEW t \in Threads, Call(t)
  PROVE  [FifoOf!Next]_(FifoOf!vars)
<1>1. PICK s : IsList(s)
  BY DEF QueueInv, ListInv
<1>2. MutexDiscipline'
  BY MutexCall DEF QueueInv
<1>3. life' = "live"
  BY DEF Call, queue_push, PushLock, PushLink, PushEnd, queue_try_pop, TryLock,
         TryNothing, TryHead, TryEnd, queue_pop, PopLock, PopSleep,
         SpuriousWakeup, PopWake, PopGoesOn, PopTake, PopEnd, PopFree,
         queue_size, SizeLock, SizeEnd, Begin, Acquire, UnlinkHead
<1>4. (life = "destroyed")' = (life = "destroyed") /\ ~(life = "destroyed")
  BY <1>3
<1>5. AbstractSame => [FifoOf!Next]_(FifoOf!vars)
  BY <1>4 DEF AbstractSame, FifoOf!vars
<1>6. CASE \E msg \in Packets : queue_push(t, msg)
  BY <1>1, <1>2, <1>3, <1>5, <1>6, PushHidden
<1>7. CASE PushLink(t)
  BY <1>1, <1>2, <1>3, <1>5, <1>7, LinkHidden
<1>8. CASE PushEnd(t)
  <2>1. /\ \E p \in Packets : Contents' = Append(Contents, p)
        /\ TakenBy' = TakenBy
    BY <1>1, <1>2, <1>3, <1>8, PushEndPushes
  <2>2. FifoOf!Push
    BY <1>4, <2>1 DEF FifoOf!Push
  <2> QED BY <2>2 DEF FifoOf!Next
<1>9. CASE TryHead(t) \/ PopTake(t)
  BY <1>1, <1>2, <1>3, <1>5, <1>9, TakeHidden
<1>10. CASE TryEnd(t) \/ PopEnd(t)
  <2>1. /\ Contents # <<>> /\ Contents' = Tail(Contents)
        /\ TakenBy' = [TakenBy EXCEPT ![t] = Append(@, Head(Contents))]
    BY <1>1, <1>2, <1>3, <1>10, PopEndPops
  <2>2. FifoOf!Pop(t)
    BY <1>4, <2>1 DEF FifoOf!Pop
  <2> QED BY <2>2 DEF FifoOf!Next
<1>11. CASE PopFree(t)
  BY <1>1, <1>2, <1>3, <1>5, <1>11, FreeHidden
<1>12. CASE SpuriousWakeup(t)
  BY <1>5, <1>12, WakeupHidden
<1>13. CASE \/ queue_try_pop(t) \/ queue_pop(t) \/ queue_size(t)
            \/ PushLock(t) \/ TryLock(t) \/ PopLock(t) \/ PopWake(t) \/ SizeLock(t)
            \/ TryNothing(t) \/ PopSleep(t) \/ SizeEnd(t) \/ PopGoesOn(t)
  BY <1>1, <1>2, <1>3, <1>5, <1>13, PlainHidden
<1> QED
  BY <1>6, <1>7, <1>8, <1>9, <1>10, <1>11, <1>12, <1>13 DEF Call

LEMMA EmptyContents ==
  ASSUME NEW o, \A t \in Threads : o[t].step = "idle", NEW l, NEW tk,
         tk = [t \in Threads |-> tk[t]]
  PROVE  /\ ContentsOf([n \in {} |-> NULL], <<>>, o, l) = <<>>
         /\ \A h : TakenOf(h, o, tk) = tk
<1>1. [i \in DOMAIN <<>> |-> [n \in {} |-> NULL][<<>>[i]].data] = <<>>
  OBVIOUS
<1>2. {t \in Threads : o[t].step \in {"try_end", "pop_end"}} = {}
  OBVIOUS
<1>3. ~ \E t \in Threads : o[t].step = "push_end"
  OBVIOUS
<1>4. ContentsOf([n \in {} |-> NULL], <<>>, o, l) = <<>>
  BY <1>1, <1>2, <1>3 DEF ContentsOf
<1>5. \A h : TakenOf(h, o, tk) = tk
  BY DEF TakenOf
<1> QED
  BY <1>4, <1>5

\* Before queue_init the queue is empty, and queue_init leaves it so.
LEMMA FifoInit == QueueInit => FifoOf!Init
<1> SUFFICES ASSUME QueueInit PROVE FifoOf!Init
  OBVIOUS
<1>1. /\ head = NULL /\ heap = [n \in {} |-> NULL] /\ life = "raw"
      /\ taken = [t \in Threads |-> <<>>]
      /\ \A t \in Threads : op[t].step = "idle"
  BY DEF QueueInit
<1>2. Chain = <<>>
  BY <1>1, ChainEmpty DEF Chain
<1>3. Contents = ContentsOf(heap, Chain, op, life)
  BY DEF Contents, ContentsOf
<1>4. TakenBy = TakenOf(heap, op, taken)
  BY DEF TakenBy, TakenOf
<1>5. taken = [t \in Threads |-> taken[t]]
  BY <1>1
<1>6. Contents = <<>> /\ TakenBy = taken
  BY <1>1, <1>2, <1>3, <1>4, <1>5, EmptyContents
<1> QED
  BY <1>1, <1>6 DEF FifoOf!Init

LEMMA FifoInitialise ==
  QueueInv /\ life = "raw" /\ queue_init => [FifoOf!Next]_(FifoOf!vars)
<1> SUFFICES ASSUME QueueInv, life = "raw", queue_init
             PROVE  UNCHANGED FifoOf!vars
  OBVIOUS
<1>0. head = NULL
  <2>1. PICK s : IsList(s)
    BY DEF QueueInv, ListInv
  <2>2. DOMAIN heap = {}
    BY DEF QueueInv, Lives
  <2>3. s = <<>>
    BY <2>1, <2>2 DEF IsList, Linked
  <2> QED BY <2>1, <2>3 DEF IsList, Linked
<1>1. UNCHANGED <<head, heap, op, taken>> /\ life' = "live"
  BY <1>0 DEF queue_init
<1>2. Chain' = Chain
  BY <1>1 DEF Chain
<1>3. ContentsOf(heap, Chain, op, life') = ContentsOf(heap, Chain, op, life)
  BY <1>1 DEF ContentsOf
<1>4. /\ Contents = ContentsOf(heap, Chain, op, life)
      /\ Contents' = ContentsOf(heap', Chain', op', life')
  BY DEF Contents, ContentsOf
<1>5. TakenBy' = TakenBy
  BY <1>1 DEF TakenBy
<1> QED
  BY <1>1, <1>2, <1>3, <1>4, <1>5 DEF FifoOf!vars

-----------------------------------------------------------------------------
(* The clients. *)

\* Consumers that have been woken and wait for the mutex.
Woken == {t \in Threads \ waiting : op[t].step = "pop_wait"}

\* A consumer inside queue_pop has a packet to its name that it has not
\* taken off the list yet.
Popping == \E t \in Threads : op[t].step \in {"pop_test", "pop_take", "pop_end"}

\* While a consumer is asleep, each packet is spoken for: by a consumer that
\* has been woken, or by the one that is inside.
PacketsSpokenFor ==
  waiting # {} =>
    size <= Cardinality(Woken) + (IF Popping THEN 1 ELSE 0)

PushesCounted == pushed \in Nat

WakeupInv == MutexDiscipline /\ PushesCounted /\ PacketsSpokenFor

-----------------------------------------------------------------------------
(* The mutex. *)

LEMMA ClientsAreThreads ==
  ASSUME NEW t \in Producers \cup Consumers
  PROVE  t \in Threads /\ t # NULL /\ NULL \notin Threads
  BY ClientsAssumption, QueueAssumption, NodesAssumption

\* What the producers and consumers do with the queue are its calls.
LEMMA StepsAreCalls ==
  ASSUME PushesCounted, ClientsNext
  PROVE  \/ Initialise
         \/ /\ life = "live"
            /\ \E t \in Threads : Call(t)
            /\ PushesCounted'
<1>1. ASSUME NEW p \in Producers, Push(p)
      PROVE  Call(p) /\ PushesCounted'
  <2>1. pushed + 1 \in Packets
    BY <1>1, ClientsAssumption DEF Push, PushesCounted
  <2> QED BY <1>1, <2>1 DEF Push, PushesCounted, Call
<1>2. ASSUME NEW p \in Producers, Produce(p)
      PROVE  Call(p) /\ PushesCounted'
  BY <1>2 DEF Produce, Call, PushesCounted
<1>3. ASSUME NEW c \in Consumers,
             TryPop(c) \/ CallPop(c) \/ Pop(c) \/ Wakeup(c) \/ Size(c)
      PROVE  Call(c) /\ PushesCounted'
  BY <1>3 DEF TryPop, CallPop, Pop, Wakeup, Size, Call, PushesCounted
<1> QED
  BY <1>1, <1>2, <1>3, ClientsAreThreads DEF ClientsNext

LEMMA MutexInit == ClientsInit => MutexDiscipline /\ PushesCounted
  BY MutexQueueInit DEF ClientsInit, PushesCounted

LEMMA MutexStep ==
  MutexDiscipline /\ PushesCounted /\ [ClientsNext]_clientVars
    => MutexDiscipline' /\ PushesCounted'
<1> SUFFICES ASSUME MutexDiscipline, PushesCounted, [ClientsNext]_clientVars
             PROVE  MutexDiscipline' /\ PushesCounted'
  OBVIOUS
<1>1. CASE ClientsNext
  <2>1. CASE Initialise
    BY <2>1, MutexInitialise DEF Initialise, PushesCounted
  <2>2. CASE \E t \in Threads : Call(t) /\ PushesCounted'
    BY <2>2, MutexCall
  <2> QED BY <1>1, <2>1, <2>2, StepsAreCalls
<1>2. CASE UNCHANGED clientVars
  BY <1>2 DEF clientVars, queueVars, list, MutexDiscipline, PushesCounted
<1> QED
  BY <1>1, <1>2

-----------------------------------------------------------------------------
(* The condition variable. *)

LEMMA WokenFinite ==
  /\ IsFiniteSet(Woken)
  /\ Cardinality(Woken) \in Nat
  /\ Cardinality(Woken)' \in Nat
<1>1. Woken \subseteq Threads /\ Woken' \subseteq Threads
  BY DEF Woken
<1> QED
  BY <1>1, QueueAssumption, NodesAssumption, FS_Subset, FS_CardinalityType

\* With the mutex free nobody is popping; with a thread inside, nobody else.
LEMMA OneInside ==
  ASSUME MutexDiscipline, NULL \notin Threads
  PROVE  /\ mutex = NULL => ~Popping
         /\ Popping => mutex \in Threads
                        /\ op[mutex].step \in {"pop_test", "pop_take", "pop_end"}
  BY DEF MutexDiscipline, Popping, Critical

\* A step that leaves the sleepers, the woken and the count of packets alone,
\* or takes a packet off that is not spoken for by the thread itself.
LEMMA QuietStep ==
  ASSUME PacketsSpokenFor, size \in Int, size' \in Int, size' <= size,
         UNCHANGED waiting, Woken' = Woken, Popping => Popping'
  PROVE  PacketsSpokenFor'
<1>1. Cardinality(Woken) \in Nat /\ Cardinality(Woken)' = Cardinality(Woken)
  BY WokenFinite
<1> QED
  BY <1>1 DEF PacketsSpokenFor

\* A step of a thread between two steps that are no part of queue_pop.
LEMMA ElsewhereStep ==
  ASSUME MutexDiscipline, PacketsSpokenFor, NEW t, NEW to, Moves(t, to),
         size' <= size, UNCHANGED waiting,
         op[t].step \notin {"pop_wait", "pop_test", "pop_take", "pop_end"},
         to # "pop_wait"
  PROVE  PacketsSpokenFor'
<1>1. Woken' = Woken
  BY DEF MutexDiscipline, Moves, Woken
<1>2. Popping => Popping'
  BY DEF MutexDiscipline, Moves, Popping
<1>3. size \in Int /\ size' \in Int
  BY DEF MutexDiscipline, Moves
<1> QED
  BY <1>1, <1>2, <1>3, QuietStep

\* Someone is woken: one sleeper less, one more to look.
LEMMA WokenOne ==
  ASSUME NEW w \in waiting, MutexDiscipline, waiting' = waiting \ {w},
         \A t \in Threads :
           (op'[t].step = "pop_wait") <=> (op[t].step = "pop_wait")
  PROVE  Cardinality(Woken)' = Cardinality(Woken) + 1
<1>1. w \notin Woken /\ Woken' = Woken \cup {w}
  BY DEF Woken, MutexDiscipline
<1> QED
  BY <1>1, WokenFinite, FS_AddElement

LEMMA PushEndWakes ==
  ASSUME MutexDiscipline, PacketsSpokenFor, NEW p \in Threads, PushEnd(p),
         NULL \notin Threads
  PROVE  PacketsSpokenFor'
<1>1. op[p].step = "push_end" /\ At(p, "idle", NULL) /\ size' = size + 1
  BY DEF PushEnd
<1>2. Cardinality(Woken) \in Nat /\ size \in Int
  BY WokenFinite DEF MutexDiscipline
<1>3. ~Popping
  BY <1>1 DEF MutexDiscipline, Popping, Critical
<1>4. CASE waiting = {}
  BY <1>4 DEF PushEnd, cond_signal, PacketsSpokenFor
<1>5. CASE waiting # {}
  <2>1. PICK w \in waiting : waiting' = waiting \ {w}
    BY <1>5 DEF PushEnd, cond_signal
  <2>2. \A t \in Threads :
          (op'[t].step = "pop_wait") <=> (op[t].step = "pop_wait")
    BY <1>1 DEF At, MutexDiscipline
  <2>3. Cardinality(Woken)' = Cardinality(Woken) + 1
    BY <2>1, <2>2, WokenOne
  <2>4. size <= Cardinality(Woken)
    BY <1>3, <1>5, <1>2 DEF PacketsSpokenFor
  <2> DEFINE c == Cardinality(Woken)
             credit == IF Popping' THEN 1 ELSE 0
  <2>5. credit \in {0, 1}
    OBVIOUS
  <2>6. size' <= Cardinality(Woken)' + credit
    <3> HIDE DEF c, credit
    <3>1. c \in Nat /\ size <= c /\ size \in Int
      BY <1>2, <2>4 DEF c
    <3>2. Cardinality(Woken)' = c + 1
      BY <2>3 DEF c
    <3> QED
      BY <1>1, <2>5, <3>1, <3>2
  <2> QED
    BY <2>6 DEF PacketsSpokenFor
<1> QED
  BY <1>4, <1>5

LEMMA PopSleepSpoken ==
  ASSUME MutexDiscipline, NEW c \in Threads, PopSleep(c)
  PROVE  PacketsSpokenFor'
<1>1. size' = 0
  BY DEF PopSleep, list
<1>2. Cardinality(Woken)' \in Nat
  BY WokenFinite
<1> QED
  BY <1>1, <1>2 DEF PacketsSpokenFor

\* A consumer that comes back to the mutex was woken and is now inside.
LEMMA PopWakeSpoken ==
  ASSUME MutexDiscipline, PacketsSpokenFor, NEW c \in Threads, PopWake(c),
         NULL \notin Threads
  PROVE  PacketsSpokenFor'
<1>1. /\ c \notin waiting /\ op[c].step = "pop_wait" /\ mutex = NULL
      /\ At(c, "pop_test", op[c].node) /\ UNCHANGED <<size, waiting>>
  BY DEF PopWake, Acquire, list
<1>2. c \in Woken /\ Woken' = Woken \ {c}
  BY <1>1 DEF Woken, At, MutexDiscipline
<1>3. Cardinality(Woken)' = Cardinality(Woken) - 1
  BY <1>2, WokenFinite, FS_RemoveElement
<1>4. ~Popping
  BY <1>1, OneInside
<1>5. Popping'
  BY <1>1 DEF Popping, At, MutexDiscipline
<1>6. Cardinality(Woken) \in Nat /\ size \in Int
  BY WokenFinite DEF MutexDiscipline
<1> QED
  BY <1>1, <1>3, <1>4, <1>5, <1>6 DEF PacketsSpokenFor

\* The packet of the consumer inside is off the list.
LEMMA PopEndSpoken ==
  ASSUME MutexDiscipline, PacketsSpokenFor, NEW c \in Threads, PopEnd(c)
  PROVE  PacketsSpokenFor'
<1>1. /\ op[c].step = "pop_end" /\ At(c, "pop_free", op[c].node)
      /\ size' = size - 1 /\ UNCHANGED waiting
  BY DEF PopEnd
<1>2. Woken' = Woken
  BY <1>1 DEF Woken, At, MutexDiscipline
<1>3. Popping
  BY <1>1 DEF Popping
<1>4. Cardinality(Woken)' = Cardinality(Woken)
  BY <1>2
<1>5. Cardinality(Woken) \in Nat /\ size \in Int
  BY WokenFinite DEF MutexDiscipline
<1> QED
  BY <1>1, <1>3, <1>4, <1>5 DEF PacketsSpokenFor

LEMMA WakeupSpoken ==
  ASSUME MutexDiscipline, PacketsSpokenFor, NEW c \in Threads, SpuriousWakeup(c)
  PROVE  PacketsSpokenFor'
<1>1. c \in waiting /\ waiting' = waiting \ {c} /\ op' = op /\ size' = size
  BY DEF SpuriousWakeup, list
<1>2. Cardinality(Woken)' = Cardinality(Woken) + 1
  BY <1>1, WokenOne
<1>3. Popping' <=> Popping
  BY <1>1 DEF Popping
<1>4. Cardinality(Woken) \in Nat /\ size \in Int
  BY WokenFinite DEF MutexDiscipline
<1> QED
  BY <1>1, <1>2, <1>3, <1>4 DEF PacketsSpokenFor

LEMMA SpokenStep ==
  MutexDiscipline /\ PacketsSpokenFor /\ [ClientsNext]_clientVars => PacketsSpokenFor'
<1> SUFFICES ASSUME MutexDiscipline, PacketsSpokenFor, [ClientsNext]_clientVars
             PROVE  PacketsSpokenFor'
  OBVIOUS
<1>0. size \in Int
  BY DEF MutexDiscipline
<1>1. CASE Initialise
  <2>1. size' = 0
    BY <1>1 DEF Initialise, queue_init
  <2>2. Cardinality(Woken)' \in Nat
    BY WokenFinite
  <2> QED
    BY <2>1, <2>2 DEF PacketsSpokenFor
<1>2. ASSUME NEW p \in Producers, Push(p) \/ Produce(p)
      PROVE  PacketsSpokenFor'
  <2>0. p \in Threads /\ NULL \notin Threads
    BY ClientsAreThreads
  <2>1. CASE PushEnd(p)
    BY <2>0, <2>1, PushEndWakes
  <2>2. CASE Push(p) \/ PushLock(p) \/ PushLink(p)
    <3>1. \E to, node : At(p, to, node) /\ to # "pop_wait"
      <4>1. CASE Push(p)
        BY <4>1 DEF Push, queue_push
      <4>2. CASE PushLock(p) \/ PushLink(p)
        BY <4>2 DEF PushLock, Acquire, PushLink
      <4> QED
        BY <2>2, <4>1, <4>2
    <3>2. /\ op[p].step \in {"idle", "push_lock", "push_link"}
          /\ UNCHANGED <<size, waiting>>
      BY <2>2 DEF Push, queue_push, PushLock, Acquire, PushLink, list
    <3> QED
      BY <1>0, <2>0, <3>1, <3>2, AtMoves, ElsewhereStep
  <2> QED
    BY <1>2, <2>1, <2>2 DEF Produce
<1>3. ASSUME NEW c \in Consumers, TryPop(c) \/ Size(c) \/ CallPop(c)
      PROVE  PacketsSpokenFor'
  <2>0. c \in Threads
    BY ClientsAreThreads
  <2>1. \E to, node : At(c, to, node) /\ to # "pop_wait"
    BY <1>3 DEF TryPop, Size, CallPop, queue_pop, queue_try_pop, queue_size,
                Begin, TryLock, SizeLock, Acquire, TryNothing, TryHead,
                UnlinkHead, TryEnd, SizeEnd
  <2>2. /\ op[c].step \in {"idle", "try_lock", "try_head", "try_end",
                           "size_lock", "size_end"}
        /\ UNCHANGED waiting
        /\ size' \in {size, size - 1}
    BY <1>3 DEF TryPop, Size, CallPop, queue_pop, queue_try_pop, queue_size,
                Begin, TryLock, SizeLock, Acquire, TryNothing, TryHead,
                UnlinkHead, TryEnd, SizeEnd, list
  <2>3. size' \in Int /\ size' <= size
    BY <1>0, <2>2
  <2> QED
    BY <2>0, <2>1, <2>2, <2>3, AtMoves, ElsewhereStep
<1>4. ASSUME NEW c \in Consumers, Pop(c) \/ Wakeup(c)
      PROVE  PacketsSpokenFor'
  <2>0. c \in Threads /\ NULL \notin Threads
    BY ClientsAreThreads
  <2>1. CASE PopSleep(c) \/ PopWake(c) \/ PopEnd(c) \/ Wakeup(c)
    BY <2>0, <2>1, PopSleepSpoken, PopWakeSpoken, PopEndSpoken, WakeupSpoken
       DEF Wakeup
  <2>2. CASE PopLock(c) \/ PopFree(c)
    <3>1. \E to, node : At(c, to, node) /\ to # "pop_wait"
      BY <2>2 DEF PopLock, Acquire, PopFree
    <3>2. op[c].step \in {"pop_lock", "pop_free"} /\ UNCHANGED <<size, waiting>>
      BY <2>2 DEF PopLock, Acquire, PopFree, list
    <3> QED
      BY <1>0, <2>0, <3>1, <3>2, AtMoves, ElsewhereStep
  <2>3. CASE PopGoesOn(c) \/ PopTake(c)
    <3>1. /\ op[c].step \in {"pop_test", "pop_take"}
          /\ UNCHANGED <<size, waiting>>
          /\ \E node : At(c, "pop_take", node) \/ At(c, "pop_end", node)
      BY <2>3 DEF PopGoesOn, PopTake, UnlinkHead, list
    <3>2. Woken' = Woken
      BY <2>0, <3>1 DEF Woken, At, MutexDiscipline
    <3>3. Popping'
      BY <2>0, <3>1 DEF Popping, At, MutexDiscipline
    <3> QED
      BY <1>0, <3>1, <3>2, <3>3, QuietStep
  <2> QED
    BY <1>4, <2>1, <2>2, <2>3 DEF Pop
<1>5. CASE UNCHANGED clientVars
  <2>1. UNCHANGED <<op, waiting, size>>
    BY <1>5 DEF clientVars, queueVars, list
  <2> QED
    BY <2>1 DEF PacketsSpokenFor, Woken, Popping
<1> QED
  BY <1>1, <1>2, <1>3, <1>4, <1>5 DEF ClientsNext

LEMMA WakeupInit == ClientsInit => WakeupInv
<1> SUFFICES ASSUME ClientsInit PROVE WakeupInv
  OBVIOUS
<1>1. waiting = {}
  BY DEF ClientsInit, QueueInit
<1> QED
  BY <1>1, MutexInit DEF WakeupInv, PacketsSpokenFor

\* One thread at a time is between a lock and its unlock, sleepers are asleep
\* in queue_pop, and each packet is spoken for while one is asleep.
THEOREM WakeupInvariant == ClientsSpec => []WakeupInv
<1>1. WakeupInv /\ [ClientsNext]_clientVars => WakeupInv'
  BY MutexStep, SpokenStep DEF WakeupInv
<1> QED
  BY <1>1, WakeupInit, PTL DEF ClientsSpec

\* The wake-ups of queue_push and the while of queue_pop (queues.c:128, :157)
\* lose no packet to a sleeper, however many threads produce, block and poll.
THEOREM NoWakeupLost == ClientsSpec => []NoLostWakeup
<1>1. WakeupInv => NoLostWakeup
  <2> SUFFICES ASSUME WakeupInv, mutex = NULL, waiting # {}
               PROVE  size <= Cardinality(Woken)
    BY DEF NoLostWakeup, Woken
  <2>1. ~Popping
    BY QueueAssumption, NodesAssumption, OneInside DEF WakeupInv
  <2>2. Cardinality(Woken) \in Nat /\ size \in Int
    BY WokenFinite DEF WakeupInv, MutexDiscipline
  <2> QED
    BY <2>1, <2>2 DEF WakeupInv, PacketsSpokenFor
<1> QED
  BY <1>1, WakeupInvariant, PTL


-----------------------------------------------------------------------------
(* The list. *)

\* The queue is one list at every step of every call.
THEOREM QueueInvariant == ClientsSpec => [](QueueInv /\ PushesCounted)
<1>1. ClientsInit => QueueInv /\ PushesCounted
  BY QueueInvInit, MutexInit DEF ClientsInit
<1>2. QueueInv /\ PushesCounted /\ [ClientsNext]_clientVars => QueueInv' /\ PushesCounted'
  <2> SUFFICES ASSUME QueueInv, PushesCounted, [ClientsNext]_clientVars
               PROVE  QueueInv' /\ PushesCounted'
    OBVIOUS
  <2>1. CASE Initialise
    BY <2>1, QueueInvInitialise DEF Initialise, PushesCounted
  <2>2. CASE life = "live" /\ (\E t \in Threads : Call(t)) /\ PushesCounted'
    BY <2>2, ListCall
  <2>3. CASE UNCHANGED clientVars
    <3>1. MutexDiscipline' /\ PushesCounted'
      BY <2>3, MutexStep DEF QueueInv
    <3>2. Lives' /\ ListInv'
      BY <2>3 DEF QueueInv, Lives, ListInv, IsList, clientVars, queueVars, list
    <3> QED BY <3>1, <3>2 DEF QueueInv
  <2> QED BY <2>1, <2>2, <2>3, StepsAreCalls
<1> QED
  BY <1>1, <1>2, PTL DEF ClientsSpec

\* thread/queues.c: between two calls the queue is one list without a cycle
\* from head to tail, as long as size says, and no node is leaked, freed twice
\* or in two hands.
THEOREM ListKept == ClientsSpec => []QueueWellFormed
  BY QueueInvariant, InvWellFormed, PTL

\* Past the loop of queue_pop there is a node to take.
THEOREM NodeFound == ClientsSpec => []PopFindsNode
  BY QueueInvariant, InvFindsNode, PTL


-----------------------------------------------------------------------------
(* The refinement. *)

\* However the calls of the threads interleave, the queue is a FIFO: packets
\* come out in the order they went in, each once and to one consumer.
THEOREM FifoImplemented == ClientsSpec => ImplementsFifo
<1>1. ClientsInit => FifoOf!Init
  BY FifoInit DEF ClientsInit
<1>2. QueueInv /\ PushesCounted /\ [ClientsNext]_clientVars => [FifoOf!Next]_(FifoOf!vars)
  <2> SUFFICES ASSUME QueueInv, PushesCounted, [ClientsNext]_clientVars
               PROVE  [FifoOf!Next]_(FifoOf!vars)
    OBVIOUS
  <2>1. CASE Initialise
    BY <2>1, FifoInitialise DEF Initialise
  <2>2. CASE life = "live" /\ \E t \in Threads : Call(t)
    BY <2>2, FifoCall
  <2>3. CASE UNCHANGED clientVars
    BY <2>3 DEF clientVars, queueVars, list, FifoOf!vars, Contents, TakenBy, Chain
  <2> QED BY <2>1, <2>2, <2>3, StepsAreCalls
<1> QED
  BY <1>1, <1>2, QueueInvariant, PTL DEF ClientsSpec, ImplementsFifo, FifoOf!Spec

-----------------------------------------------------------------------------
(* Where the threads are. *)

BeforeQueue == {"parse", "init", "flush", "log", "size", "pool", "queue"}
Closing     == {"exit", "close", "clear", "join"}
Gone        == {"free", "done"}

LEMMA StartupOrder ==
  /\ After("parse") = "init"  /\ After("init") = "flush"
  /\ After("flush") = "log"   /\ After("log") = "size"
  /\ After("size") = "pool"   /\ After("pool") = "queue"
  /\ After("queue") = "read"  /\ After("read") = "create"
  /\ After("create") = "loop"
<1>1. DOMAIN Startup = 1 .. 10
  BY DEF Startup
<1>2. /\ Startup[1] = "parse" /\ Startup[2] = "init" /\ Startup[3] = "flush"
      /\ Startup[4] = "log" /\ Startup[5] = "size" /\ Startup[6] = "pool"
      /\ Startup[7] = "queue" /\ Startup[8] = "read" /\ Startup[9] = "create"
      /\ Startup[10] = "loop"
  BY DEF Startup
<1>3. ASSUME NEW i \in 1 .. 9 PROVE After(Startup[i]) = Startup[i + 1]
  <2>1. i \in DOMAIN Startup
    BY <1>1
  <2>2. \A j \in DOMAIN Startup : Startup[j] = Startup[i] => j = i
    BY <1>1, <1>2
  <2> DEFINE k == CHOOSE j \in DOMAIN Startup : Startup[j] = Startup[i]
  <2>3. k = i
    BY <2>1, <2>2
  <2>4. After(Startup[i]) = Startup[k + 1]
    BY DEF After
  <2> QED BY <2>3, <2>4
<1> QED
  BY <1>2, <1>3

\* The main thread polls in the loop only; the RX thread pushes at one place.
CallsOf ==
  /\ op["main"].step \in {"idle", "try_lock", "try_head", "try_end"}
  /\ op["main"].step # "idle" => main = "loop"
  /\ IF rx = "push" THEN op["rx"].step \in {"push_lock", "push_link", "push_end"}
                    ELSE op["rx"].step = "idle"

\* What is alive where main is: the queue and the RX thread.
Stages ==
  /\ main \in BeforeQueue => life = "raw" /\ rx = "none"
  /\ main \in {"read", "create"} => life = "live" /\ rx = "none"
  /\ main = "loop" => life = "live"
  /\ main \in Closing => life \in {"raw", "live"}
  /\ rx # "none" /\ main \notin Gone => life = "live"
  /\ main = "destroy" => life \in {"raw", "live"} /\ rx \in {"none", "done"}
  /\ main \in Gone =>
       life = "destroyed" /\ rx \in {"none", "done"} /\ heap = [n \in {} |-> NULL]

\* The packet in the hands of the RX thread is one of the target's.
PacketInHand ==
  /\ received \in 0 .. MaxPackets
  /\ rx = "alloc" => received \in Packets

\* An open port has a driver that can close it, until it is closed.
PortOwned ==
  transport = "open" =>
    /\ driver_type # 0
    /\ main \in BeforeQueue \cup {"read", "create", "loop", "exit", "close"}

LifecycleInv == QueueInv /\ CallsOf /\ Stages /\ PacketInHand /\ PortOwned

LEMMA LifecycleInvInit == Init => LifecycleInv
<1> SUFFICES ASSUME Init PROVE LifecycleInv
  OBVIOUS
<1>1. QueueInv
  BY QueueInvInit DEF Init
<1>2. "main" \in Threads /\ "rx" \in Threads
  BY LifecycleAssumption
<1>3. op["main"].step = "idle" /\ op["rx"].step = "idle" /\ life = "raw"
  BY <1>2 DEF Init, QueueInit
<1>4. main = "parse" /\ rx = "none" /\ received = 0 /\ transport = "none"
  BY DEF Init
<1> QED
  BY <1>1, <1>3, <1>4, LifecycleAssumption
     DEF LifecycleInv, CallsOf, Stages, PacketInHand, PortOwned, BeforeQueue,
         Closing, Gone


-----------------------------------------------------------------------------
(* The steps. *)

LEMMA ThreadsAre == "main" \in Threads /\ "rx" \in Threads
  BY LifecycleAssumption

\* The steps of the two threads that are steps of a call of the queue.
PollSteps == Poll \/ PollEmpty \/ PollPacket \/ PollStep
QueueSteps == RxPush \/ RxPushStep \/ RxPushEnd

LEMMA QueueUnchanged ==
  ASSUME QueueInv, UNCHANGED queueVars
  PROVE  QueueInv'
<1>1. MutexDiscipline'
  BY DEF QueueInv, MutexDiscipline, queueVars, list
<1>2. Lives' /\ ListInv'
  BY DEF QueueInv, Lives, ListInv, IsList, queueVars, list
<1> QED
  BY <1>1, <1>2 DEF QueueInv

LEMMA PollIsCall ==
  ASSUME LifecycleInv, PollSteps
  PROVE  /\ Call("main") /\ life = "live" /\ main = "loop"
         /\ op'["main"].step \in {"idle", "try_lock", "try_head", "try_end"}
         /\ op'["rx"] = op["rx"]
         /\ UNCHANGED <<linkVars, main, rx, received>>
<1>0. MutexDiscipline /\ "main" \in Threads /\ "rx" \in Threads
  BY ThreadsAre DEF LifecycleInv, QueueInv
<1>1. /\ Call("main")
      /\ UNCHANGED <<linkVars, main, rx, received>>
      /\ \E n : \E to \in {"idle", "try_lock", "try_head", "try_end"} :
           At("main", to, n)
      /\ main = "loop" \/ op["main"].step \in {"try_lock", "try_head", "try_end"}
  <2>1. CASE Poll
    BY <2>1 DEF Poll, queue_try_pop, Begin, Call
  <2>2. CASE PollEmpty
    BY <2>2 DEF PollEmpty, TryNothing, Call
  <2>3. CASE PollPacket
    BY <2>3 DEF PollPacket, TryEnd, Call
  <2>4. CASE PollStep
    BY <2>4 DEF PollStep, TryLock, TryHead, Acquire, UnlinkHead, Call
  <2> QED BY <2>1, <2>2, <2>3, <2>4 DEF PollSteps
<1>2. main = "loop"
  BY <1>1 DEF LifecycleInv, CallsOf
<1>3. life = "live"
  BY <1>2 DEF LifecycleInv, Stages
<1>4. PICK n : \E to \in {"idle", "try_lock", "try_head", "try_end"} :
                 At("main", to, n)
  BY <1>1
<1>6. PICK to \in {"idle", "try_lock", "try_head", "try_end"} : At("main", to, n)
  BY <1>4
<1>5. /\ op'["main"] = [step |-> to, node |-> n]
      /\ op'["rx"] = op["rx"]
  BY <1>0, <1>6, AtIs
<1> QED
  BY <1>1, <1>2, <1>3, <1>5

LEMMA PushIsCall ==
  ASSUME LifecycleInv, QueueSteps
  PROVE  /\ Call("rx") /\ life = "live" /\ rx \in {"alloc", "push"}
         /\ IF rx' = "push"
            THEN op'["rx"].step \in {"push_lock", "push_link", "push_end"}
            ELSE op'["rx"].step = "idle" /\ rx' = "check"
         /\ op'["main"] = op["main"]
         /\ UNCHANGED <<linkVars, main, received>>
<1>0. MutexDiscipline /\ "main" \in Threads /\ "rx" \in Threads
  BY ThreadsAre DEF LifecycleInv, QueueInv
<1>1. CASE RxPush
  <2>1. received \in Packets
    BY <1>1 DEF LifecycleInv, PacketInHand, RxPush
  <2>2. Call("rx") /\ \E n : At("rx", "push_lock", n)
    BY <1>1, <2>1 DEF RxPush, queue_push, Call
  <2>3. PICK n : At("rx", "push_lock", n)
    BY <2>2
  <2>4. op'["rx"] = [step |-> "push_lock", node |-> n] /\ op'["main"] = op["main"]
    BY <1>0, <2>3, AtIs
  <2> QED BY <1>1, <2>2, <2>4 DEF RxPush, LifecycleInv, Stages, Gone
<1>2. CASE RxPushStep
  <2>1. Call("rx") /\ \E n : \E to \in {"push_link", "push_end"} : At("rx", to, n)
    BY <1>2 DEF RxPushStep, PushLock, PushLink, Acquire, Call
  <2>5. PICK n : \E to \in {"push_link", "push_end"} : At("rx", to, n)
    BY <2>1
  <2>2. PICK to \in {"push_link", "push_end"} : At("rx", to, n)
    BY <2>5
  <2>3. op'["rx"] = [step |-> to, node |-> n] /\ op'["main"] = op["main"]
    BY <1>0, <2>2, AtIs
  <2>4. rx = "push"
    BY <1>2 DEF RxPushStep, PushLock, PushLink, Acquire, LifecycleInv, CallsOf
  <2> QED BY <1>2, <2>1, <2>3, <2>4 DEF RxPushStep, LifecycleInv, Stages, Gone
<1>3. CASE RxPushEnd
  <2>1. Call("rx") /\ At("rx", "idle", NULL)
    BY <1>3 DEF RxPushEnd, PushEnd, Call
  <2>2. op'["rx"] = [step |-> "idle", node |-> NULL] /\ op'["main"] = op["main"]
    BY <1>0, <2>1, AtIs
  <2>3. rx = "push"
    BY <1>3 DEF RxPushEnd, PushEnd, LifecycleInv, CallsOf
  <2> QED BY <1>3, <2>1, <2>2, <2>3 DEF RxPushEnd, LifecycleInv, Stages, Gone
<1> QED
  BY <1>1, <1>2, <1>3 DEF QueueSteps

\* queue_destroy frees the whole list, which is all there is when no thread has
\* a node in its hands.
LEMMA DestroyFrees ==
  ASSUME QueueInv, life # "destroyed", \A t \in Threads : op[t].step = "idle",
         queue_destroy
  PROVE  heap' = [n \in {} |-> NULL] /\ QueueInv'
<1>1. PICK s : IsList(s)
  BY DEF QueueInv, ListInv
<1>2. Chain = s
  BY <1>1, ListIsChain
<1>3. DOMAIN heap = ToSet(s)
  <2>1. DOMAIN heap \subseteq ToSet(s)
    BY <1>1 DEF IsList, Owned, Holding
  <2>2. ToSet(s) \subseteq DOMAIN heap
    BY <1>1 DEF IsList, Linked, ToSet
  <2> QED BY <2>1, <2>2
<1>4. heap' = [n \in {} |-> NULL]
  <2>1. DOMAIN heap \ ToSet(Chain) = {}
    BY <1>2, <1>3
  <2>2. heap' = [n \in DOMAIN heap \ ToSet(Chain) |-> heap[n]]
    BY DEF queue_destroy
  <2> QED BY <2>1, <2>2
<1>5. /\ life' = "destroyed"
      /\ UNCHANGED <<head, tail, size, mutex, waiting, op, taken>>
  BY DEF queue_destroy
<1>6. MutexDiscipline'
  BY <1>5 DEF QueueInv, MutexDiscipline
<1>7. Lives' /\ ListInv'
  BY <1>5 DEF QueueInv, Lives, ListInv
<1> QED
  BY <1>4, <1>6, <1>7 DEF QueueInv


\* The steps of main that are no calls of the queue.
MainControl ==
  \/ StartupFails \/ StartupGoesOn \/ transport_init \/ transport_init_fails
  \/ transport_flush \/ CreateThread \/ LeaveLoop \/ StopRxThread
  \/ transport_close \/ ClearDriverType \/ thread_join \/ JoinNoThread
  \/ DestroyRawQueue \/ FreePool

\* The steps of the RX thread and of the environment that are none either.
RxControl ==
  \/ RxCheck \/ RxPick \/ RxNothing \/ RxFrame \/ RxFlush \/ RxNoMemory
  \/ RxPushNoMemory \/ handle_sigint \/ PeerCloses

LEMMA MainControlStep ==
  ASSUME LifecycleInv, MainControl
  PROVE  LifecycleInv'
<1>1. UNCHANGED queueVars /\ UNCHANGED received
  BY DEF MainControl, StartupFails, StartupGoesOn, transport_init,
         transport_init_fails, transport_flush, CreateThread, LeaveLoop,
         StopRxThread, transport_close, ClearDriverType, thread_join,
         JoinNoThread, DestroyRawQueue, FreePool
<1>2. QueueInv'
  BY <1>1, QueueUnchanged DEF LifecycleInv
<1>3. op' = op /\ life' = life /\ heap' = heap
  BY <1>1 DEF queueVars, list
<1>4. CallsOf /\ Stages /\ PacketInHand /\ PortOwned
  BY DEF LifecycleInv
<1>5. 0 \notin DriverTypes
  BY LifecycleAssumption DEF SERIAL, TCP, CAN, UDP
<1>6. CallsOf' /\ Stages' /\ PacketInHand' /\ PortOwned'
  <2>1. CASE StartupFails
    BY <2>1, <1>1, <1>3, <1>4
       DEF StartupFails, linkVars, CallsOf, Stages, PacketInHand, PortOwned,
           BeforeQueue, Closing, Gone
  <2>2. CASE StartupGoesOn
    BY <2>2, <1>1, <1>3, <1>4, StartupOrder
       DEF StartupGoesOn, linkVars, CallsOf, Stages, PacketInHand, PortOwned,
           BeforeQueue, Closing, Gone
  <2>3. CASE transport_init \/ transport_init_fails
    BY <2>3, <1>1, <1>3, <1>4, StartupOrder
       DEF transport_init, transport_init_fails, CallsOf, Stages, PacketInHand,
           PortOwned, BeforeQueue, Closing, Gone
  <2>4. CASE transport_flush
    BY <2>4, <1>1, <1>3, <1>4, StartupOrder
       DEF transport_flush, linkVars, CallsOf, Stages, PacketInHand, PortOwned,
           BeforeQueue, Closing, Gone
  <2>5. CASE CreateThread
    BY <2>5, <1>1, <1>3, <1>4, StartupOrder
       DEF CreateThread, linkVars, CallsOf, Stages, PacketInHand, PortOwned,
           BeforeQueue, Closing, Gone
  <2>6. CASE LeaveLoop \/ StopRxThread
    BY <2>6, <1>1, <1>3, <1>4
       DEF LeaveLoop, StopRxThread, linkVars, CallsOf, Stages, PacketInHand,
           PortOwned, BeforeQueue, Closing, Gone
  <2>7. CASE transport_close
    BY <2>7, <1>1, <1>3, <1>4
       DEF transport_close, CallsOf, Stages, PacketInHand, PortOwned,
           BeforeQueue, Closing, Gone
  <2>8. CASE ClearDriverType
    BY <2>8, <1>1, <1>3, <1>4
       DEF ClearDriverType, CallsOf, Stages, PacketInHand, PortOwned,
           BeforeQueue, Closing, Gone
  <2>9. CASE thread_join \/ JoinNoThread \/ DestroyRawQueue
    BY <2>9, <1>1, <1>3, <1>4
       DEF thread_join, JoinNoThread, DestroyRawQueue, linkVars, CallsOf, Stages,
           PacketInHand, PortOwned, BeforeQueue, Closing, Gone
  <2>10. CASE FreePool
    BY <2>10, <1>1, <1>3, <1>4
       DEF FreePool, linkVars, CallsOf, Stages, PacketInHand, PortOwned,
           BeforeQueue, Closing, Gone
  <2> QED
    BY <2>1, <2>2, <2>3, <2>4, <2>5, <2>6, <2>7, <2>8, <2>9, <2>10 DEF MainControl
<1> QED
  BY <1>2, <1>6 DEF LifecycleInv

LEMMA RxControlStep ==
  ASSUME LifecycleInv, RxControl
  PROVE  LifecycleInv'
<1>1. UNCHANGED <<queueVars, main, driver_type, transport>>
  BY DEF RxControl, RxCheck, RxPick, RxNothing, RxFrame, RxFlush, RxNoMemory,
         RxPushNoMemory, handle_sigint, PeerCloses, RxMoves, linkVars
<1>2. QueueInv'
  BY <1>1, QueueUnchanged DEF LifecycleInv
<1>3. op' = op /\ life' = life /\ heap' = heap
  BY <1>1 DEF queueVars, list
<1>4. CallsOf /\ Stages /\ PacketInHand /\ PortOwned
  BY DEF LifecycleInv
<1>5. \/ rx' = rx
      \/ /\ rx \notin {"none", "done", "push"}
         /\ rx' \in {"pick", "done", "check", "read", "alloc", "flush"}
  BY DEF RxControl, RxCheck, RxPick, RxNothing, RxFrame, RxFlush, RxNoMemory,
         RxPushNoMemory, handle_sigint, PeerCloses, RxMoves
<1>6. PacketInHand'
  <2>1. CASE RxFrame
    BY <2>1, <1>4, LifecycleAssumption DEF RxFrame, PacketInHand
  <2>2. CASE ~RxFrame
    BY <2>2, <1>4
       DEF RxControl, RxCheck, RxPick, RxNothing, RxFlush, RxNoMemory,
           RxPushNoMemory, handle_sigint, PeerCloses, RxMoves, PacketInHand
  <2> QED BY <2>1, <2>2
<1>7. CallsOf'
  BY <1>1, <1>3, <1>4, <1>5 DEF CallsOf
<1>8. Stages'
  BY <1>1, <1>3, <1>4, <1>5 DEF Stages, BeforeQueue, Closing, Gone
<1>9. PortOwned'
  BY <1>1, <1>4 DEF PortOwned
<1> QED
  BY <1>2, <1>6, <1>7, <1>8, <1>9 DEF LifecycleInv

LEMMA InitQueueStep ==
  ASSUME LifecycleInv, InitQueue
  PROVE  LifecycleInv'
<1>1. queue_init /\ main = "queue" /\ main' = "read"
      /\ UNCHANGED <<linkVars, rx, received>>
  BY StartupOrder DEF InitQueue
<1>2. life = "raw" /\ rx = "none"
  BY <1>1 DEF LifecycleInv, Stages, BeforeQueue
<1>3. QueueInv'
  BY <1>1, <1>2, QueueInvInitialise DEF LifecycleInv
<1>4. op' = op /\ life' = "live"
  BY <1>1 DEF queue_init
<1>5. CallsOf /\ PacketInHand /\ PortOwned
  BY DEF LifecycleInv
<1> QED
  BY <1>1, <1>2, <1>3, <1>4, <1>5
     DEF LifecycleInv, CallsOf, Stages, PacketInHand, PortOwned, linkVars,
         BeforeQueue, Closing, Gone

LEMMA DestroyQueueStep ==
  ASSUME LifecycleInv, DestroyQueue
  PROVE  LifecycleInv'
<1>1. queue_destroy /\ main = "destroy" /\ main' = "free"
      /\ UNCHANGED <<linkVars, rx, received>>
  BY DEF DestroyQueue
<1>2. life # "destroyed" /\ rx \in {"none", "done"}
  BY <1>1 DEF LifecycleInv, Stages
<1>3. \A t \in Threads : op[t].step = "idle"
  BY <1>1, <1>2, LifecycleAssumption DEF LifecycleInv, CallsOf
<1>4. heap' = [n \in {} |-> NULL] /\ QueueInv'
  BY <1>1, <1>2, <1>3, DestroyFrees DEF LifecycleInv
<1>5. op' = op /\ life' = "destroyed"
  BY <1>1 DEF queue_destroy
<1>6. CallsOf /\ PacketInHand /\ PortOwned
  BY DEF LifecycleInv
<1>7. op["main"].step = "idle" /\ op["rx"].step = "idle"
  BY <1>3, ThreadsAre
<1>8. CallsOf'
  BY <1>1, <1>2, <1>5, <1>7 DEF CallsOf
<1>9. Stages'
  BY <1>1, <1>2, <1>4, <1>5 DEF Stages, BeforeQueue, Closing, Gone
<1>10. PacketInHand' /\ PortOwned'
  BY <1>1, <1>6 DEF PacketInHand, PortOwned, linkVars, BeforeQueue
<1> QED
  BY <1>4, <1>8, <1>9, <1>10 DEF LifecycleInv

LEMMA CallsStep ==
  ASSUME LifecycleInv, PollSteps \/ QueueSteps
  PROVE  LifecycleInv'
<1>1. \E t \in Threads : Call(t) /\ life = "live"
  BY PollIsCall, PushIsCall, ThreadsAre
<1>2. QueueInv'
  BY <1>1, ListCall DEF LifecycleInv
<1>3. life' = life
  BY <1>1 DEF Call, queue_push, PushLock, PushLink, PushEnd, queue_try_pop,
              TryLock, TryNothing, TryHead, TryEnd, queue_pop, PopLock, PopSleep,
              SpuriousWakeup, PopWake, PopGoesOn, PopTake, PopEnd, PopFree,
              queue_size, SizeLock, SizeEnd, Begin, Acquire, UnlinkHead
<1>4. CASE PollSteps
  <2>1. /\ life = "live" /\ main = "loop"
        /\ op'["main"].step \in {"idle", "try_lock", "try_head", "try_end"}
        /\ op'["rx"] = op["rx"]
        /\ UNCHANGED <<linkVars, main, rx, received>>
    BY <1>4, PollIsCall
  <2> QED
    BY <1>2, <1>3, <2>1 DEF LifecycleInv, CallsOf, Stages, PacketInHand,
       PortOwned, linkVars, BeforeQueue, Closing, Gone
<1>5. CASE QueueSteps
  <2>1. /\ life = "live" /\ rx \in {"alloc", "push"}
        /\ IF rx' = "push"
           THEN op'["rx"].step \in {"push_lock", "push_link", "push_end"}
           ELSE op'["rx"].step = "idle" /\ rx' = "check"
        /\ op'["main"] = op["main"]
        /\ UNCHANGED <<linkVars, main, received>>
    BY <1>5, PushIsCall
  <2> QED
    BY <1>2, <1>3, <2>1 DEF LifecycleInv, CallsOf, Stages, PacketInHand,
       PortOwned, linkVars, BeforeQueue, Closing, Gone
<1> QED
  BY <1>4, <1>5

LEMMA NextCases ==
  ASSUME Next
  PROVE  \/ MainControl \/ RxControl \/ InitQueue \/ DestroyQueue
         \/ PollSteps \/ QueueSteps
  BY DEF Next, Main, RxThread, MainControl, RxControl, PollSteps, QueueSteps

-----------------------------------------------------------------------------
(* The theorems. *)

THEOREM LifecycleInvariant == Spec => []LifecycleInv
<1>1. LifecycleInv /\ [Next]_vars => LifecycleInv'
  <2> SUFFICES ASSUME LifecycleInv, [Next]_vars PROVE LifecycleInv'
    OBVIOUS
  <2>1. CASE Next
    BY <2>1, NextCases, MainControlStep, RxControlStep, InitQueueStep,
       DestroyQueueStep, CallsStep
  <2>2. CASE UNCHANGED vars
    <3>1. UNCHANGED <<queueVars, op, life, heap, main, rx, received, transport,
                      driver_type>>
      BY <2>2 DEF vars, queueVars, linkVars, list
    <3>2. QueueInv'
      BY <3>1, QueueUnchanged DEF LifecycleInv
    <3> QED BY <3>1, <3>2 DEF LifecycleInv, CallsOf, Stages, PacketInHand, PortOwned
  <2> QED BY <2>1, <2>2
<1> QED
  BY <1>1, LifecycleInvInit, PTL DEF Spec

\* init/main.c: no push and no poll is under way before queue_init, after
\* queue_destroy or while queue_destroy runs, on any path through main, and
\* a queue the RX thread was created for is initialised when it is destroyed.
\* An exit before queue_init destroys the queue all the same
\* (DestroyRawQueue): that is outside this theorem.
THEOREM CallsAreAlive == Spec => []CallsWhileAlive
<1>1. LifecycleInv => CallsWhileAlive
  <2> SUFFICES ASSUME LifecycleInv PROVE CallsWhileAlive
    OBVIOUS
  <2>1. \A t \in Threads : op[t].step # "idle" => life = "live"
    BY DEF LifecycleInv, QueueInv, Lives
  <2>2. main = "destroy" => \A t \in Threads : op[t].step = "idle"
    BY LifecycleAssumption DEF LifecycleInv, Stages, CallsOf
  <2>3. main = "destroy" /\ rx # "none" => life = "live"
    BY DEF LifecycleInv, Stages, Gone
  <2> QED BY <2>1, <2>2, <2>3 DEF CallsWhileAlive
<1> QED
  BY <1>1, LifecycleInvariant, PTL

\* init/main.c: a program that has come to its end has freed every node,
\* however many packets nobody has polled.
THEOREM NothingLeaks == Spec => []NodesFreed
<1>1. LifecycleInv => NodesFreed
  BY DEF LifecycleInv, Stages, Gone, NodesFreed
<1> QED
  BY <1>1, LifecycleInvariant, PTL

\* init/main.c, transport_layer.c: from transport_close on no port or socket is
\* open, whatever has failed before.
THEOREM PortIsClosed == Spec => []PortClosed
<1>1. LifecycleInv => PortClosed
  BY DEF LifecycleInv, PortOwned, BeforeQueue, PortClosed
<1> QED
  BY <1>1, LifecycleInvariant, PTL

\* The receive queue of the program, from queue_init to queue_destroy, is the
\* FIFO that HostFsm takes it to be.
THEOREM ReceiveQueueIsFifo == Spec => ImplementsFifo
<1>1. Init => FifoOf!Init
  BY FifoInit DEF Init
<1>2. LifecycleInv /\ [Next]_vars => [FifoOf!Next]_(FifoOf!vars)
  <2> SUFFICES ASSUME LifecycleInv, [Next]_vars
               PROVE  [FifoOf!Next]_(FifoOf!vars)
    OBVIOUS
  <2>1. CASE UNCHANGED queueVars
    BY <2>1 DEF queueVars, list, FifoOf!vars, Contents, TakenBy, Chain
  <2>2. CASE MainControl \/ RxControl
    <3>1. UNCHANGED queueVars
      BY <2>2 DEF MainControl, StartupFails, StartupGoesOn, transport_init,
         transport_init_fails, transport_flush, CreateThread, LeaveLoop,
         StopRxThread, transport_close, ClearDriverType, thread_join,
         JoinNoThread, DestroyRawQueue, FreePool, RxControl, RxCheck, RxPick,
         RxNothing, RxFrame, RxFlush, RxNoMemory, RxPushNoMemory, handle_sigint, PeerCloses, RxMoves
    <3> QED BY <2>1, <3>1
  <2>3. CASE InitQueue
    BY <2>3, FifoInitialise DEF InitQueue, LifecycleInv, Stages, BeforeQueue
  <2>4. CASE DestroyQueue
    <3>1. queue_destroy /\ main = "destroy"
      BY <2>4 DEF DestroyQueue
    <3>2. rx \in {"none", "done"}
      BY <3>1 DEF LifecycleInv, Stages
    <3>3. \A t \in Threads : op[t].step = "idle"
      BY <3>1, <3>2, LifecycleAssumption DEF LifecycleInv, CallsOf
    <3>4. life' = "destroyed" /\ UNCHANGED <<op, taken>>
      BY <3>1 DEF queue_destroy
    <3>5. Contents' = <<>>
      BY <3>4 DEF Contents
    <3>6. TakenBy' = TakenBy
      BY <3>3, <3>4 DEF TakenBy
    <3>7. FifoOf!Close
      BY <3>4, <3>5, <3>6 DEF FifoOf!Close
    <3> QED BY <3>7 DEF FifoOf!Next
  <2>5. CASE PollSteps \/ QueueSteps
    <3>1. \E t \in Threads : Call(t) /\ life = "live"
      BY <2>5, PollIsCall, PushIsCall, ThreadsAre
    <3> QED BY <3>1, FifoCall DEF LifecycleInv
  <2>6. CASE UNCHANGED vars
    BY <2>1, <2>6 DEF vars
  <2> QED
    BY <2>2, <2>3, <2>4, <2>5, <2>6, NextCases
<1> QED
  BY <1>1, <1>2, LifecycleInvariant, PTL DEF Spec, ImplementsFifo, FifoOf!Spec

=============================================================================
