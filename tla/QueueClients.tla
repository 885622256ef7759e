---------------------------- MODULE QueueClients ----------------------------
(***************************************************************************)
(* The queue of thread/queues.c as its file describes it: several          *)
(* producers, several consumers, blocking and non-blocking pop.            *)
(***************************************************************************)
EXTENDS Queues

CONSTANTS Producers, Consumers,
          MaxPushes       \* bound: packets pushed

ASSUME ClientsAssumption ==
  /\ Threads = Producers \cup Consumers
  /\ Producers \cap Consumers = {}
  /\ MaxPushes \in Nat
  /\ Packets = 1 .. MaxPushes

VARIABLE pushed           \* packets so far (bounded by MaxPushes)

clientVars == <<queueVars, pushed>>

ClientsInit ==
  /\ QueueInit
  /\ pushed = 0

Initialise ==
  /\ life = "raw"
  /\ queue_init
  /\ UNCHANGED pushed

-----------------------------------------------------------------------------
(* What a thread may do. *)

Push(p) ==
  /\ pushed < MaxPushes
  /\ queue_push(p, pushed + 1)
  /\ pushed' = pushed + 1

Produce(p) ==
  /\ PushLock(p) \/ PushLink(p) \/ PushEnd(p)
  /\ UNCHANGED pushed

TryPop(c) ==
  /\ queue_try_pop(c) \/ TryLock(c) \/ TryNothing(c) \/ TryHead(c) \/ TryEnd(c)
  /\ UNCHANGED pushed

\* A consumer calls queue_pop when it likes, and from there its thread runs
\* by itself.
CallPop(c) == queue_pop(c) /\ UNCHANGED pushed

Pop(c) ==
  /\ \/ PopLock(c) \/ PopSleep(c) \/ PopWake(c)
     \/ PopGoesOn(c) \/ PopTake(c) \/ PopEnd(c) \/ PopFree(c)
  /\ UNCHANGED pushed

Wakeup(c) == SpuriousWakeup(c) /\ UNCHANGED pushed

Size(c) ==
  /\ queue_size(c) \/ SizeLock(c) \/ SizeEnd(c)
  /\ UNCHANGED pushed

ClientsNext ==
  \/ Initialise
  \/ /\ life = "live"
     /\ \/ \E p \in Producers : Push(p) \/ Produce(p)
        \/ \E c \in Consumers :
             TryPop(c) \/ CallPop(c) \/ Pop(c) \/ Wakeup(c) \/ Size(c)

InCall(t) == op[t].step # "idle"

\* A thread in a call goes on, and gets the mutex in the end: whoever holds
\* it releases it after a few assignments.
ClientsFairness ==
  /\ \A p \in Producers : SF_clientVars(Produce(p))
  /\ \A c \in Consumers :
       SF_clientVars(InCall(c) /\ (TryPop(c) \/ Pop(c) \/ Size(c)))

ClientsSpec == ClientsInit /\ [][ClientsNext]_clientVars /\ ClientsFairness

-----------------------------------------------------------------------------
(* Correctness. *)

\* A consumer asleep does not stay asleep beside a packet nobody takes.
PacketReachesWaiter ==
  waiting # {} /\ size > 0 ~> waiting = {} \/ size = 0
=============================================================================
