-------------------------------- MODULE Fifo --------------------------------
(***************************************************************************)
(* What a queue of thread/queues.c promises: packets come out in the order *)
(* they went in, each once and to one consumer.  HostFsm uses the receive  *)
(* queue at this level.                                                    *)
(***************************************************************************)
EXTENDS Sequences

CONSTANTS Packets, Consumers

VARIABLES fifo,
          taken,          \* the packets each consumer has got, in order
          closed          \* the queue has been destroyed

vars == <<fifo, taken, closed>>

Init ==
  /\ fifo = <<>>
  /\ taken = [c \in Consumers |-> <<>>]
  /\ closed = FALSE

Push ==
  /\ ~closed
  /\ \E p \in Packets : fifo' = Append(fifo, p)
  /\ UNCHANGED <<taken, closed>>

Pop(c) ==
  /\ ~closed
  /\ fifo # <<>>
  /\ fifo' = Tail(fifo)
  /\ taken' = [taken EXCEPT ![c] = Append(@, Head(fifo))]
  /\ UNCHANGED closed

\* queue_destroy drops what is left, for good.
Close ==
  /\ fifo' = <<>>
  /\ closed' = TRUE
  /\ UNCHANGED taken

Next == Push \/ (\E c \in Consumers : Pop(c)) \/ Close

Spec == Init /\ [][Next]_vars
=============================================================================
