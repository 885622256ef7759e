------------------------------ MODULE Lifecycle -----------------------------
(***************************************************************************)
(* The two threads of the program from start to exit: main of init/main.c  *)
(* and comm_rx_thread of comm/comm_manager.c, with the receive queue       *)
(* between them (module Queues).  What the packets do to the FSM is        *)
(* HostFsm's subject: here a packet may stop it or not.                    *)
(***************************************************************************)
EXTENDS Queues, BlProtocol

CONSTANTS DriverTypes,    \* transports considered
          MaxPackets      \* bound: packets the target sends

ASSUME LifecycleAssumption ==
  /\ Threads = {"main", "rx"}
  /\ NULL \notin Threads
  /\ DriverTypes \subseteq {SERIAL, TCP, CAN, UDP}
  /\ MaxPackets \in Nat
  /\ Packets = 1 .. MaxPackets

VARIABLES interface,      \* what the command line asks for, 0 if nothing known
          driver_type,    \* set by transport_init, 0 before it and at the end
          transport,      \* the port or socket: "none", "open" or "closed"
          hung_up,        \* the peer has closed the connection (TCP)
          app_running,    \* cleared by SIGINT
          fsm_running,
          comm_thread_running,
          main,           \* where main is
          rx,             \* where comm_rx_thread is
          received,       \* packets so far (bounded by MaxPackets)
          crashed         \* the process has died of a call that is undefined

flags     == <<app_running, fsm_running, comm_thread_running>>
linkVars  == <<interface, driver_type, transport, hung_up>>
vars      == <<queueVars, linkVars, flags, main, rx, received, crashed>>

\* main up to the loop, in its order.
Startup == <<"parse", "init", "flush", "log", "size", "pool", "queue", "read",
             "create", "loop">>

After(place) ==
  LET i == CHOOSE i \in DOMAIN Startup : Startup[i] = place
  IN  Startup[i + 1]

MainPlaces == ToSet(Startup) \cup
              {"exit", "close", "clear", "join", "destroy", "free", "done"}
RxPlaces   == {"none", "check", "pick", "read", "alloc", "push", "flush", "done"}

Init ==
  /\ QueueInit
  /\ interface \in DriverTypes \cup {0}
  /\ driver_type = 0
  /\ transport = "none"
  /\ hung_up = FALSE
  /\ app_running = TRUE
  /\ fsm_running = FALSE
  /\ comm_thread_running = FALSE
  /\ main = "parse"
  /\ rx = "none"
  /\ received = 0
  /\ crashed = FALSE

\* A read under way that has nothing to deliver comes back: after 100 ms
\* (VTIME of the serial port, SO_RCVTIMEO of the UDP socket) or at the end of
\* a TCP stream.  A TCP read has no timeout, and closing the descriptor does
\* not wake a recv that is under way.  The remark at main.c:236, that VTIME is
\* unreliable on a Raspberry Pi, is not followed: a port that ignores VTIME
\* would be like TCP here, since a close does not wake a read either, and the
\* close at the exit reaches only the reads that begin after it.
ReadReturns == interface # TCP \/ hung_up

-----------------------------------------------------------------------------
(* main. *)

\* Every failure goes to the exit label: wrong arguments, an interface or a
\* port that is not given or not known, no log file, an empty HEX file, no
\* memory, no HEX file any more.
StartupFails ==
  /\ main \in {"parse", "init", "log", "size", "pool", "read"}
  /\ main' = "exit"
  /\ UNCHANGED <<queueVars, linkVars, flags, rx, received, crashed>>

\* The steps that leave nothing the threads share.
StartupGoesOn ==
  /\ main \in {"parse", "log", "size", "pool", "read"}
  /\ main' = After(main)
  /\ UNCHANGED <<queueVars, linkVars, flags, rx, received, crashed>>

\* What a driver's open that fails leaves behind: no descriptor, an open one
\* (tcgetattr of the port or connect has failed), or one it has closed itself
\* (the UDP address makes no sense).
LeftByOpen(type) ==
  {"none"} \cup IF type = UDP THEN {"closed"} ELSE {"open"}

\* Variation: driver_type is set once the driver has been opened.
transport_init_fails_untyped ==
  /\ main = "init"
  /\ interface # 0
  /\ transport' \in LeftByOpen(interface)
  /\ main' = "exit"
  /\ UNCHANGED <<queueVars, interface, driver_type, hung_up, flags, rx, received,
                 crashed>>

\* driver_type is set before the driver is called.
transport_init_fails ==
  /\ main = "init"
  /\ interface # 0
  /\ driver_type' = interface
  /\ transport' \in LeftByOpen(interface)
  /\ main' = "exit"
  /\ UNCHANGED <<queueVars, interface, hung_up, flags, rx, received, crashed>>

transport_init ==
  /\ main = "init"
  /\ interface # 0
  /\ driver_type' = interface
  /\ transport' = "open"
  /\ main' = After(main)
  /\ UNCHANGED <<queueVars, interface, hung_up, flags, rx, received, crashed>>

transport_flush ==
  /\ main = "flush"
  /\ ReadReturns
  /\ main' = After(main)
  /\ UNCHANGED <<queueVars, linkVars, flags, rx, received, crashed>>

InitQueue ==
  /\ main = "queue"
  /\ queue_init
  /\ main' = After(main)
  /\ UNCHANGED <<linkVars, flags, rx, received, crashed>>

\* thread_create, whose result is not looked at, and the start of the FSM.
CreateThread ==
  /\ main = "create"
  /\ comm_thread_running' = TRUE
  /\ rx' \in {"check", "none"}
  /\ fsm_running' = TRUE
  /\ main' = After(main)
  /\ UNCHANGED <<queueVars, linkVars, app_running, received, crashed>>

Running == app_running /\ fsm_running

\* act_fsm_signal_generation polls the queue; fsm_run runs what came of it.
Poll ==
  /\ main = "loop"
  /\ Running
  /\ queue_try_pop("main")
  /\ UNCHANGED <<linkVars, flags, main, rx, received, crashed>>

PollEmpty ==
  /\ TryNothing("main")
  /\ UNCHANGED <<linkVars, flags, main, rx, received, crashed>>

PollPacket ==
  /\ TryEnd("main")
  /\ fsm_running' \in {fsm_running, FALSE}
  /\ UNCHANGED <<linkVars, app_running, comm_thread_running, main, rx,
                 received, crashed>>

PollStep ==
  /\ TryLock("main") \/ TryHead("main")
  /\ UNCHANGED <<linkVars, flags, main, rx, received, crashed>>

LeaveLoop ==
  /\ main = "loop"
  /\ op["main"].step = "idle"
  /\ ~Running
  /\ main' = "exit"
  /\ UNCHANGED <<queueVars, linkVars, flags, rx, received, crashed>>

\* Variation: the RX thread is not told to stop.
StopRxThread_forgotten ==
  /\ main = "exit"
  /\ main' = "close"
  /\ UNCHANGED <<queueVars, linkVars, flags, rx, received, crashed>>

StopRxThread ==
  /\ main = "exit"
  /\ comm_thread_running' = FALSE
  /\ main' = "close"
  /\ UNCHANGED <<queueVars, linkVars, app_running, fsm_running, rx, received,
                 crashed>>

\* The close of no descriptor, or of one that is closed, returns an error.
transport_close ==
  /\ main = "close"
  /\ transport' = IF driver_type # 0 /\ transport = "open"
                  THEN "closed" ELSE transport
  /\ main' = "clear"
  /\ UNCHANGED <<queueVars, interface, driver_type, hung_up, flags, rx, received,
                 crashed>>

\* driver_type is cleared under the RX thread.
ClearDriverType ==
  /\ main = "clear"
  /\ driver_type' = 0
  /\ main' = "join"
  /\ UNCHANGED <<queueVars, interface, transport, hung_up, flags, rx, received,
                 crashed>>

\* Variation: nobody waits for the RX thread.
thread_join_forgotten ==
  /\ main = "join"
  /\ main' = "destroy"
  /\ UNCHANGED <<queueVars, linkVars, flags, rx, received, crashed>>

thread_join ==
  /\ main = "join"
  /\ rx = "done"
  /\ main' = "destroy"
  /\ UNCHANGED <<queueVars, linkVars, flags, rx, received, crashed>>

\* pthread_join of a handle that is all zero is undefined: it returns an
\* error or the process dies.
JoinNoThread ==
  /\ main = "join"
  /\ rx = "none"
  /\ \/ main' = "destroy" /\ UNCHANGED crashed
     \/ crashed' = TRUE /\ UNCHANGED main
  /\ UNCHANGED <<queueVars, linkVars, flags, rx, received>>

DestroyQueue ==
  /\ main = "destroy"
  /\ queue_destroy
  /\ main' = "free"
  /\ UNCHANGED <<linkVars, flags, rx, received, crashed>>

\* Of an exit before queue_init too: a mutex and a condition variable that were
\* never initialised are destroyed.  That is undefined: the process goes on
\* (DestroyQueue) or dies.
DestroyRawQueue ==
  /\ main = "destroy"
  /\ life = "raw"
  /\ crashed' = TRUE
  /\ UNCHANGED <<queueVars, linkVars, flags, main, rx, received>>

\* free_mem_pool and fileio_close.
FreePool ==
  /\ main = "free"
  /\ main' = "done"
  /\ UNCHANGED <<queueVars, linkVars, flags, rx, received, crashed>>

handle_sigint ==
  /\ app_running
  /\ app_running' = FALSE
  /\ UNCHANGED <<queueVars, linkVars, fsm_running, comm_thread_running, main,
                 rx, received, crashed>>

-----------------------------------------------------------------------------
(* comm_rx_thread. *)

RxMoves(to) ==
  /\ rx' = to
  /\ UNCHANGED <<queueVars, linkVars, flags, main, received, crashed>>

\* The conditions of the two loops, of the thread and of transport_receive.
RxCheck ==
  /\ rx = "check"
  /\ RxMoves(IF comm_thread_running THEN "pick" ELSE "done")

\* transport_receive picks the driver.  Without one, or with a descriptor that
\* is closed, the read fails at once.
RxPick ==
  /\ rx = "pick"
  /\ RxMoves(IF driver_type = 0 \/ transport = "closed" THEN "check" ELSE "read")

\* The read comes back empty-handed; transport_receive loops.
RxNothing ==
  /\ rx = "read"
  /\ ReadReturns
  /\ RxMoves("check")

\* The last byte of a frame: a packet, a framing error, or a frame that is
\* dropped (bad CRC, empty payload).
RxFrame ==
  /\ rx = "read"
  /\ transport = "open" /\ ~hung_up
  /\ received < MaxPackets
  /\ received' = received + 1
  /\ rx' \in {"alloc", "flush", "check"}
  /\ UNCHANGED <<queueVars, linkVars, flags, main, crashed>>

RxFlush ==
  /\ rx = "flush"
  /\ ReadReturns
  /\ RxMoves("check")

\* No memory for the copy of the packet: it is dropped.
RxNoMemory ==
  /\ rx = "alloc"
  /\ RxMoves("check")

RxPush ==
  /\ rx = "alloc"
  /\ queue_push("rx", received)
  /\ rx' = "push"
  /\ UNCHANGED <<linkVars, flags, main, received, crashed>>

\* No memory for the node: queue_push writes through the null pointer.
RxPushNoMemory ==
  /\ rx = "alloc"
  /\ crashed' = TRUE
  /\ UNCHANGED <<queueVars, linkVars, flags, main, rx, received>>

RxPushStep ==
  /\ PushLock("rx") \/ PushLink("rx")
  /\ UNCHANGED <<linkVars, flags, main, rx, received, crashed>>

RxPushEnd ==
  /\ PushEnd("rx")
  /\ rx' = "check"
  /\ UNCHANGED <<linkVars, flags, main, received, crashed>>

\* The environment: the TCP peer hangs up.
PeerCloses ==
  /\ interface = TCP
  /\ transport = "open"
  /\ ~hung_up
  /\ hung_up' = TRUE
  /\ UNCHANGED <<queueVars, interface, driver_type, transport, flags, main, rx, received,
                 crashed>>

-----------------------------------------------------------------------------
Main ==
  \/ StartupFails \/ StartupGoesOn
  \/ transport_init \/ transport_init_fails \/ transport_flush \/ InitQueue \/ CreateThread
  \/ Poll \/ PollEmpty \/ PollPacket \/ PollStep
  \/ LeaveLoop \/ StopRxThread \/ transport_close \/ ClearDriverType
  \/ thread_join \/ JoinNoThread
  \/ DestroyQueue \/ DestroyRawQueue \/ FreePool

RxThread ==
  \/ RxCheck \/ RxPick \/ RxNothing \/ RxFrame \/ RxFlush
  \/ RxNoMemory \/ RxPush \/ RxPushNoMemory \/ RxPushStep \/ RxPushEnd

Next == ~crashed /\ (Main \/ RxThread \/ handle_sigint \/ PeerCloses)

\* Both threads are scheduled, and a thread that wants the mutex gets it: the
\* other one holds it for a few assignments only.  No fairness for SIGINT,
\* for the peer, or for frames: RxNothing alone lets the RX thread move on.
Fairness ==
  /\ WF_vars(~crashed /\ Main)
  /\ WF_vars(~crashed /\ RxThread)
  /\ SF_vars(~crashed /\ PollStep)
  /\ SF_vars(~crashed /\ RxPushStep)

Spec == Init /\ [][Next]_vars /\ Fairness

-----------------------------------------------------------------------------
(* Correctness. *)

\* Every push and every poll lies between queue_init and queue_destroy, and
\* queue_destroy runs "when no other threads are accessing the queue" (its
\* warning in queues.c), on every path through main; and a queue the RX thread
\* was created for is an initialised one when it is destroyed.  An exit before
\* queue_init calls queue_destroy without it (DestroyRawQueue); no part of
\* this forbids that.
CallsWhileAlive ==
  /\ \A t \in Threads : op[t].step # "idle" => life = "live"
  /\ main = "destroy" => \A t \in Threads : op[t].step = "idle"
  /\ main = "destroy" /\ rx # "none" => life = "live"

\* A process that ends in an orderly way has freed every node of the queue,
\* the ones of packets nobody has polled included.
NodesFreed == main = "done" => heap = [n \in {} |-> NULL]

\* No path through main leaves the port or the socket open, a driver whose
\* open has failed half-way included.
PortClosed == main \in {"join", "destroy", "free", "done"} => transport # "open"

\* Once the loop is to end, by SIGINT or by the FSM, the program gets through
\* close, join and destroy, whatever the RX thread is doing at that moment: in
\* a read, in a flush after a framing error, or waiting for the mutex.
ExitCompletes ==
  main = "loop" /\ rx # "none" /\ ~Running ~> main = "done" \/ crashed
=============================================================================
