--------------------------- MODULE HostFsmProofs ----------------------------
(***************************************************************************)
(* Safety of the host for every image, every target info and every bound:  *)
(* no constant of HostFsm is fixed here.                                   *)
(*                                                                         *)
(* What a call of pipeline_next_segment returns comes from PipelineProofs. *)
(* Two inductive invariants carry the theorems.  EventDiscipline says what *)
(* the FSM's event queue may hold in each state: it is where the engine,   *)
(* the table and the main loop meet, and none of the three alone implies   *)
(* that an internal event is never freed unhandled.  Phases adds what the  *)
(* context holds before the pipeline is built, while sectors are sent and  *)
(* after a sector has been confirmed.  FramesTyped types the frames on     *)
(* their way and needs Phases, since a frame is cut out of the current     *)
(* sector.  The last part follows the firmware on its way: what a          *)
(* CMD_PIPELINE_DATA carries, and that the cursor leaves no programmed     *)
(* byte behind.                                                            *)
(***************************************************************************)
EXTENDS HostFsm, PipelineProofs

-----------------------------------------------------------------------------
(* Sequences and numbers. *)

\* A sector is cut into at most ceil(size / seg) segments: the estimate of
\* act_build_pipeline.
LEMMA Estimate ==
  ASSUME NEW size \in Nat, NEW seg \in Nat \ {0}, NEW n \in Int
  PROVE  LET segs == (size + seg - 1) \div seg
         IN  /\ segs \in Nat
             /\ n * seg <= size => n <= segs
             /\ n * seg < size => n + 1 <= segs
<1> DEFINE segs == (size + seg - 1) \div seg
<1>1. /\ segs \in Nat
      /\ size + seg - 1 < seg * segs + seg
  OBVIOUS
<1> HIDE DEF segs
<1>2. ASSUME n * seg <= size PROVE n <= segs
  <2>1. n * seg < seg * (segs + 1)
    BY <1>1, <1>2
  <2> QED BY <1>1, <2>1
<1>3. ASSUME n * seg < size PROVE n + 1 <= segs
  <2>1. (n + 1) * seg < seg * (segs + 1)
    BY <1>1, <1>3
  <2> QED BY <1>1, <2>1
<1> QED BY <1>1, <1>2, <1>3 DEF segs

\* Taking the head off a queue.
LEMMA PopQueue ==
  ASSUME NEW S, NEW q \in Seq(S), q # <<>>
  PROVE  /\ Tail(q) \in Seq(S)
         /\ Len(Tail(q)) = Len(q) - 1
         /\ Head(q) = q[1]
         /\ Head(q) \in S
         /\ Len(q) \in Nat \ {0}
         /\ \A n \in 1 .. Len(Tail(q)) : Tail(q)[n] = q[n + 1]
  OBVIOUS

\* Arithmetic the provers do not find under Len.
LEMMA OneLeft ==
  ASSUME NEW k \in Nat \ {0}, k <= 2
  PROVE  /\ k - 1 \in {0, 1}
         /\ k # 2 => k = 1 /\ k - 1 = 0
  OBVIOUS

\* A length of zero or one is below the bound of two.
LEMMA ZeroOrOne ==
  ASSUME NEW k \in {0, 1}
  PROVE  k <= 2 /\ k # 2
  OBVIOUS

\* A queue of length zero takes at most one event more.
LEMMA SumAtMostOne ==
  ASSUME NEW j, j = 0, NEW k \in Nat, k <= 1
  PROVE  j + k <= 2 /\ j + k # 2
  OBVIOUS

\* The provers do not see the size of a uint16_t: these facts are all they
\* need.
LEMMA Uint16Max == UINT16_MAX \in Nat
  BY DEF UINT16_MAX

LEMMA Uint16 ==
  /\ uint16 \subseteq Nat
  /\ 0 \in uint16
  /\ \A x \in uint16 : \A y \in Nat : y <= x => y \in uint16
  BY Uint16Max DEF uint16

\* A queue of length zero is the empty queue.
LEMMA EmptyQueue ==
  ASSUME NEW S, NEW q \in Seq(S)
  PROVE  (q = <<>>) <=> (Len(q) = 0)
  OBVIOUS

\* Appending to a queue.
LEMMA PushQueue ==
  ASSUME NEW S, NEW q \in Seq(S), NEW e \in S
  PROVE  /\ Append(q, e) \in Seq(S)
         /\ Len(Append(q, e)) = Len(q) + 1
         /\ \A n \in 1 .. Len(Append(q, e)) :
              Append(q, e)[n] = IF n = Len(q) + 1 THEN e ELSE q[n]
         /\ DOMAIN Append(q, e) = 1 .. Len(q) + 1
  OBVIOUS

-----------------------------------------------------------------------------
(* The event discipline. *)

\* In the poll the queue is empty but for the very first EVT_START; during a
\* run it holds one event, two only when a response has joined that EVT_START;
\* an event of the FSM itself is always at the head and has a row; a stopped
\* FSM has none left.
EventDiscipline ==
  /\ pc \in {"poll", "run", "exit", "undefined"}
  /\ fsm_running \in BOOLEAN
  /\ current_state \in States
  /\ fsm_queue \in Seq(Events)
  /\ rx_queue \in Seq(Responses)
  /\ Len(fsm_queue) <= 2
  /\ \A n \in 1 .. Len(fsm_queue) :
       /\ fsm_queue[n].type \in InternalEvents =>
            n = 1 /\ HasRow(current_state, fsm_queue[n].type)
       /\ fsm_queue[n].type = "EVT_TARGET_INFO" =>
            fsm_queue[n].data \in Responses
  /\ Len(fsm_queue) = 2 => current_state = "ST_INIT"
  /\ current_state = "ST_INIT" =>
       Len(fsm_queue) > 0 /\ fsm_queue[1].type = "EVT_START"
  /\ pc = "poll" =>
       Len(fsm_queue) = IF current_state = "ST_INIT" THEN 1 ELSE 0
  /\ ~fsm_running => Len(fsm_queue) = 0

\* The row an action belongs to: the state it is taken in, the event it
\* handles and the state it leads to.  act_send_window has three rows.
LEMMA RowOf ==
  /\ Takes("act_send_reset") =>
       /\ current_state = "ST_INIT" /\ Head(fsm_queue).type = "EVT_START"
       /\ current_state' = "ST_SEND_RESET"
  /\ Takes("act_target_info") =>
       /\ current_state = "ST_SEND_RESET"
       /\ Head(fsm_queue).type = "EVT_TARGET_INFO"
       /\ current_state' = "ST_BUILD_PIPELINE"
  /\ Takes("act_build_pipeline") =>
       /\ current_state = "ST_BUILD_PIPELINE"
       /\ Head(fsm_queue).type = "EVT_START"
       /\ current_state' = "ST_SEND_WINDOW"
  /\ Takes("act_send_window") =>
       /\ \/ current_state \in {"ST_SEND_WINDOW", "ST_NEXT_SECTOR"}
               /\ Head(fsm_queue).type = "EVT_START"
          \/ current_state = "ST_SEND_WINDOW"
               /\ Head(fsm_queue).type = "EVT_SEG_ACK"
       /\ current_state' = "ST_SEND_WINDOW"
  /\ Takes("act_crc_verify") =>
       /\ current_state = "ST_SEND_WINDOW"
       /\ Head(fsm_queue).type = "EVT_SECTOR_END"
       /\ current_state' = "ST_VERIFY"
  /\ Takes("act_crc_nack") =>
       /\ current_state = "ST_VERIFY" /\ Head(fsm_queue).type = "EVT_CRC_NACK"
       /\ current_state' = "ST_SEND_WINDOW"
  /\ Takes("act_next_sector") =>
       /\ current_state = "ST_VERIFY" /\ Head(fsm_queue).type = "EVT_CRC_OK"
       /\ current_state' = "ST_NEXT_SECTOR"
  /\ Takes("act_app_jump") =>
       /\ current_state = "ST_NEXT_SECTOR"
       /\ Head(fsm_queue).type = "EVT_ALL_SECTORS_DONE"
       /\ current_state' = "ST_APP_JUMP"
  /\ Takes("act_done") =>
       /\ current_state = "ST_APP_JUMP" /\ Head(fsm_queue).type = "EVT_APP_ACK"
       /\ current_state' = "ST_DONE"
  BY DEF Takes, fsm_table, Row

\* The events an action may dispatch have a row in the state it leads to.
LEMMA DispatchedRows ==
  /\ HasRow("ST_BUILD_PIPELINE", "EVT_START")
  /\ HasRow("ST_SEND_WINDOW", "EVT_START")
  /\ HasRow("ST_SEND_WINDOW", "EVT_SECTOR_END")
  /\ HasRow("ST_NEXT_SECTOR", "EVT_START")
  /\ HasRow("ST_NEXT_SECTOR", "EVT_ALL_SECTORS_DONE")
  /\ HasRow("ST_INIT", "EVT_START")
  BY DEF HasRow, fsm_table, Row

\* A handled event leaves a queue of at most one event from the target.
LEMMA Consumed ==
  ASSUME EventDiscipline, fsm_queue # <<>>, Consume
  PROVE  /\ fsm_queue' \in Seq(Events)
         /\ Len(fsm_queue') = Len(fsm_queue) - 1
         /\ current_state # "ST_INIT" => Len(fsm_queue') = 0
         /\ \A n \in 1 .. Len(fsm_queue') :
              /\ fsm_queue'[n].type \notin InternalEvents
              /\ fsm_queue'[n].type = "EVT_TARGET_INFO" =>
                   fsm_queue'[n].data \in Responses
<1>1. /\ Tail(fsm_queue) \in Seq(Events)
      /\ Len(Tail(fsm_queue)) = Len(fsm_queue) - 1
      /\ \A n \in 1 .. Len(Tail(fsm_queue)) :
           Tail(fsm_queue)[n] = fsm_queue[n + 1]
      /\ Len(fsm_queue) \in Nat \ {0}
  BY PopQueue DEF EventDiscipline
<1>2. ASSUME NEW n \in 1 .. Len(Tail(fsm_queue))
      PROVE  /\ Tail(fsm_queue)[n].type \notin InternalEvents
             /\ Tail(fsm_queue)[n].type = "EVT_TARGET_INFO" =>
                  Tail(fsm_queue)[n].data \in Responses
  <2>1. n + 1 \in 1 .. Len(fsm_queue) /\ n + 1 # 1
    BY <1>1
  <2> QED BY <1>1, <2>1 DEF EventDiscipline
<1> QED BY <1>1, <1>2 DEF Consume, EventDiscipline

\* With one event in the queue, a dispatch replaces it.
LEMMA Dispatched ==
  ASSUME EventDiscipline, fsm_queue # <<>>, current_state # "ST_INIT",
         NEW type \in InternalEvents, Dispatch(type)
  PROVE  /\ fsm_queue' \in Seq(Events)
         /\ Len(fsm_queue') = 1
         /\ fsm_queue'[1] = Event(type)
         /\ fsm_queue'[1].type = type
<1>1. Tail(fsm_queue) \in Seq(Events) /\ Len(Tail(fsm_queue)) = 0
  <2>1. fsm_queue \in Seq(Events) /\ Len(fsm_queue) # 2 /\ Len(fsm_queue) <= 2
    BY DEF EventDiscipline
  <2>2. Len(fsm_queue) \in Nat \ {0}
    BY <2>1, PopQueue
  <2>3. Len(fsm_queue) - 1 = 0
    BY <2>1, <2>2, OneLeft
  <2>4. fsm_queue # <<>>
    OBVIOUS
  <2> QED BY <2>1, <2>3, <2>4, PopQueue
<1>2. Event(type) \in Events
  BY DEF Event, Events
<1>3. fsm_queue' = Append(Tail(fsm_queue), Event(type))
  BY DEF Dispatch
<1> QED BY <1>1, <1>2, <1>3, PushQueue DEF Event

\* A step that takes an event and dispatches none keeps the discipline.
LEMMA ConsumeStep ==
  ASSUME EventDiscipline, NEW action, Takes(action), Consume,
         current_state' \in States \ {"ST_INIT"},
         pc' \in {"run", "undefined"},
         \/ fsm_running' = fsm_running
         \/ fsm_running' = FALSE /\ current_state # "ST_INIT"
  PROVE  EventDiscipline'
<1>1. fsm_queue # <<>> /\ rx_queue' = rx_queue
  BY DEF Takes
<1>2. Len(fsm_queue) \in Nat \ {0} /\ Len(fsm_queue) <= 2
  BY <1>1, PopQueue DEF EventDiscipline
<1>3. fsm_running = TRUE
  BY <1>2 DEF EventDiscipline
<1>4. ~fsm_running' => Len(fsm_queue') = 0
  BY <1>1, <1>3, Consumed
<1>5. Len(fsm_queue') \in {0, 1}
  <2>1. Len(fsm_queue') = Len(fsm_queue) - 1
    BY <1>1, Consumed
  <2> QED BY <1>2, <2>1, OneLeft
<1>6. Len(fsm_queue') <= 2 /\ Len(fsm_queue') # 2
  BY <1>5, ZeroOrOne
<1>7. pc' # "poll" /\ current_state' # "ST_INIT" /\ fsm_running' \in BOOLEAN
  BY <1>3
<1>8. \A n \in 1 .. Len(fsm_queue') :
        /\ fsm_queue'[n].type \in InternalEvents =>
             n = 1 /\ HasRow(current_state', fsm_queue'[n].type)
        /\ fsm_queue'[n].type = "EVT_TARGET_INFO" =>
             fsm_queue'[n].data \in Responses
  BY <1>1, Consumed
<1>9. fsm_queue' \in Seq(Events)
  BY <1>1, Consumed
<1> QED BY <1>1, <1>4, <1>6, <1>7, <1>8, <1>9 DEF EventDiscipline, HasRow

\* A step that takes an event and dispatches one with a row in the new state
\* keeps the discipline.
LEMMA DispatchStep ==
  ASSUME EventDiscipline, NEW action, Takes(action),
         current_state # "ST_INIT",
         NEW type \in InternalEvents, Dispatch(type),
         HasRow(current_state', type),
         current_state' \in States \ {"ST_INIT"},
         pc' = pc, fsm_running' = fsm_running
  PROVE  EventDiscipline'
<1>1. fsm_queue # <<>> /\ rx_queue' = rx_queue /\ pc = "run"
  BY DEF Takes
<1>2. Len(fsm_queue) \in Nat \ {0}
  BY <1>1, PopQueue DEF EventDiscipline
<1>3. fsm_running' = TRUE
  BY <1>2 DEF EventDiscipline
<1>4. /\ fsm_queue' \in Seq(Events)
      /\ Len(fsm_queue') = 1
      /\ fsm_queue'[1].type = type
  BY <1>1, Dispatched
<1>5. type # "EVT_TARGET_INFO"
  BY DEF InternalEvents
<1>6. \A n \in 1 .. Len(fsm_queue') : n = 1
  BY <1>4
<1> QED BY <1>1, <1>3, <1>4, <1>5, <1>6 DEF EventDiscipline, HasRow

\* The event made of a response is one of the target's, with its packet when
\* it is a target info.
LEMMA SignalType ==
  ASSUME NEW pkt \in Responses
  PROVE  /\ SignalOf(pkt) \in Seq(Events)
         /\ Len(SignalOf(pkt)) <= 1
         /\ \A n \in 1 .. Len(SignalOf(pkt)) :
              /\ SignalOf(pkt)[n].type \notin InternalEvents
              /\ SignalOf(pkt)[n].type = "EVT_TARGET_INFO" =>
                   SignalOf(pkt)[n].data \in Responses
<1>1. SignalOf(pkt) \in
        {<<>>, <<[type |-> "EVT_TARGET_INFO", data |-> pkt]>>,
         <<Event("EVT_SEG_ACK")>>, <<Event("EVT_CRC_OK")>>,
         <<Event("EVT_CRC_NACK")>>, <<Event("EVT_APP_ACK")>>}
  BY DEF SignalOf
<1>2. \A e \in {"EVT_SEG_ACK", "EVT_CRC_OK", "EVT_CRC_NACK", "EVT_APP_ACK"} :
        /\ Event(e) \in Events
        /\ Event(e).type \notin InternalEvents
        /\ Event(e).type # "EVT_TARGET_INFO"
  BY DEF Event, Events, InternalEvents, ExternalEvents
<1>3. [type |-> "EVT_TARGET_INFO", data |-> pkt] \in Events
  BY DEF Events, ExternalEvents
<1>4. ASSUME NEW e \in Events, SignalOf(pkt) = <<e>>,
             e.type \notin InternalEvents,
             e.type = "EVT_TARGET_INFO" => e.data \in Responses
      PROVE  /\ SignalOf(pkt) \in Seq(Events)
             /\ Len(SignalOf(pkt)) <= 1
             /\ \A n \in 1 .. Len(SignalOf(pkt)) :
                  /\ SignalOf(pkt)[n].type \notin InternalEvents
                  /\ SignalOf(pkt)[n].type = "EVT_TARGET_INFO" =>
                       SignalOf(pkt)[n].data \in Responses
  BY <1>4
<1>5. CASE SignalOf(pkt) = <<>>
  BY <1>5
<1>6. CASE SignalOf(pkt) = <<[type |-> "EVT_TARGET_INFO", data |-> pkt]>>
  BY <1>3, <1>4, <1>6 DEF InternalEvents
<1>7. CASE \E e \in {"EVT_SEG_ACK", "EVT_CRC_OK", "EVT_CRC_NACK", "EVT_APP_ACK"} :
             SignalOf(pkt) = <<Event(e)>>
  BY <1>2, <1>4, <1>7
<1> QED BY <1>1, <1>5, <1>6, <1>7

\* main dispatches EVT_START into the initial state, which has a row for it.
LEMMA InitDiscipline == Init => EventDiscipline
<1> SUFFICES ASSUME Init PROVE EventDiscipline
  OBVIOUS
<1>1. Event("EVT_START") \in Events
  BY DEF Event, Events, InternalEvents
<1>2. /\ fsm_queue \in Seq(Events)
      /\ Len(fsm_queue) = 1
      /\ fsm_queue[1] = Event("EVT_START")
  BY <1>1 DEF Init
<1>3. HasRow(current_state, "EVT_START")
  BY DispatchedRows DEF Init
<1> QED BY <1>2, <1>3 DEF Init, EventDiscipline, Event, States

\* A response turned into an event joins at most one event, and only the
\* very first EVT_START.
LEMMA SignalStep == EventDiscipline /\ SignalGeneration => EventDiscipline'
<1> SUFFICES ASSUME EventDiscipline, SignalGeneration
             PROVE  EventDiscipline'
  OBVIOUS
<1> DEFINE new == SignalOf(Head(rx_queue))
<1>1. Head(rx_queue) \in Responses /\ Tail(rx_queue) \in Seq(Responses)
  BY PopQueue DEF SignalGeneration, EventDiscipline
<1>2. /\ new \in Seq(Events)
      /\ Len(new) <= 1
      /\ \A n \in 1 .. Len(new) :
           /\ new[n].type \notin InternalEvents
           /\ new[n].type = "EVT_TARGET_INFO" => new[n].data \in Responses
  BY <1>1, SignalType
<1> HIDE DEF new
<1>3. /\ fsm_queue' = fsm_queue \o new
      /\ rx_queue' = Tail(rx_queue)
      /\ pc = "poll" /\ pc' = "run"
      /\ current_state' = current_state
      /\ fsm_running /\ fsm_running' = fsm_running
  BY DEF SignalGeneration, MainLoopRuns, new
<1>4. fsm_queue \in Seq(Events)
  BY DEF EventDiscipline
<1>5. /\ fsm_queue \o new \in Seq(Events)
      /\ Len(fsm_queue \o new) = Len(fsm_queue) + Len(new)
      /\ \A n \in 1 .. Len(fsm_queue) : (fsm_queue \o new)[n] = fsm_queue[n]
      /\ \A n \in 1 .. Len(new) :
           (fsm_queue \o new)[n + Len(fsm_queue)] = new[n]
      /\ Len(fsm_queue) \in Nat /\ Len(new) \in Nat
  BY <1>2, <1>4
<1>6. \A n \in 1 .. Len(fsm_queue \o new) :
        \/ n \in 1 .. Len(fsm_queue)
        \/ \E m \in 1 .. Len(new) : n = m + Len(fsm_queue)
  <2> SUFFICES ASSUME NEW n \in 1 .. Len(fsm_queue \o new),
                      n \notin 1 .. Len(fsm_queue)
               PROVE  \E m \in 1 .. Len(new) : n = m + Len(fsm_queue)
    OBVIOUS
  <2> WITNESS n - Len(fsm_queue) \in 1 .. Len(new)
  <2> QED BY <1>5
<1>7. \A n \in 1 .. Len(fsm_queue') :
        /\ fsm_queue'[n].type \in InternalEvents =>
             n = 1 /\ HasRow(current_state', fsm_queue'[n].type)
        /\ fsm_queue'[n].type = "EVT_TARGET_INFO" =>
             fsm_queue'[n].data \in Responses
  <2> SUFFICES ASSUME NEW n \in 1 .. Len(fsm_queue \o new)
               PROVE  LET e == (fsm_queue \o new)[n]
                      IN  /\ e.type \in InternalEvents =>
                               n = 1 /\ HasRow(current_state', e.type)
                          /\ e.type = "EVT_TARGET_INFO" =>
                               e.data \in Responses
    BY <1>3
  <2>1. CASE n \in 1 .. Len(fsm_queue)
    <3>1. (fsm_queue \o new)[n] = fsm_queue[n]
      BY <2>1, <1>5
    <3> QED BY <3>1, <2>1, <1>3 DEF EventDiscipline, HasRow
  <2>2. CASE \E m \in 1 .. Len(new) : n = m + Len(fsm_queue)
    <3>1. PICK m \in 1 .. Len(new) : n = m + Len(fsm_queue)
      BY <2>2
    <3>2. (fsm_queue \o new)[n] = new[m]
      BY <3>1, <1>5
    <3> QED BY <3>2, <1>2
  <2> QED BY <1>6, <2>1, <2>2
<1>8. /\ Len(fsm_queue') <= 2
      /\ Len(fsm_queue') = 2 => current_state = "ST_INIT"
  <2>1. CASE current_state = "ST_INIT"
    BY <2>1, <1>2, <1>3, <1>5 DEF EventDiscipline
  <2>2. CASE current_state # "ST_INIT"
    <3>1. Len(fsm_queue) = 0
      BY <2>2, <1>3 DEF EventDiscipline
    <3> QED BY <3>1, <1>2, <1>3, <1>5, SumAtMostOne
  <2> QED BY <2>1, <2>2
<1>9. current_state = "ST_INIT" =>
        Len(fsm_queue') > 0 /\ fsm_queue'[1].type = "EVT_START"
  BY <1>3, <1>5 DEF EventDiscipline
<1>10. fsm_queue' \in Seq(Events) /\ rx_queue' \in Seq(Responses)
  BY <1>1, <1>3, <1>5
<1> QED BY <1>3, <1>7, <1>8, <1>9, <1>10 DEF EventDiscipline

\* The actions that only consume their event.
LEMMA ConsumingActions ==
  ASSUME EventDiscipline,
         \/ act_send_reset
         \/ act_target_info_reject
         \/ act_build_pipeline_undefined
         \/ act_send_window
         \/ act_send_window_null
         \/ act_send_window_overrun
         \/ act_crc_verify
         \/ act_crc_nack_abort
         \/ act_app_jump
         \/ act_done
  PROVE  EventDiscipline'
<1> USE RowOf
<1>1. CASE act_send_reset
  BY <1>1, ConsumeStep DEF act_send_reset, Takes, States
<1>2. CASE act_target_info_reject
  BY <1>2, ConsumeStep DEF act_target_info_reject, Takes, States
<1>3. CASE act_build_pipeline_undefined
  BY <1>3, ConsumeStep DEF act_build_pipeline_undefined, Takes, States
<1>4. CASE act_send_window
  BY <1>4, ConsumeStep DEF act_send_window, Takes, States
<1>5. CASE act_send_window_null
  BY <1>5, ConsumeStep DEF act_send_window_null, Takes, States
<1>6. CASE act_send_window_overrun
  BY <1>6, ConsumeStep DEF act_send_window_overrun, Takes, States
<1>7. CASE act_crc_verify
  BY <1>7, ConsumeStep DEF act_crc_verify, Takes, States
<1>8. CASE act_crc_nack_abort
  BY <1>8, ConsumeStep DEF act_crc_nack_abort, Takes, States
<1>9. CASE act_app_jump
  BY <1>9, ConsumeStep DEF act_app_jump, Takes, States
<1>10. CASE act_done
  BY <1>10, ConsumeStep DEF act_done, Takes, States
<1> QED BY <1>1, <1>2, <1>3, <1>4, <1>5, <1>6, <1>7, <1>8, <1>9, <1>10

\* The actions that dispatch an event to the FSM itself.
LEMMA DispatchingActions ==
  ASSUME EventDiscipline,
         \/ act_target_info
         \/ act_build_pipeline
         \/ act_send_window_sector_end
         \/ act_crc_nack
         \/ act_next_sector
  PROVE  EventDiscipline'
<1> USE RowOf, DispatchedRows
<1>1. CASE act_target_info
  BY <1>1, DispatchStep DEF act_target_info, Takes, States, InternalEvents
<1>2. CASE act_build_pipeline
  BY <1>2, DispatchStep DEF act_build_pipeline, Takes, States, InternalEvents
<1>3. CASE act_send_window_sector_end
  BY <1>3, DispatchStep
     DEF act_send_window_sector_end, Takes, States, InternalEvents
<1>4. CASE act_crc_nack
  BY <1>4, DispatchStep DEF act_crc_nack, Takes, States, InternalEvents
<1>5. CASE act_next_sector
  <2>1. AfterSector(current_sector + 1) \in
          {"EVT_START", "EVT_ALL_SECTORS_DONE"}
    BY DEF AfterSector
  <2> QED
    BY <1>5, <2>1, DispatchStep DEF act_next_sector, Takes, States,
                                    InternalEvents
<1> QED BY <1>1, <1>2, <1>3, <1>4, <1>5

\* An event no row matches is not one the FSM sent itself; the queue left
\* behind is empty, for the very first event has a row.
LEMMA DropStep == EventDiscipline /\ DropEvent => EventDiscipline'
<1> SUFFICES ASSUME EventDiscipline, DropEvent PROVE EventDiscipline'
  OBVIOUS
<1>1. /\ pc = "run" /\ pc' = pc
      /\ fsm_queue # <<>>
      /\ ~HasRow(current_state, Head(fsm_queue).type)
      /\ UNCHANGED <<fsm_running, current_state, rx_queue>>
      /\ Consume
  BY DEF DropEvent
<1>2. Head(fsm_queue) = fsm_queue[1]
  BY <1>1, PopQueue DEF EventDiscipline
<1>3. current_state # "ST_INIT"
  BY <1>1, <1>2, DispatchedRows DEF EventDiscipline
<1>4. /\ fsm_queue' \in Seq(Events)
      /\ Len(fsm_queue') = 0
  BY <1>1, <1>3, Consumed
<1>5. Len(fsm_queue') <= 2 /\ Len(fsm_queue') # 2
  BY <1>4
<1>6. 1 .. Len(fsm_queue') = {}
  BY <1>4
<1> QED BY <1>1, <1>3, <1>4, <1>5, <1>6 DEF EventDiscipline

\* Every step keeps the event discipline.
LEMMA DisciplineStep == EventDiscipline /\ [Next]_vars => EventDiscipline'
<1> SUFFICES ASSUME EventDiscipline, [Next]_vars PROVE EventDiscipline'
  OBVIOUS
<1> USE DEF EventDiscipline, HasRow
<1>1. CASE SignalGeneration
  BY <1>1, SignalStep
<1>2. CASE EmptyPoll
  BY <1>2 DEF EmptyPoll, fsmVars
<1>3. CASE RunDone
  <2>1. Len(fsm_queue) = 0
    BY <1>3, EmptyQueue DEF RunDone
  <2> QED BY <1>3, <2>1 DEF RunDone, fsmVars
<1>4. CASE DropEvent
  BY <1>4, DropStep
<1>5. CASE MainExit
  BY <1>5 DEF MainExit, fsmVars
<1>6. CASE FsmAction
  BY <1>6, ConsumingActions, DispatchingActions DEF FsmAction
<1>7. CASE handle_sigint
  BY <1>7 DEF handle_sigint, fsmVars
<1>8. ASSUME NEW pkt \in Responses, comm_rx_thread(pkt)
      PROVE  EventDiscipline'
  BY <1>8 DEF comm_rx_thread, fsmVars
<1>9. CASE FrameLeaves
  BY <1>9 DEF FrameLeaves, fsmVars
<1>10. CASE UNCHANGED vars
  BY <1>10 DEF vars, fsmVars, queueVars
<1> QED BY <1>1, <1>2, <1>3, <1>4, <1>5, <1>6, <1>7, <1>8, <1>9, <1>10
        DEF Next, Host

\* The queue discipline is an invariant of the host.
THEOREM Discipline == Spec => []EventDiscipline
  BY InitDiscipline, DisciplineStep, PTL DEF Spec

\* Whatever responses are queued, fsm_run never frees an event the FSM sent
\* to itself.
THEOREM EventsHandled == Spec => []InternalEventsHandled
<1>1. EventDiscipline => InternalEventsHandled
  BY DEF EventDiscipline, InternalEventsHandled
<1> QED BY <1>1, Discipline, PTL

-----------------------------------------------------------------------------
(* The phases of an update. *)

Early == {"ST_INIT", "ST_SEND_RESET", "ST_BUILD_PIPELINE"}

\* fsm_run is about to handle an event of this type.
Pending(type) == fsm_queue # <<>> /\ Head(fsm_queue).type = type

\* What the context holds before the pipeline is built and after it.
BuildPhase ==
  /\ current_state \in Early =>
       sectors = <<>> /\ current_sector = 0 /\ offset = 0 /\ retry_count = 0
  /\ current_state = "ST_BUILD_PIPELINE" /\ fsm_running =>
       sector_size \in SectorSizes /\ max_retries = MAX_RETRY
  /\ current_state \notin Early /\ pc # "undefined" =>
       /\ max_retries = MAX_RETRY
       /\ segment_size > 0
       /\ sector_size \in SectorSizes
       /\ sectors = PipelineOf[sector_size]

\* Where the cursor stands while the sectors are sent and confirmed.
SendPhase ==
  /\ \/ current_state = "ST_SEND_WINDOW" /\ Pending("EVT_SECTOR_END")
     \/ current_state = "ST_VERIFY"
     => current_sector < Len(sectors)
  /\ current_state = "ST_SEND_WINDOW" /\ Pending("EVT_START") => offset = 0
  /\ current_state = "ST_NEXT_SECTOR" =>
       /\ current_sector > 0 /\ offset = 0 /\ retry_count = 0
       /\ Pending("EVT_ALL_SECTORS_DONE") => current_sector >= Len(sectors)
  /\ current_state \in {"ST_APP_JUMP", "ST_DONE"} =>
       current_sector > 0 /\ current_sector >= Len(sectors) /\ retry_count = 0
  /\ fsm_running => retry_count < MAX_RETRY

\* TypeOK without the event queues, which EventDiscipline types, and the
\* frames.
Ranges ==
  /\ driver_type \in DriverTypes
  /\ image \in Images
  /\ app_running \in BOOLEAN
  /\ sector_size \in uint16
  /\ segment_size \in uint16
  /\ sectors = <<>> \/ (sector_size \in SectorSizes
                          /\ sectors = PipelineOf[sector_size])
  /\ current_sector \in 0 .. Len(sectors)
  /\ offset \in 0 .. sector_size
  /\ retry_count \in 0 .. MAX_RETRY
  /\ max_retries \in {0, MAX_RETRY}
  /\ segments_sent \in Nat
  /\ total_segments \in Nat
  /\ app_start \in Nat

Phases == EventDiscipline /\ Ranges /\ BuildPhase /\ SendPhase

\* What is left in the queue once a handler has consumed its event, or has
\* dispatched another one.
LEMMA QueueAfter ==
  ASSUME EventDiscipline, NEW action, Takes(action),
         current_state # "ST_INIT"
  PROVE  /\ Consume => fsm_queue' = <<>>
         /\ \A type \in InternalEvents : Dispatch(type) =>
              fsm_queue' # <<>> /\ Head(fsm_queue').type = type
<1>1. fsm_queue # <<>>
  BY DEF Takes
<1>2. ASSUME Consume PROVE fsm_queue' = <<>>
  <2>1. fsm_queue' \in Seq(Events) /\ Len(fsm_queue') = 0
    BY <1>1, <1>2, Consumed
  <2> QED BY <2>1, EmptyQueue
<1>3. ASSUME NEW type \in InternalEvents, Dispatch(type)
      PROVE  fsm_queue' # <<>> /\ Head(fsm_queue').type = type
  <2>1. fsm_queue' \in Seq(Events) /\ Len(fsm_queue') = 1
        /\ fsm_queue'[1].type = type
    BY <1>1, <1>3, Dispatched
  <2> QED BY <2>1
<1> QED BY <1>2, <1>3

\* The sector array, when there is one, is what pipeline_build returned.
LEMMA SectorArray ==
  ASSUME Ranges
  PROVE  /\ sectors \in Seq(SectorOf(sector_size))
         /\ Len(sectors) \in Nat
         /\ current_sector \in Nat
         /\ current_sector < Len(sectors) =>
              CurrentSector \in SectorOf(sector_size)
<1>1. sectors \in Seq(SectorOf(sector_size))
  <2>1. CASE sectors = <<>>
    BY <2>1
  <2>2. CASE sector_size \in SectorSizes /\ sectors = PipelineOf[sector_size]
    BY <2>2, PipelineAssumption DEF SectorsWithin, Ranges, PipelineOf
  <2> QED BY <2>1, <2>2 DEF Ranges
<1>2. Len(sectors) \in Nat
  BY <1>1
<1> QED BY <1>1, <1>2 DEF Ranges, CurrentSector

\* The estimate of segments per sector is a number once the sizes are known.
LEMMA SegsNat ==
  ASSUME sector_size \in Nat, segment_size \in Nat \ {0}
  PROVE  SegsPerSector \in Nat
<1>1. sector_size + segment_size - 1 \in Nat
  OBVIOUS
<1> QED BY <1>1 DEF SegsPerSector

\* The sizes are numbers, and the offset lies in the sector.
LEMMA SizesNat ==
  ASSUME Ranges, segment_size > 0
  PROVE  /\ sector_size \in Nat /\ segment_size \in Nat \ {0}
         /\ offset \in 0 .. sector_size
<1>1. /\ sector_size \in uint16 /\ segment_size \in uint16
      /\ offset \in 0 .. sector_size
  BY DEF Ranges
<1> QED BY <1>1, Uint16

\* The offset a call of pipeline_next_segment leaves stays in the sector.
LEMMA WalkOffset ==
  ASSUME Ranges, segment_size > 0, current_sector < Len(sectors)
  PROVE  /\ Walk.offset \in 0 .. sector_size
         /\ Walk.len \in Int
         /\ Walk.addr \in Nat
         /\ Walk.data \in Seq(Byte)
<1>1. CurrentSector \in SectorOf(sector_size)
  BY SectorArray
<1>2. /\ sector_size \in Nat /\ segment_size \in Nat \ {0}
      /\ offset \in 0 .. sector_size
  BY SizesNat
<1> DEFINE walk == pipeline_next_segment(CurrentSector, offset, segment_size)
<1>3. /\ walk.offset \in offset .. sector_size
      /\ walk.len \in Int
      /\ walk.addr \in Nat
      /\ walk.data \in Seq(Byte)
  BY <1>1, <1>2, NextSegmentCall
<1>4. Walk = walk
  BY DEF Walk
<1> HIDE DEF walk
<1> QED BY <1>2, <1>3, <1>4

\* A segment the walk finds has as many bytes as its length says.
LEMMA SegmentOfWalk ==
  ASSUME Ranges, segment_size > 0, current_sector < Len(sectors),
         Walk.len >= 0
  PROVE  /\ Walk.len \in Nat /\ Walk.addr \in Nat /\ Walk.data \in Seq(Byte)
         /\ Len(Walk.data) = Walk.len
<1>1. CurrentSector \in SectorOf(sector_size)
  BY SectorArray
<1>2. /\ sector_size \in Nat /\ segment_size \in Nat \ {0}
      /\ offset \in 0 .. sector_size
  BY SizesNat
<1>3. Walk.len \in Int /\ Walk.addr \in Nat /\ Walk.data \in Seq(Byte)
  BY WalkOffset
<1> DEFINE walk == pipeline_next_segment(CurrentSector, offset, segment_size)
<1>4. walk.len >= 0 => Len(walk.data) = walk.len
  BY <1>1, <1>2, NextSegmentCall
<1>5. Walk = walk
  BY DEF Walk
<1> HIDE DEF walk
<1> QED BY <1>3, <1>4, <1>5

\* A walk that finds no segment leaves the cursor at the end of the sector.
LEMMA WalkExhausted ==
  ASSUME Ranges, segment_size > 0, current_sector < Len(sectors), Walk.len < 0
  PROVE  Walk.offset = sector_size
<1>1. CurrentSector \in SectorOf(sector_size)
  BY SectorArray
<1>2. /\ sector_size \in Nat /\ segment_size \in Nat \ {0}
      /\ offset \in 0 .. sector_size
  BY SizesNat
<1> DEFINE walk == pipeline_next_segment(CurrentSector, offset, segment_size)
<1>3. walk.len < 0 => walk.offset = sector_size
  BY <1>1, <1>2, NextSegmentCall
<1>4. Walk = walk
  BY DEF Walk
<1> HIDE DEF walk
<1> QED BY <1>3, <1>4

\* At startup the context is zeroed and the first event is queued.
LEMMA PhasesInit == Init => Phases
<1> SUFFICES ASSUME Init PROVE Phases
  OBVIOUS
<1>1. EventDiscipline
  BY InitDiscipline
<1>2. Ranges
  <2>1. /\ driver_type \in DriverTypes /\ image \in Images
        /\ app_running \in BOOLEAN
        /\ sectors = <<>>
    BY DEF Init
  <2>2. /\ current_sector \in 0 .. Len(sectors)
        /\ offset \in 0 .. sector_size
        /\ retry_count \in 0 .. MAX_RETRY
    BY DEF Init, MAX_RETRY
  <2>3. /\ sector_size \in uint16 /\ segment_size \in uint16
        /\ max_retries \in {0, MAX_RETRY}
        /\ segments_sent \in Nat /\ total_segments \in Nat
        /\ app_start \in Nat
    BY Uint16 DEF Init
  <2> QED BY <2>1, <2>2, <2>3 DEF Ranges
<1>3. BuildPhase /\ SendPhase
  BY DEF Init, BuildPhase, SendPhase, Early, MAX_RETRY
<1> QED BY <1>1, <1>2, <1>3 DEF Phases

\* The ranges hold as long as the context is left alone.
LEMMA RangesKept ==
  ASSUME Ranges, UNCHANGED <<setupVars, app_running, ctxVars>>
  PROVE  Ranges'
<1>1. UNCHANGED <<driver_type, image, app_running, sector_size, segment_size,
                  max_retries, app_start, sectors, current_sector, offset,
                  retry_count, segments_sent, total_segments>>
  BY DEF setupVars, ctxVars, paramVars, cursorVars, progressVars
<1> QED BY <1>1 DEF Ranges, PipelineOf

\* The clamp keeps a segment size in its type.
LEMMA ClampedInRange ==
  ASSUME NEW seg \in uint16 PROVE ClampedSegmentSize(seg) \in uint16
<1>1. CAN_MAX_PAYLOAD - ADDR_BYTES = 4
  BY DEF CAN_MAX_PAYLOAD, ADDR_BYTES
<1>2. seg > 4 => 4 \in uint16
  BY Uint16
<1> QED BY <1>1, <1>2 DEF ClampedSegmentSize

\* The steps up to the moment the pipeline is built.
LEMMA PhasesBeforeBuild ==
  ASSUME Phases,
         \/ act_send_reset
         \/ act_target_info_reject
         \/ act_target_info
         \/ act_build_pipeline
         \/ act_build_pipeline_undefined
  PROVE  Ranges' /\ BuildPhase' /\ SendPhase'
<1> USE DEF Phases, Early, setupVars, PipelineOf
<1>1. CASE act_send_reset
  <2>1. /\ current_state = "ST_INIT" /\ current_state' = "ST_SEND_RESET"
        /\ UNCHANGED <<setupVars, pc, app_running, fsm_running, ctxVars>>
    BY <1>1, RowOf DEF act_send_reset, Takes
  <2> QED BY <2>1, RangesKept DEF BuildPhase, SendPhase, ctxVars, paramVars,
                                  cursorVars, progressVars
<1>2. CASE act_target_info_reject
  <2>1. /\ current_state = "ST_SEND_RESET"
        /\ current_state' = "ST_BUILD_PIPELINE"
        /\ fsm_running' = FALSE
        /\ UNCHANGED <<setupVars, pc, app_running, ctxVars>>
    BY <1>2, RowOf DEF act_target_info_reject, Takes
  <2> QED BY <2>1, RangesKept DEF BuildPhase, SendPhase, ctxVars, paramVars,
                                  cursorVars, progressVars
<1>3. CASE act_target_info
  <2> DEFINE pkt == Head(fsm_queue).data
  <2>1. /\ current_state = "ST_SEND_RESET"
        /\ current_state' = "ST_BUILD_PIPELINE"
        /\ sector_size' = pkt.info.sector_size
        /\ segment_size' = ClampedSegmentSize(pkt.info.segment_size)
        /\ app_start' = pkt.info.flash_addr
        /\ retry_count' = 0
        /\ max_retries' = MAX_RETRY
        /\ UNCHANGED <<setupVars, pc, app_running, fsm_running, sectors, current_sector,
                       offset, segments_sent, total_segments>>
        /\ fsm_queue # <<>> /\ Head(fsm_queue).type = "EVT_TARGET_INFO"
    BY <1>3, RowOf DEF act_target_info, Takes, progressVars
  <2>2. pkt \in Responses
    <3>1. /\ Len(fsm_queue) \in Nat \ {0}
          /\ Head(fsm_queue) = fsm_queue[1]
      BY <2>1, PopQueue DEF EventDiscipline
    <3>2. 1 \in 1 .. Len(fsm_queue)
      BY <3>1
    <3> QED BY <2>1, <3>1, <3>2 DEF EventDiscipline
  <2>3. /\ pkt.info \in TargetInfos
        /\ pkt.info.flash_addr \in Nat
        /\ pkt.info.sector_size \in uint16
        /\ pkt.info.segment_size \in uint16
    BY <2>2, EnvironmentAssumption DEF Response, TargetInfo
  <2>4. /\ pkt.info.sector_size \in SectorSizes
        /\ ClampedSegmentSize(pkt.info.segment_size) \in uint16
    BY <2>3, ClampedInRange DEF SectorSizes
  <2> HIDE DEF pkt
  <2>5. sectors = <<>> /\ current_sector = 0 /\ offset = 0
    BY <2>1 DEF BuildPhase
  <2>6. Ranges'
    <3>1. 0 \in 0 .. Len(sectors') /\ sectors' = <<>>
      BY <2>1, <2>5
    <3>2. 0 \in 0 .. sector_size'
      <4>1. sector_size' \in uint16
        BY <2>1, <2>3
      <4>2. sector_size' \in Nat
        BY <4>1, Uint16
      <4> QED BY <4>2
    <3> QED BY <2>1, <2>3, <2>4, <2>5, <3>1, <3>2 DEF Ranges, MAX_RETRY
  <2>7. BuildPhase'
    BY <2>1, <2>4, <2>5 DEF BuildPhase
  <2>8. SendPhase'
    BY <2>1 DEF SendPhase, MAX_RETRY
  <2> QED BY <2>6, <2>7, <2>8
<1>4. CASE act_build_pipeline
  <2>1. /\ current_state = "ST_BUILD_PIPELINE"
        /\ current_state' = "ST_SEND_WINDOW"
        /\ segment_size # 0
        /\ sectors' = PipelineOf[sector_size]
        /\ total_segments' = Len(PipelineOf[sector_size]) * SegsPerSector
        /\ segments_sent' = 0 /\ current_sector' = 0 /\ offset' = 0
        /\ UNCHANGED <<setupVars, pc, app_running, fsm_running, sector_size, segment_size,
                       max_retries, app_start, retry_count>>
        /\ fsm_queue # <<>>
        /\ Dispatch("EVT_START")
    BY <1>4, RowOf DEF act_build_pipeline, Takes, BuildFaults, paramVars
  <2>2. fsm_running
    BY <2>1, EmptyQueue DEF EventDiscipline
  <2>3. sector_size \in SectorSizes /\ max_retries = MAX_RETRY
        /\ retry_count = 0
    BY <2>1, <2>2 DEF BuildPhase
  <2>4. PipelineOf[sector_size] \in Seq(SectorOf(sector_size))
    BY <2>3, PipelineAssumption DEF SectorsWithin, Ranges
  <2>5. /\ Len(PipelineOf[sector_size]) \in Nat
        /\ segment_size \in Nat \ {0}
        /\ SegsPerSector \in Nat
    BY <2>1, <2>4, SegsNat, Uint16 DEF Ranges
  <2>6. total_segments' \in Nat
    BY <2>1, <2>5
  <2>7. fsm_queue' # <<>> /\ Head(fsm_queue').type = "EVT_START"
    BY <1>4, <2>1, QueueAfter DEF act_build_pipeline, InternalEvents
  <2> QED BY <2>1, <2>3, <2>5, <2>6, <2>7
          DEF Ranges, BuildPhase, SendPhase, Pending, MAX_RETRY
<1>5. CASE act_build_pipeline_undefined
  <2>1. /\ current_state = "ST_BUILD_PIPELINE"
        /\ current_state' = "ST_SEND_WINDOW"
        /\ pc' = "undefined"
        /\ UNCHANGED <<setupVars, app_running, fsm_running, ctxVars>>
    BY <1>5, RowOf DEF act_build_pipeline_undefined, Takes
  <2>2. fsm_queue' = <<>>
    BY <1>5, <2>1, QueueAfter DEF act_build_pipeline_undefined
  <2> QED BY <2>1, <2>2, RangesKept DEF BuildPhase, SendPhase, Pending, ctxVars,
                                        paramVars, cursorVars, progressVars
<1> QED BY <1>1, <1>2, <1>3, <1>4, <1>5

\* In the states after the build the context holds the accepted parameters
\* and the pipeline built for them.
LEMMA AfterBuild ==
  ASSUME Phases, NEW action, Takes(action), current_state \notin Early
  PROVE  /\ max_retries = MAX_RETRY
         /\ segment_size \in Nat \ {0}
         /\ sector_size \in Nat
         /\ SegsPerSector \in Nat
         /\ sector_size \in SectorSizes
         /\ sectors = PipelineOf[sector_size]
         /\ fsm_running
         /\ retry_count < MAX_RETRY
<1>1. pc = "run" /\ fsm_queue # <<>>
  BY DEF Takes
<1>2. fsm_running
  BY <1>1, EmptyQueue DEF Phases, EventDiscipline
<1> QED BY <1>1, <1>2, SegsNat, Uint16 DEF Phases, BuildPhase, SendPhase, Ranges

\* The steps that send a sector.
LEMMA PhasesSendWindow ==
  ASSUME Phases,
         \/ act_send_window
         \/ act_send_window_sector_end
         \/ act_send_window_null
         \/ act_send_window_overrun
  PROVE  Ranges' /\ BuildPhase' /\ SendPhase'
<1> USE DEF setupVars, PipelineOf
<1>1. /\ Takes("act_send_window")
      /\ current_state \in {"ST_SEND_WINDOW", "ST_NEXT_SECTOR"}
      /\ current_state' = "ST_SEND_WINDOW"
      /\ pc = "run"
      /\ current_state \notin Early /\ current_state # "ST_INIT"
      /\ UNCHANGED <<setupVars, app_running>>
  BY RowOf DEF act_send_window, act_send_window_sector_end, Takes, Early,
               act_send_window_null, act_send_window_overrun
<1>2. /\ max_retries = MAX_RETRY
      /\ segment_size \in Nat \ {0}
      /\ sector_size \in SectorSizes
      /\ sectors = PipelineOf[sector_size]
      /\ retry_count < MAX_RETRY
  BY <1>1, AfterBuild
<1>3. /\ UNCHANGED <<fsm_running, sector_size, segment_size, max_retries,
                     app_start, sectors, current_sector, retry_count,
                     total_segments>>
      /\ segments_sent' \in {segments_sent, segments_sent + 1}
  BY DEF act_send_window, act_send_window_sector_end, act_send_window_null,
         act_send_window_overrun, ctxVars, paramVars, cursorVars, progressVars
<1>4. offset' \in 0 .. sector_size
  <2>1. CASE act_send_window_null
    BY <2>1 DEF act_send_window_null, ctxVars, cursorVars, Phases, Ranges
  <2>2. CASE act_send_window \/ act_send_window_sector_end
               \/ act_send_window_overrun
    <3>1. current_sector < Len(sectors) /\ offset' = Walk.offset
      BY <2>2 DEF act_send_window, act_send_window_sector_end,
                  act_send_window_overrun
    <3> QED BY <1>2, <3>1, WalkOffset DEF Phases
  <2> QED BY <2>1, <2>2
<1>5. Ranges'
  BY <1>1, <1>3, <1>4 DEF Phases, Ranges
<1>6. BuildPhase'
  BY <1>1, <1>2, <1>3 DEF BuildPhase, Early
<1>7. /\ ~Pending("EVT_START")'
      /\ Pending("EVT_SECTOR_END")' => current_sector < Len(sectors)
  <2>1. CASE act_send_window_sector_end
    <3>1. /\ Dispatch("EVT_SECTOR_END")
          /\ current_sector < Len(sectors)
      BY <2>1 DEF act_send_window_sector_end
    <3>2. fsm_queue' # <<>> /\ Head(fsm_queue').type = "EVT_SECTOR_END"
      BY <1>1, <3>1, QueueAfter DEF Phases, InternalEvents
    <3> QED BY <3>1, <3>2 DEF Pending
  <2>2. CASE act_send_window \/ act_send_window_null
               \/ act_send_window_overrun
    <3>1. fsm_queue' = <<>>
      BY <1>1, <2>2, QueueAfter
         DEF Phases, act_send_window, act_send_window_null,
             act_send_window_overrun
    <3> QED BY <3>1 DEF Pending
  <2> QED BY <2>1, <2>2
<1>8. SendPhase'
  BY <1>1, <1>2, <1>3, <1>7 DEF SendPhase
<1> QED BY <1>5, <1>6, <1>8

\* The steps that verify a sector and go on to the next one or to the end.
LEMMA PhasesVerify ==
  ASSUME Phases,
         \/ act_crc_verify
         \/ act_crc_nack
         \/ act_crc_nack_abort
         \/ act_next_sector
         \/ act_app_jump
         \/ act_done
  PROVE  Ranges' /\ BuildPhase' /\ SendPhase'
<1> USE DEF Phases, setupVars, PipelineOf
<1>1. CASE act_crc_verify
  <2>1. /\ Takes("act_crc_verify")
        /\ current_state = "ST_SEND_WINDOW" /\ current_state' = "ST_VERIFY"
        /\ Pending("EVT_SECTOR_END")
        /\ UNCHANGED <<setupVars, pc, app_running, fsm_running, ctxVars>>
    BY <1>1, RowOf DEF act_crc_verify, Takes, Pending
  <2>2. Ranges'
    BY <2>1, RangesKept
  <2> QED BY <2>1, <2>2 DEF BuildPhase, SendPhase, Early, ctxVars, paramVars,
                            cursorVars
<1>2. CASE act_crc_nack
  <2>1. /\ Takes("act_crc_nack")
        /\ current_state = "ST_VERIFY" /\ current_state' = "ST_SEND_WINDOW"
        /\ ~(retry_count + 1 >= max_retries)
        /\ retry_count' = retry_count + 1
        /\ offset' = 0
        /\ segments_sent' = RewoundSegments(segments_sent)
        /\ Dispatch("EVT_START")
        /\ UNCHANGED <<setupVars, pc, app_running, fsm_running, sector_size, segment_size,
                       max_retries, app_start, sectors, current_sector,
                       total_segments>>
    BY <1>2, RowOf DEF act_crc_nack, Takes, RetryLimitReached, paramVars
  <2>2. /\ max_retries = MAX_RETRY
        /\ SegsPerSector \in Nat
        /\ sector_size \in Nat
    BY <2>1, AfterBuild DEF Early
  <2>3. Pending("EVT_START")' /\ ~Pending("EVT_SECTOR_END")'
    BY <2>1, QueueAfter DEF Pending, InternalEvents
  <2>4. segments_sent' \in Nat
    BY <2>1, <2>2 DEF RewoundSegments, Ranges
  <2>5. Ranges'
    BY <2>1, <2>2, <2>4 DEF Ranges, MAX_RETRY
  <2>6. BuildPhase'
    BY <2>1 DEF BuildPhase, Early
  <2> QED BY <2>1, <2>2, <2>3, <2>5, <2>6 DEF SendPhase, Ranges, MAX_RETRY
<1>3. CASE act_crc_nack_abort
  <2>1. /\ Takes("act_crc_nack")
        /\ current_state = "ST_VERIFY" /\ current_state' = "ST_SEND_WINDOW"
        /\ retry_count' = retry_count + 1
        /\ fsm_running' = FALSE
        /\ Consume
        /\ UNCHANGED <<setupVars, pc, app_running, sector_size, segment_size,
                       max_retries, app_start, sectors, current_sector, offset,
                       segments_sent, total_segments>>
    BY <1>3, RowOf DEF act_crc_nack_abort, Takes, paramVars, progressVars
  <2>2. retry_count < MAX_RETRY
    BY <2>1, AfterBuild DEF Early
  <2>3. fsm_queue' = <<>>
    BY <2>1, QueueAfter
  <2>4. Ranges'
    BY <2>1, <2>2 DEF Ranges, MAX_RETRY
  <2>5. BuildPhase'
    BY <2>1 DEF BuildPhase, Early
  <2> QED BY <2>1, <2>3, <2>4, <2>5 DEF SendPhase, Pending
<1>4. CASE act_next_sector
  <2>1. /\ Takes("act_next_sector")
        /\ current_state = "ST_VERIFY" /\ current_state' = "ST_NEXT_SECTOR"
        /\ retry_count' = 0
        /\ offset' = 0
        /\ current_sector' = current_sector + 1
        /\ Dispatch(AfterSector(current_sector + 1))
        /\ UNCHANGED <<setupVars, pc, app_running, fsm_running, sector_size, segment_size,
                       max_retries, app_start, sectors, segments_sent,
                       total_segments>>
    BY <1>4, RowOf DEF act_next_sector, Takes, paramVars, progressVars
  <2>2. current_sector < Len(sectors) /\ sector_size \in Nat
    BY <2>1, AfterBuild DEF SendPhase, Early
  <2>3. current_sector \in Nat /\ Len(sectors) \in Nat
    BY SectorArray
  <2>4. Pending("EVT_ALL_SECTORS_DONE")' => current_sector' >= Len(sectors)
    BY <2>1, QueueAfter DEF Pending, InternalEvents, AfterSector
  <2>5. Ranges'
    BY <2>1, <2>2, <2>3 DEF Ranges, MAX_RETRY
  <2>6. BuildPhase'
    BY <2>1 DEF BuildPhase, Early
  <2> QED BY <2>1, <2>3, <2>4, <2>5, <2>6 DEF SendPhase, MAX_RETRY
<1>5. CASE act_app_jump
  <2>1. /\ current_state = "ST_NEXT_SECTOR" /\ current_state' = "ST_APP_JUMP"
        /\ Pending("EVT_ALL_SECTORS_DONE")
        /\ UNCHANGED <<setupVars, pc, app_running, fsm_running, ctxVars>>
    BY <1>5, RowOf DEF act_app_jump, Takes, Pending
  <2>2. Ranges'
    BY <2>1, RangesKept
  <2> QED BY <2>1, <2>2 DEF BuildPhase, SendPhase, Early, ctxVars, paramVars,
                            cursorVars
<1>6. CASE act_done
  <2>1. /\ current_state = "ST_APP_JUMP" /\ current_state' = "ST_DONE"
        /\ segments_sent' = total_segments
        /\ fsm_running' = FALSE
        /\ UNCHANGED <<setupVars, pc, app_running, sector_size, segment_size, max_retries,
                       app_start, sectors, current_sector, offset, retry_count,
                       total_segments>>
    BY <1>6, RowOf DEF act_done, Takes, paramVars, cursorVars
  <2>2. Ranges'
    BY <2>1 DEF Ranges
  <2> QED BY <2>1, <2>2 DEF BuildPhase, SendPhase, Early
<1> QED BY <1>1, <1>2, <1>3, <1>4, <1>5, <1>6

\* Outside the initial state the main loop, the RX thread and the driver make
\* no event of the FSM itself pending.
LEMMA PendingAround ==
  ASSUME EventDiscipline, current_state # "ST_INIT",
         \/ SignalGeneration
         \/ EmptyPoll
         \/ RunDone
         \/ DropEvent
         \/ MainExit
         \/ handle_sigint
         \/ \E pkt \in Responses : comm_rx_thread(pkt)
         \/ FrameLeaves
         \/ UNCHANGED vars,
         NEW type \in InternalEvents, Pending(type)'
  PROVE  Pending(type)
<1>1. CASE SignalGeneration
  <2> DEFINE new == SignalOf(Head(rx_queue))
  <2>1. fsm_queue = <<>>
    BY <1>1, EmptyQueue DEF SignalGeneration, EventDiscipline
  <2>2. Head(rx_queue) \in Responses
    BY <1>1, PopQueue DEF SignalGeneration, EventDiscipline
  <2>3. /\ new \in Seq(Events)
        /\ \A n \in 1 .. Len(new) : new[n].type \notin InternalEvents
    BY <2>2, SignalType
  <2>4. fsm_queue' = new
    <3> HIDE DEF new
    <3>1. fsm_queue' = fsm_queue \o new
      BY <1>1 DEF SignalGeneration, new
    <3> QED BY <2>1, <2>3, <3>1
  <2> HIDE DEF new
  <2>5. new # <<>> /\ Head(new).type \in InternalEvents
    BY <2>4 DEF Pending
  <2> QED BY <2>3, <2>5, PopQueue
<1>2. CASE DropEvent
  <2>1. fsm_queue # <<>> /\ Consume
    BY <1>2 DEF DropEvent
  <2>2. fsm_queue' \in Seq(Events) /\ Len(fsm_queue') = 0
    BY <2>1, Consumed
  <2> QED BY <2>2, EmptyQueue DEF Pending
<1>3. CASE fsm_queue' = fsm_queue
  BY <1>3 DEF Pending
<1> QED
  BY <1>1, <1>2, <1>3
     DEF EmptyPoll, RunDone, MainExit, handle_sigint, comm_rx_thread,
         FrameLeaves, vars, fsmVars

\* The main loop, the signal handler, the RX thread and the driver leave the
\* context alone and make no event of the FSM itself pending.
LEMMA PhasesAround ==
  ASSUME Phases,
         \/ SignalGeneration
         \/ EmptyPoll
         \/ RunDone
         \/ DropEvent
         \/ MainExit
         \/ handle_sigint
         \/ \E pkt \in Responses : comm_rx_thread(pkt)
         \/ FrameLeaves
         \/ UNCHANGED vars
  PROVE  Ranges' /\ BuildPhase' /\ SendPhase'
<1> USE DEF Phases, setupVars, PipelineOf
<1>1. /\ UNCHANGED <<setupVars, fsm_running, current_state, ctxVars>>
      /\ pc' # "undefined" => pc # "undefined"
      /\ app_running' \in BOOLEAN
  BY DEF SignalGeneration, EmptyPoll, RunDone, DropEvent, MainExit,
         handle_sigint, comm_rx_thread, FrameLeaves, vars, fsmVars, Ranges
<1>2. Ranges'
  BY <1>1 DEF Ranges, ctxVars, paramVars, cursorVars, progressVars
<1>3. BuildPhase'
  <2>1. UNCHANGED <<fsm_running, current_state, sector_size, segment_size,
                    max_retries, sectors, current_sector, offset, retry_count>>
    BY <1>1 DEF ctxVars, paramVars, cursorVars
  <2> QED BY <1>1, <2>1 DEF BuildPhase, Early
<1>4. ASSUME NEW type \in InternalEvents, Pending(type)',
             current_state # "ST_INIT"
      PROVE  Pending(type)
  BY <1>4, PendingAround
<1>5. SendPhase'
  BY <1>1, <1>4 DEF SendPhase, ctxVars, paramVars, cursorVars, InternalEvents
<1> QED BY <1>2, <1>3, <1>5

\* Every step of the host and its environment keeps the phases.
LEMMA PhasesStep == Phases /\ [Next]_vars => Phases'
<1>1. Phases /\ [Next]_vars => EventDiscipline'
  BY DisciplineStep DEF Phases
<1>2. Phases /\ [Next]_vars => Ranges' /\ BuildPhase' /\ SendPhase'
  BY PhasesBeforeBuild, PhasesSendWindow, PhasesVerify, PhasesAround
     DEF Next, Host, FsmAction
<1> QED BY <1>1, <1>2 DEF Phases

\* What the context holds in each state of the FSM is an invariant.
THEOREM UpdatePhases == Spec => []Phases
  BY PhasesInit, PhasesStep, PTL DEF Spec

\* At most MAX_RETRY transmissions of one sector, and the counter is back at
\* zero whenever a sector has been confirmed.
THEOREM RetriesBounded == Spec => []AttemptsBounded
<1>1. Phases => AttemptsBounded
  BY DEF Phases, SendPhase, AttemptsBounded
<1> QED BY <1>1, UpdatePhases, PTL

\* Every transmission of a sector, the first or a retry, starts at byte 0.
THEOREM SectorsStartAtZero == Spec => []SectorStartsAtZero
<1>1. Phases => SectorStartsAtZero
  BY DEF Phases, SendPhase, Pending, SectorStartsAtZero
<1> QED BY <1>1, UpdatePhases, PTL

\* The application is started only after every sector of a non-empty image
\* has been confirmed.
THEOREM StartComesLast == Spec => []StartAfterAllSectors
<1>1. Phases => StartAfterAllSectors
  <2> SUFFICES ASSUME Phases, current_state \in {"ST_APP_JUMP", "ST_DONE"}
               PROVE  sectors # <<>> /\ current_sector = Len(sectors)
    BY DEF StartAfterAllSectors
  <2>1. current_sector > 0 /\ current_sector >= Len(sectors)
    BY DEF Phases, SendPhase
  <2>2. /\ Len(sectors) \in Nat
        /\ current_sector \in 0 .. Len(sectors)
        /\ sectors \in Seq(SectorOf(sector_size))
    BY SectorArray DEF Phases, Ranges
  <2> QED BY <2>1, <2>2
<1> QED BY <1>1, UpdatePhases, PTL

-----------------------------------------------------------------------------
(* The walk. *)

\* The walk over the current sector has been reported exhausted.
AtSectorEnd ==
  \/ current_state = "ST_SEND_WINDOW" /\ Pending("EVT_SECTOR_END")
  \/ current_state = "ST_VERIFY"

\* Then no programmed byte lies at or after the cursor.
WalkEnded ==
  AtSectorEnd => \A i \in offset .. CurrentSector.size - 1 :
                   ~CurrentSector.valid[i]

\* Apart from the end of a walk and its verification, no action of the FSM
\* leads to the end of a sector.
LEMMA NotAtSectorEnd ==
  ASSUME Phases, FsmAction, ~act_send_window_sector_end, ~act_crc_verify
  PROVE  ~AtSectorEnd'
<1> USE DEF Phases, setupVars, PipelineOf
<1>1. CASE act_send_window \/ act_send_window_null \/ act_send_window_overrun
  <2>1. /\ Takes("act_send_window") /\ Consume
        /\ current_state # "ST_INIT" /\ current_state' = "ST_SEND_WINDOW"
    BY <1>1, RowOf
       DEF act_send_window, act_send_window_null, act_send_window_overrun
  <2>2. fsm_queue' = <<>>
    BY <2>1, QueueAfter
  <2> QED BY <2>1, <2>2 DEF AtSectorEnd, Pending
<1>2. CASE act_build_pipeline
  <2>1. /\ Takes("act_build_pipeline") /\ Dispatch("EVT_START")
        /\ current_state # "ST_INIT" /\ current_state' = "ST_SEND_WINDOW"
    BY <1>2, RowOf DEF act_build_pipeline
  <2>2. Head(fsm_queue').type = "EVT_START"
    BY <2>1, QueueAfter DEF InternalEvents
  <2> QED BY <2>1, <2>2 DEF AtSectorEnd, Pending
<1>3. CASE act_crc_nack
  <2>1. /\ Takes("act_crc_nack") /\ Dispatch("EVT_START")
        /\ current_state # "ST_INIT" /\ current_state' = "ST_SEND_WINDOW"
    BY <1>3, RowOf DEF act_crc_nack
  <2>2. Head(fsm_queue').type = "EVT_START"
    BY <2>1, QueueAfter DEF InternalEvents
  <2> QED BY <2>1, <2>2 DEF AtSectorEnd, Pending
<1>4. CASE act_crc_nack_abort \/ act_build_pipeline_undefined
  <2>1. PICK action : Takes(action) /\ Consume
                        /\ current_state # "ST_INIT"
                        /\ current_state' = "ST_SEND_WINDOW"
    BY <1>4, RowOf DEF act_crc_nack_abort, act_build_pipeline_undefined
  <2>2. fsm_queue' = <<>>
    BY <2>1, QueueAfter
  <2> QED BY <2>1, <2>2 DEF AtSectorEnd, Pending
<1>5. CASE act_send_reset \/ act_target_info_reject \/ act_target_info
             \/ act_next_sector \/ act_app_jump \/ act_done
  <2>1. current_state' \notin {"ST_SEND_WINDOW", "ST_VERIFY"}
    BY <1>5, RowOf DEF act_send_reset, act_target_info_reject, act_target_info,
                       act_next_sector, act_app_jump, act_done
  <2> QED BY <2>1 DEF AtSectorEnd
<1> QED BY <1>1, <1>2, <1>3, <1>4, <1>5 DEF FsmAction

LEMMA WalkEndedStep == Phases /\ WalkEnded /\ [Next]_vars => WalkEnded'
<1> SUFFICES ASSUME Phases, WalkEnded, [Next]_vars, AtSectorEnd'
             PROVE  \A i \in offset' .. CurrentSector'.size - 1 :
                      ~CurrentSector'.valid[i]
  BY DEF WalkEnded
<1>1. CASE act_send_window_sector_end
  <2>1. /\ current_sector < Len(sectors)
        /\ Walk.len < 0
        /\ offset' = Walk.offset
        /\ UNCHANGED <<sectors, current_sector>>
    BY <1>1 DEF act_send_window_sector_end
  <2>2. segment_size \in Nat \ {0}
    BY <1>1, AfterBuild, RowOf DEF act_send_window_sector_end, Early
  <2>3. /\ CurrentSector \in SectorOf(sector_size)
        /\ sector_size \in Nat
        /\ offset \in 0 .. sector_size
    BY <2>1, SectorArray, Uint16 DEF Phases, Ranges
  <2>4. Walk.offset = sector_size
    BY <2>1, <2>2, WalkExhausted DEF Phases
  <2>5. offset' = sector_size
    BY <2>1, <2>4
  <2>6. CurrentSector' = CurrentSector /\ CurrentSector.size = sector_size
    BY <2>1, <2>3 DEF CurrentSector, SectorOf
  <2> QED BY <2>3, <2>5, <2>6
<1>2. CASE act_crc_verify
  <2>1. AtSectorEnd
    BY <1>2, RowOf DEF act_crc_verify, Takes, AtSectorEnd, Pending
  <2>2. UNCHANGED <<sectors, current_sector, offset>>
    BY <1>2 DEF act_crc_verify, ctxVars, cursorVars
  <2> QED BY <2>1, <2>2 DEF WalkEnded, CurrentSector
<1>3. CASE ~FsmAction
  <2>1. \/ SignalGeneration \/ EmptyPoll \/ RunDone \/ DropEvent \/ MainExit
        \/ handle_sigint \/ (\E pkt \in Responses : comm_rx_thread(pkt))
        \/ FrameLeaves \/ UNCHANGED vars
    BY <1>3 DEF Next, Host
  <2>2. UNCHANGED <<current_state, sectors, current_sector, offset>>
    BY <2>1 DEF SignalGeneration, EmptyPoll, RunDone, DropEvent, MainExit,
         handle_sigint, comm_rx_thread, FrameLeaves, vars, fsmVars, ctxVars,
         cursorVars
  <2>3. AtSectorEnd
    BY <2>1, <2>2, PendingAround DEF AtSectorEnd, Phases, InternalEvents
  <2> QED BY <2>2, <2>3 DEF WalkEnded, CurrentSector
<1> QED BY <1>1, <1>2, <1>3, NotAtSectorEnd

\* A sector is put up for verification only when no programmed byte of it is
\* left to send, whatever acknowledgements came too early or twice.
THEOREM VerifiedWhenSent == Spec => []VerifyAfterWalk
<1>1. Init => WalkEnded
  BY DEF Init, WalkEnded, AtSectorEnd
<1>2. WalkEnded => VerifyAfterWalk
  BY DEF WalkEnded, AtSectorEnd, VerifyAfterWalk
<1> QED BY <1>1, <1>2, WalkEndedStep, UpdatePhases, PTL DEF Spec

-----------------------------------------------------------------------------
(* The frames. *)

FramesTyped == to_target \in Seq(Frames)

\* Cutting a packet to a CAN frame keeps it a frame: a packet that is longer
\* than that has at least the four data bytes that are kept.
LEMMA FramedTyped ==
  ASSUME NEW pkt \in Frames,
         pkt.length > CAN_MAX_PAYLOAD => Len(pkt.data) >= 4
  PROVE  Framed(pkt) \in Frames
<1>1. CASE driver_type = CAN /\ pkt.length > CAN_MAX_PAYLOAD
  <2>1. pkt.data \in Seq(Byte) /\ Len(pkt.data) >= 4
    BY <1>1 DEF Frames
  <2>2. SubSeq(pkt.data, 1, 4) \in Seq(Byte)
    BY <2>1
  <2>3. Framed(pkt) = [pkt EXCEPT !.length = CAN_MAX_PAYLOAD,
                                  !.data = SubSeq(@, 1, 4)]
    <3>1. CAN_MAX_PAYLOAD - ADDR_BYTES = 4
      BY DEF CAN_MAX_PAYLOAD, ADDR_BYTES
    <3> QED BY <1>1, <3>1 DEF Framed
  <2>4. CAN_MAX_PAYLOAD \in Nat
    BY DEF CAN_MAX_PAYLOAD
  <2> QED BY <2>2, <2>3, <2>4 DEF Frames
<1>2. CASE ~(driver_type = CAN /\ pkt.length > CAN_MAX_PAYLOAD)
  BY <1>2 DEF Framed
<1> QED BY <1>1, <1>2

\* transport_send adds at most one well-formed frame.
LEMMA TransmitTyped ==
  ASSUME FramesTyped, NEW pkt \in Frames, NEW sent,
         pkt.length > CAN_MAX_PAYLOAD => Len(pkt.data) >= 4,
         Transmit(pkt, sent)
  PROVE  FramesTyped'
<1>1. Framed(pkt) \in Frames
  BY FramedTyped
<1> QED BY <1>1 DEF FramesTyped, Transmit

\* The packets without payload bytes of the image.
LEMMA ShortPacket ==
  ASSUME NEW command \in 0 .. 255, NEW length \in {1, 4}, NEW data \in Seq(Byte)
  PROVE  /\ Packet(command, length, 0, data) \in Frames
         /\ ~(Packet(command, length, 0, data).length > CAN_MAX_PAYLOAD)
  BY DEF Packet, Frames, CAN_MAX_PAYLOAD

\* The bytes a target is asked to check are the bytes of the sector, in order.
LEMMA SectorBytes ==
  ASSUME NEW n \in Nat, NEW sector \in SectorOf(n)
  PROVE  pipeline_sector_crc(sector) \in Seq(Byte)
<1>1. /\ sector.size \in Nat
      /\ sector.size = n
      /\ sector.data \in [0 .. n - 1 -> Byte]
  BY DEF SectorOf
<1>2. \A i \in 1 .. sector.size : sector.data[i - 1] \in Byte
  <2> SUFFICES ASSUME NEW i \in 1 .. sector.size PROVE sector.data[i - 1] \in Byte
    OBVIOUS
  <2>1. i - 1 \in 0 .. n - 1
    BY <1>1
  <2> QED BY <1>1, <2>1
<1>3. [i \in 1 .. sector.size |-> sector.data[i - 1]] \in [1 .. sector.size -> Byte]
  BY <1>2
<1> QED BY <1>1, <1>3 DEF pipeline_sector_crc

\* Every step hands over well-formed frames.
LEMMA FramesStep == Phases /\ FramesTyped /\ [Next]_vars => FramesTyped'
<1> SUFFICES ASSUME Phases, FramesTyped, [Next]_vars PROVE FramesTyped'
  OBVIOUS
<1>1. CASE act_send_reset
  <2>1. PICK sent \in SendOutcomes :
          Transmit(Packet(uint8(CMD_RESET_REQ + node_id), 1, 0, <<>>), sent)
    BY <1>1 DEF act_send_reset
  <2>2. uint8(CMD_RESET_REQ + node_id) \in 0 .. 255
    BY CommandLineAssumption DEF uint8, CMD_RESET_REQ
  <2>3. /\ Packet(uint8(CMD_RESET_REQ + node_id), 1, 0, <<>>) \in Frames
        /\ ~(Packet(uint8(CMD_RESET_REQ + node_id), 1, 0, <<>>).length > CAN_MAX_PAYLOAD)
    <3>1. <<>> \in Seq(Byte)
      OBVIOUS
    <3> QED BY <2>2, <3>1, ShortPacket
  <2> QED BY <2>1, <2>3, TransmitTyped
<1>2. CASE act_crc_verify
  <2>1. PICK sent \in SendOutcomes :
          Transmit(Packet(CMD_PIPELINE_VERIFY, 4, 0,
                          pipeline_sector_crc(CurrentSector)), sent)
    BY <1>2 DEF act_crc_verify
  <2>2. current_sector < Len(sectors)
    BY <1>2, RowOf DEF act_crc_verify, Takes, Phases, SendPhase, Pending
  <2>3. CurrentSector \in SectorOf(sector_size) /\ sector_size \in Nat
    BY <2>2, SectorArray, Uint16 DEF Phases, Ranges
  <2>4. pipeline_sector_crc(CurrentSector) \in Seq(Byte)
    BY <2>3, SectorBytes
  <2>5. CMD_PIPELINE_VERIFY \in 0 .. 255
    BY DEF CMD_PIPELINE_VERIFY
  <2> QED BY <2>1, <2>4, <2>5, ShortPacket, TransmitTyped
<1>3. CASE act_app_jump
  <2>1. PICK sent \in SendOutcomes :
          Transmit(Packet(CMD_START_APP, 1, 0, <<>>), sent)
    BY <1>3 DEF act_app_jump
  <2>2. CMD_START_APP \in 0 .. 255
    BY DEF CMD_START_APP
  <2>3. /\ Packet(CMD_START_APP, 1, 0, <<>>) \in Frames
        /\ ~(Packet(CMD_START_APP, 1, 0, <<>>).length > CAN_MAX_PAYLOAD)
    <3>1. <<>> \in Seq(Byte)
      OBVIOUS
    <3> QED BY <2>2, <3>1, ShortPacket
  <2> QED BY <2>1, <2>3, TransmitTyped
<1>4. CASE act_send_window \/ act_send_window_overrun
  <2>1. PICK sent : Transmit(DataPacket(Walk), sent)
    BY <1>4 DEF act_send_window, act_send_window_overrun
  <2>2. current_sector < Len(sectors) /\ Walk.len >= 0
    BY <1>4 DEF act_send_window, act_send_window_overrun
  <2>3. segment_size \in Nat \ {0}
    BY <1>4, AfterBuild, RowOf
       DEF act_send_window, act_send_window_overrun, Early
  <2>4. /\ Walk.len \in Nat /\ Walk.addr \in Nat /\ Walk.data \in Seq(Byte)
        /\ Len(Walk.data) = Walk.len
    BY <2>2, <2>3, SegmentOfWalk DEF Phases
  <2>5. /\ DataPacket(Walk) \in Frames
        /\ DataPacket(Walk).length > CAN_MAX_PAYLOAD =>
             Len(DataPacket(Walk).data) >= 4
    BY <2>4 DEF DataPacket, Packet, Frames, CMD_PIPELINE_DATA, ADDR_BYTES,
                CAN_MAX_PAYLOAD
  <2> QED BY <2>1, <2>5, TransmitTyped
<1>5. CASE FrameLeaves
  BY <1>5, PopQueue DEF FrameLeaves, FramesTyped
<1>6. CASE to_target' = to_target
  BY <1>6 DEF FramesTyped
<1> QED
  <2>1. ASSUME ~FrameLeaves, ~act_send_reset, ~act_crc_verify, ~act_app_jump,
               ~act_send_window, ~act_send_window_overrun
        PROVE  to_target' = to_target
    BY <2>1 DEF Next, Host, FsmAction, SignalGeneration, EmptyPoll, RunDone,
         DropEvent, MainExit, handle_sigint, comm_rx_thread, vars, ctxVars,
         act_target_info_reject, act_target_info, act_build_pipeline,
         act_build_pipeline_undefined, act_send_window_sector_end,
         act_send_window_null, act_crc_nack, act_crc_nack_abort,
         act_next_sector, act_done
  <2> QED BY <1>1, <1>2, <1>3, <1>4, <1>5, <1>6, <2>1

\* Every variable keeps its type.
THEOREM TypeCorrect == Spec => []TypeOK
<1>1. Init => FramesTyped
  BY DEF Init, FramesTyped
<1>2. Phases /\ FramesTyped => TypeOK
  BY DEF Phases, EventDiscipline, Ranges, FramesTyped, TypeOK
<1> QED BY <1>1, <1>2, FramesStep, UpdatePhases, PTL DEF Spec

\* Once an action has stopped the FSM, no frame is handed over any more.
THEOREM Quiet == Spec => StoppedIsQuiet
<1>1. Phases /\ TypeOK /\ [Next]_vars
        => [~fsm_running => Len(to_target') <= Len(to_target)]_vars
  <2> SUFFICES ASSUME Phases, TypeOK, [Next]_vars, ~fsm_running
               PROVE  Len(to_target') <= Len(to_target)
    OBVIOUS
  <2>1. fsm_queue = <<>>
    BY EmptyQueue DEF Phases, EventDiscipline
  <2>2. ~FsmAction
    BY <2>1 DEF FsmAction, act_send_reset, act_target_info_reject,
         act_target_info, act_build_pipeline, act_build_pipeline_undefined,
         act_send_window, act_send_window_sector_end, act_send_window_null,
         act_send_window_overrun, act_crc_verify, act_crc_nack,
         act_crc_nack_abort, act_next_sector, act_app_jump, act_done, Takes
  <2>3. CASE FrameLeaves
    <3>1. to_target \in Seq(Frames) /\ to_target # <<>>
      BY <2>3 DEF FrameLeaves, TypeOK
    <3>2. Len(to_target) \in Nat \ {0} /\ Len(to_target') = Len(to_target) - 1
      BY <2>3, <3>1, PopQueue DEF FrameLeaves
    <3> QED BY <3>2
  <2>4. CASE to_target' = to_target
    BY <2>4 DEF TypeOK
  <2> QED BY <2>2, <2>3, <2>4
          DEF Next, Host, SignalGeneration, EmptyPoll, RunDone, DropEvent,
              MainExit, handle_sigint, comm_rx_thread, vars
<1> QED BY <1>1, UpdatePhases, TypeCorrect, PTL DEF Spec, StoppedIsQuiet

-----------------------------------------------------------------------------
(* The accepted parameters. *)

\* Rule 2 of act_target_info and the CAN clamp.
Accepted ==
  /\ app_start <= image.base
  /\ driver_type = CAN => segment_size <= CAN_MAX_PAYLOAD - ADDR_BYTES

\* They hold from the acceptance on.
AcceptedBeforeUse ==
  \/ current_state \notin Early
  \/ current_state = "ST_BUILD_PIPELINE" /\ fsm_running
  => Accepted

LEMMA AcceptedStep ==
  Phases /\ AcceptedBeforeUse /\ [Next]_vars => AcceptedBeforeUse'
<1> SUFFICES ASSUME Phases, AcceptedBeforeUse, [Next]_vars
             PROVE  AcceptedBeforeUse'
  OBVIOUS
<1>1. CASE act_send_reset \/ act_target_info_reject
  <2>1. \/ current_state' = "ST_SEND_RESET"
        \/ current_state' = "ST_BUILD_PIPELINE" /\ fsm_running' = FALSE
    BY <1>1, RowOf DEF act_send_reset, act_target_info_reject
  <2> QED BY <2>1 DEF AcceptedBeforeUse, Early
<1>2. CASE act_target_info
  <2> DEFINE pkt == Head(fsm_queue).data
             seg == pkt.info.segment_size
  <2>1. /\ Takes("act_target_info")
        /\ pkt.info.flash_addr <= image.base
        /\ segment_size' = ClampedSegmentSize(seg)
        /\ app_start' = pkt.info.flash_addr
    <3>1. /\ TargetInfoAccepted(pkt) /\ Takes("act_target_info")
          /\ segment_size' = ClampedSegmentSize(seg)
          /\ app_start' = pkt.info.flash_addr
      BY <1>2 DEF act_target_info
    <3>2. image.base >= pkt.info.flash_addr
      BY <3>1 DEF TargetInfoAccepted, hex_base_address
    <3> QED BY <3>1, <3>2
  <2>2. pkt \in Responses
    <3>1. fsm_queue # <<>> /\ Head(fsm_queue).type = "EVT_TARGET_INFO"
      BY <2>1, RowOf DEF Takes
    <3>2. Len(fsm_queue) \in Nat \ {0} /\ Head(fsm_queue) = fsm_queue[1]
      BY <3>1, PopQueue DEF Phases, EventDiscipline
    <3>3. 1 \in 1 .. Len(fsm_queue)
      BY <3>2
    <3> QED BY <3>1, <3>2, <3>3 DEF Phases, EventDiscipline
  <2>3. seg \in uint16
    BY <2>2, EnvironmentAssumption DEF Response, TargetInfo
  <2>4. seg \in Nat
    BY <2>3, Uint16
  <2>5. UNCHANGED setupVars
    BY <2>1 DEF Takes
  <2> HIDE DEF pkt, seg
  <2>6. driver_type = CAN => ClampedSegmentSize(seg) <= CAN_MAX_PAYLOAD - ADDR_BYTES
    BY <2>4 DEF ClampedSegmentSize, CAN_MAX_PAYLOAD, ADDR_BYTES
  <2> QED BY <2>1, <2>5, <2>6 DEF AcceptedBeforeUse, Accepted, setupVars
<1>3. CASE FsmAction /\ ~act_send_reset /\ ~act_target_info_reject
             /\ ~act_target_info
  <2>1. /\ UNCHANGED <<setupVars, paramVars>>
        /\ pc = "run" /\ fsm_queue # <<>>
        /\ current_state \notin {"ST_INIT", "ST_SEND_RESET"}
    BY <1>3, RowOf
       DEF FsmAction, act_build_pipeline, act_build_pipeline_undefined,
           act_send_window, act_send_window_sector_end, act_send_window_null,
           act_send_window_overrun, act_crc_verify, act_crc_nack,
           act_crc_nack_abort, act_next_sector, act_app_jump, act_done,
           Takes, ctxVars
  <2>2. fsm_running
    BY <2>1, EmptyQueue DEF Phases, EventDiscipline
  <2>3. Accepted
    BY <2>1, <2>2 DEF AcceptedBeforeUse, Early, Phases, EventDiscipline, States
  <2> QED BY <2>1, <2>3 DEF AcceptedBeforeUse, Accepted, setupVars, paramVars
<1>4. CASE ~FsmAction
  <2>1. UNCHANGED <<current_state, fsm_running, setupVars, paramVars>>
    BY <1>4 DEF Next, Host, SignalGeneration, EmptyPoll, RunDone, DropEvent,
         MainExit, handle_sigint, comm_rx_thread, FrameLeaves, vars, fsmVars,
         ctxVars
  <2> QED BY <2>1 DEF AcceptedBeforeUse, Accepted, setupVars, paramVars
<1> QED BY <1>1, <1>2, <1>3, <1>4

-----------------------------------------------------------------------------
(* One segment. *)

SendsSegment == act_send_window \/ act_send_window_overrun

\* What the walk returns when there is a segment to send.
LEMMA SegmentFacts ==
  ASSUME Phases, SendsSegment
  PROVE  /\ current_sector + 1 \in DOMAIN sectors
         /\ CurrentSector \in SectorOf(sector_size)
         /\ sector_size \in Nat /\ segment_size \in Nat \ {0}
         /\ offset \in 0 .. sector_size
         /\ Walk.len \in 1 .. segment_size
         /\ Walk.offset \in offset .. sector_size
         /\ Walk.offset - Walk.len \in offset .. sector_size - 1
         /\ CurrentSector.valid[Walk.offset - Walk.len]
         /\ \A i \in offset .. Walk.offset - Walk.len - 1 :
              ~CurrentSector.valid[i]
         /\ Walk.addr = CurrentSector.base_addr + (Walk.offset - Walk.len)
         /\ Walk.data \in Seq(Byte)
         /\ Len(Walk.data) = Walk.len
         /\ \A i \in 1 .. Walk.len :
              Walk.data[i] = CurrentSector.data[(Walk.offset - Walk.len) + i - 1]
<1>1. /\ current_sector < Len(sectors) /\ Walk.len >= 0
      /\ Takes("act_send_window")
  BY DEF SendsSegment, act_send_window, act_send_window_overrun
<1>2. segment_size \in Nat \ {0} /\ sector_size \in Nat
  BY <1>1, AfterBuild, RowOf DEF Early
<1>3. /\ CurrentSector \in SectorOf(sector_size)
      /\ current_sector \in Nat /\ Len(sectors) \in Nat
      /\ sectors \in Seq(SectorOf(sector_size))
  BY <1>1, SectorArray DEF Phases
<1>4. current_sector + 1 \in DOMAIN sectors
  BY <1>1, <1>3
<1>5. offset \in 0 .. sector_size
  BY DEF Phases, Ranges
<1> DEFINE walk == pipeline_next_segment(CurrentSector, offset, segment_size)
<1>6. Walk = walk
  BY DEF Walk
<1>7. LET first == walk.offset - walk.len
      IN  /\ walk.offset \in offset .. sector_size
          /\ walk.len \in Int
          /\ walk.data \in Seq(Byte)
          /\ walk.len >= 0 =>
               /\ walk.len \in 1 .. segment_size
               /\ first \in offset .. sector_size - 1
               /\ CurrentSector.valid[first]
               /\ \A i \in offset .. first - 1 : ~CurrentSector.valid[i]
               /\ walk.addr = CurrentSector.base_addr + first
               /\ Len(walk.data) = walk.len
               /\ \A i \in 1 .. walk.len :
                    walk.data[i] = CurrentSector.data[first + i - 1]
  BY <1>2, <1>3, <1>5, NextSegmentCall
<1>8. walk.len >= 0
  BY <1>1, <1>6
<1> HIDE DEF walk
<1>9. LET first == walk.offset - walk.len
      IN  /\ walk.offset \in offset .. sector_size
          /\ walk.data \in Seq(Byte)
          /\ walk.len \in 1 .. segment_size
          /\ first \in offset .. sector_size - 1
          /\ CurrentSector.valid[first]
          /\ \A i \in offset .. first - 1 : ~CurrentSector.valid[i]
          /\ walk.addr = CurrentSector.base_addr + first
          /\ Len(walk.data) = walk.len
          /\ \A i \in 1 .. walk.len :
               walk.data[i] = CurrentSector.data[first + i - 1]
  BY <1>7, <1>8
<1> QED BY <1>2, <1>3, <1>4, <1>5, <1>6, <1>9

\* transport_send does not cut a segment, over CAN either.
LEMMA NotCut ==
  ASSUME Phases, AcceptedBeforeUse, SendsSegment
  PROVE  /\ Framed(DataPacket(Walk)) = DataPacket(Walk)
         /\ driver_type = CAN => DataPacket(Walk).length <= CAN_MAX_PAYLOAD
         /\ app_start <= image.base
<1>1. Accepted
  BY RowOf DEF SendsSegment, act_send_window, act_send_window_overrun,
               AcceptedBeforeUse, Early
<1>2. segment_size \in Nat /\ Walk.len \in 1 .. segment_size
  BY SegmentFacts
<1>3. DataPacket(Walk).length = ADDR_BYTES + Walk.len
  BY DEF DataPacket, Packet
<1>4. driver_type = CAN => ADDR_BYTES + Walk.len <= CAN_MAX_PAYLOAD
  BY <1>1, <1>2 DEF Accepted, ADDR_BYTES, CAN_MAX_PAYLOAD
<1>5. ADDR_BYTES + Walk.len \in Nat /\ CAN_MAX_PAYLOAD \in Nat
  BY <1>2 DEF ADDR_BYTES, CAN_MAX_PAYLOAD
<1>6. ~(driver_type = CAN /\ DataPacket(Walk).length > CAN_MAX_PAYLOAD)
  BY <1>3, <1>4, <1>5
<1> QED BY <1>1, <1>3, <1>4, <1>6 DEF Framed, Accepted

-----------------------------------------------------------------------------
(* Data frames. *)

\* DataFramesSound for one frame, given the start of the application, the
\* driver and the sector array.
FrameSound(frame, start, driver, array) ==
  frame.command = CMD_PIPELINE_DATA =>
    /\ frame.addr >= start
    /\ frame.length = ADDR_BYTES + Len(frame.data)
    /\ driver = CAN => frame.length <= CAN_MAX_PAYLOAD
    /\ \E k \in DOMAIN array :
         LET first == frame.addr - array[k].base_addr
         IN  /\ first \in 0 .. array[k].size - Len(frame.data)
             /\ array[k].valid[first]
             /\ \A i \in DOMAIN frame.data :
                  frame.data[i] = array[k].data[first + i - 1]

\* The programmed bytes of a sector lie in the image.
LEMMA ProgrammedInImage ==
  ASSUME Phases, NEW k \in DOMAIN sectors, NEW i \in 0 .. sector_size - 1,
         sectors[k].valid[i]
  PROVE  sectors[k].base_addr + i >= image.base
<1>1. sectors # <<>>
  OBVIOUS
<1>2. sector_size \in SectorSizes /\ sectors = image.pipelines[sector_size]
  BY <1>1 DEF Phases, Ranges, PipelineOf
<1>3. image \in Images
  BY DEF Phases, Ranges
<1>4. /\ sectors[k].base_addr + i \in image.base .. image.end - 1
      /\ image.base \in Nat
  BY <1>2, <1>3, PipelineAssumption, ImageAssumption DEF SectorsWithin
<1> QED BY <1>4

LEMMA SegmentSound ==
  ASSUME Phases, AcceptedBeforeUse, SendsSegment
  PROVE  FrameSound(Framed(DataPacket(Walk)), app_start, driver_type, sectors)
<1> DEFINE pkt   == DataPacket(Walk)
           k     == current_sector + 1
           first == Walk.offset - Walk.len
<1>1. Framed(pkt) = pkt
  BY NotCut
<1>2. /\ pkt.length = ADDR_BYTES + Walk.len /\ pkt.addr = Walk.addr
      /\ pkt.data = Walk.data
  BY DEF DataPacket, Packet
<1>3. k \in DOMAIN sectors /\ CurrentSector = sectors[k]
  BY SegmentFacts DEF CurrentSector
<1>4. /\ sectors[k].base_addr \in Nat /\ sectors[k].size = sector_size
      /\ sector_size \in Nat
  BY <1>3, SegmentFacts DEF SectorOf
<1>5. /\ first \in 0 .. sector_size - 1 /\ first \in Nat
      /\ Walk.len \in Nat /\ Walk.offset \in Nat /\ Walk.offset <= sector_size
  BY SegmentFacts
<1>6. first = pkt.addr - sectors[k].base_addr
  <2>1. Walk.addr = sectors[k].base_addr + first
    BY <1>3, SegmentFacts
  <2> HIDE DEF first
  <2> QED BY <1>2, <1>4, <1>5, <2>1
<1>7. first \in 0 .. sectors[k].size - Len(pkt.data)
  BY <1>2, <1>4, <1>5, SegmentFacts
<1>8. sectors[k].valid[first]
  BY <1>3, SegmentFacts
<1>9. \A i \in DOMAIN pkt.data : pkt.data[i] = sectors[k].data[first + i - 1]
  <2>1. Walk.data \in Seq(Byte) /\ Len(Walk.data) = Walk.len
    BY SegmentFacts
  <2>2. DOMAIN pkt.data = 1 .. Walk.len
    BY <1>2, <2>1
  <2> QED BY <1>2, <1>3, <2>2, SegmentFacts
<1>10. pkt.addr >= app_start
  <2>1. sectors[k].base_addr + first >= image.base
    BY <1>3, <1>5, <1>8, ProgrammedInImage
  <2>2. app_start <= image.base /\ app_start \in Nat /\ image.base \in Nat
    BY NotCut, ImageAssumption DEF Phases, Ranges
  <2>3. pkt.addr = sectors[k].base_addr + first
    BY <1>2, <1>3, SegmentFacts
  <2> HIDE DEF first, k, pkt
  <2> QED BY <1>4, <1>5, <2>1, <2>2, <2>3
<1>11. pkt.length = ADDR_BYTES + Len(pkt.data)
  BY <1>2, SegmentFacts
<1>12. driver_type = CAN => pkt.length <= CAN_MAX_PAYLOAD
  BY NotCut
<1> HIDE DEF pkt, k, first
<1> QED BY <1>1, <1>3, <1>6, <1>7, <1>8, <1>9, <1>10, <1>11, <1>12 DEF FrameSound, pkt

\* Frames that are neither data nor touched stay what they are; without a
\* sector array there is no data frame at all.
LEMMA FramesKept ==
  ASSUME FramesTyped, DataFramesSound, to_target' \in Seq(Frames),
         \/ UNCHANGED <<app_start, driver_type, sectors>>
         \/ sectors = <<>>,
         \A n \in DOMAIN to_target' :
           \/ \E m \in DOMAIN to_target : to_target'[n] = to_target[m]
           \/ FrameSound(to_target'[n], app_start', driver_type', sectors')
  PROVE  DataFramesSound'
<1>1. \A m \in DOMAIN to_target :
        FrameSound(to_target[m], app_start, driver_type, sectors)
  BY DEF DataFramesSound, FrameSound
<1>2. \A m \in DOMAIN to_target :
        FrameSound(to_target[m], app_start', driver_type', sectors')
  <2>1. CASE UNCHANGED <<app_start, driver_type, sectors>>
    BY <1>1, <2>1
  <2>2. CASE sectors = <<>>
    BY <1>1, <2>2 DEF FrameSound
  <2> QED BY <2>1, <2>2
<1>3. \A n \in DOMAIN to_target' :
        FrameSound(to_target'[n], app_start', driver_type', sectors')
  BY <1>2
<1> QED BY <1>3 DEF DataFramesSound, FrameSound

\* One more frame, or none.
LEMMA FrameAdded ==
  ASSUME FramesTyped, DataFramesSound, NEW frame,
         to_target' \in {to_target, Append(to_target, frame)},
         UNCHANGED <<app_start, driver_type, sectors>>,
         FrameSound(frame, app_start, driver_type, sectors),
         FramesTyped'
  PROVE  DataFramesSound'
<1>1. ASSUME NEW n \in DOMAIN to_target'
      PROVE  \/ \E m \in DOMAIN to_target : to_target'[n] = to_target[m]
             \/ FrameSound(to_target'[n], app_start', driver_type', sectors')
  <2>1. CASE to_target' = to_target
    BY <2>1
  <2>2. CASE to_target' = Append(to_target, frame)
    <3>1. to_target \in Seq(Frames)
      BY DEF FramesTyped
    <3>2. n \in 1 .. Len(to_target) + 1
      BY <2>2, <3>1
    <3>3. CASE n = Len(to_target) + 1
      BY <2>2, <3>1, <3>3
    <3>4. CASE n \in 1 .. Len(to_target)
      BY <2>2, <3>1, <3>4
    <3> QED BY <3>1, <3>2, <3>3, <3>4
  <2> QED BY <2>1, <2>2
<1> QED BY <1>1, FramesKept DEF FramesTyped

\* The address of a reset request is in its command byte; for node 1 it has
\* the code of a CMD_PIPELINE_DATA.
ResetIsNoData == uint8(CMD_RESET_REQ + node_id) # CMD_PIPELINE_DATA

LEMMA FramesSoundStep ==
  ASSUME ResetIsNoData, Phases, FramesTyped, AcceptedBeforeUse, DataFramesSound,
         [Next]_vars
  PROVE  DataFramesSound'
<1>0. FramesTyped'
  BY FramesStep
<1>1. CASE act_send_reset \/ act_crc_verify \/ act_app_jump
  <2>1. PICK command, length, data, sent :
          /\ command # CMD_PIPELINE_DATA
          /\ Transmit(Packet(command, length, 0, data), sent)
    BY <1>1 DEF act_send_reset, act_crc_verify, act_app_jump, ResetIsNoData,
         CMD_PIPELINE_VERIFY, CMD_PIPELINE_DATA, CMD_START_APP
  <2> DEFINE frame == Framed(Packet(command, length, 0, data))
  <2>2. frame.command # CMD_PIPELINE_DATA
    BY <2>1 DEF Framed, Packet
  <2>3. to_target' \in {to_target, Append(to_target, frame)}
    BY <2>1 DEF Transmit
  <2>4. UNCHANGED <<app_start, driver_type, sectors>>
    BY <1>1 DEF act_send_reset, act_crc_verify, act_app_jump, Takes, setupVars,
         ctxVars, paramVars, cursorVars
  <2> HIDE DEF frame
  <2> QED BY <1>0, <2>2, <2>3, <2>4, FrameAdded DEF FrameSound
<1>2. CASE SendsSegment
  <2>1. PICK sent : Transmit(DataPacket(Walk), sent)
    BY <1>2 DEF SendsSegment, act_send_window, act_send_window_overrun
  <2>2. to_target' \in {to_target, Append(to_target, Framed(DataPacket(Walk)))}
    BY <2>1 DEF Transmit
  <2>3. UNCHANGED <<app_start, driver_type, sectors>>
    BY <1>2 DEF SendsSegment, act_send_window, act_send_window_overrun, Takes,
         setupVars, paramVars
  <2>4. FrameSound(Framed(DataPacket(Walk)), app_start, driver_type, sectors)
    BY <1>2, SegmentSound
  <2> QED BY <1>0, <2>2, <2>3, <2>4, FrameAdded
<1>3. CASE FrameLeaves
  <2>1. UNCHANGED <<app_start, driver_type, sectors>>
    BY <1>3 DEF FrameLeaves, setupVars, ctxVars, paramVars, cursorVars
  <2>2. /\ to_target \in Seq(Frames)
        /\ to_target # <<>> /\ to_target' = Tail(to_target)
    BY <1>3 DEF FrameLeaves, FramesTyped
  <2>3. \A n \in DOMAIN to_target' :
          n + 1 \in DOMAIN to_target /\ to_target'[n] = to_target[n + 1]
    BY <2>2
  <2> QED BY <1>0, <2>1, <2>3, FramesKept DEF FramesTyped
<1>4. CASE act_target_info \/ act_build_pipeline
  <2>1. sectors = <<>> /\ to_target' = to_target
    BY <1>4, RowOf DEF act_target_info, act_build_pipeline, Phases, BuildPhase,
         Early
  <2> QED BY <1>0, <2>1, FramesKept DEF FramesTyped
<1>5. ASSUME ~FrameLeaves, ~act_send_reset, ~act_crc_verify, ~act_app_jump,
             ~act_target_info, ~act_build_pipeline, ~SendsSegment
      PROVE  DataFramesSound'
  <2>1. UNCHANGED <<to_target, app_start, driver_type, sectors>>
    BY <1>5 DEF SendsSegment, Next, Host, FsmAction, SignalGeneration,
         EmptyPoll, RunDone, DropEvent, MainExit, handle_sigint, comm_rx_thread,
         vars, setupVars, ctxVars, paramVars, cursorVars, Takes,
         act_target_info_reject, act_build_pipeline_undefined,
         act_send_window_sector_end, act_send_window_null, act_crc_nack,
         act_crc_nack_abort, act_next_sector, act_done
  <2> QED BY <1>0, <2>1, FramesKept DEF FramesTyped
<1> QED BY <1>1, <1>2, <1>3, <1>4, <1>5

\* Each data frame is a piece of one sector of the image, at or above the
\* start of the application, uncut over CAN (fsm_actions.c:430, :541).  For
\* node 1 a reset request cannot be told from a data frame.
THEOREM FramesAreFirmware == ResetIsNoData => (Spec => []DataFramesSound)
<1> SUFFICES ASSUME ResetIsNoData PROVE Spec => []DataFramesSound
  OBVIOUS
<1> DEFINE Sound == FramesTyped /\ AcceptedBeforeUse /\ DataFramesSound
<1>1. Init => Sound
  BY DEF Init, FramesTyped, AcceptedBeforeUse, DataFramesSound, Early
<1>2. Phases /\ Sound /\ [Next]_vars => Sound'
  BY FramesStep, AcceptedStep, FramesSoundStep
<1>3. Sound => DataFramesSound
  OBVIOUS
<1> HIDE DEF Sound
<1> QED BY <1>1, <1>2, <1>3, UpdatePhases, PTL DEF Spec

-----------------------------------------------------------------------------
(* The cursor. *)

\* The segment carries what the cursor passes in one call.
LEMMA SegmentCarries ==
  ASSUME Phases, AcceptedBeforeUse, SendsSegment,
         NEW i \in offset .. Walk.offset - 1, CurrentSector.valid[i]
  PROVE  Carries(Framed(DataPacket(Walk)), i)
<1> DEFINE first == Walk.offset - Walk.len
<1>1. Framed(DataPacket(Walk)) = DataPacket(Walk)
  BY NotCut
<1>2. /\ first \in offset .. sector_size - 1
      /\ \A j \in offset .. first - 1 : ~CurrentSector.valid[j]
      /\ Walk.addr = CurrentSector.base_addr + first
      /\ Len(Walk.data) = Walk.len
      /\ Walk.len \in Nat /\ Walk.offset \in Nat /\ offset \in Nat
      /\ sector_size \in Nat /\ CurrentSector.base_addr \in Nat
  <2>1. CurrentSector.base_addr \in Nat
    BY SegmentFacts DEF SectorOf
  <2>2. sector_size \in Nat /\ offset \in Nat /\ Walk.offset \in Nat
          /\ Walk.len \in Nat
    BY SegmentFacts
  <2> QED BY <2>1, <2>2, SegmentFacts
<1>3. first + Walk.len = Walk.offset
  BY <1>2
<1> HIDE DEF first
<1>4. i \in first .. first + Walk.len - 1
  BY <1>2, <1>3
<1>5. CurrentSector.base_addr + i
        \in Walk.addr .. Walk.addr + Len(Walk.data) - 1
  <2>1. first \in Nat /\ first <= i /\ i <= first + Walk.len - 1 /\ i \in Nat
    BY <1>2, <1>4
  <2> DEFINE base == CurrentSector.base_addr
             len  == Walk.len
  <2>2. /\ Walk.addr = base + first /\ Len(Walk.data) = len
        /\ base \in Nat /\ len \in Nat
    BY <1>2
  <2>3. first \in Nat /\ first <= i /\ i <= first + len - 1 /\ i \in Nat
    BY <2>1
  <2> HIDE DEF base, len
  <2>4. base + i \in base + first .. base + first + len - 1
    BY <2>2, <2>3
  <2> QED BY <2>2, <2>4 DEF base
<1> QED BY <1>1, <1>5 DEF Carries, DataPacket, Packet

LEMMA CursorStep ==
  ASSUME Phases, FramesTyped, AcceptedBeforeUse, [Next]_vars
  PROVE  PassesWithFrame
<1>0. to_target \in Seq(Frames) /\ sector_size \in Nat
      /\ offset \in 0 .. sector_size
  BY Uint16 DEF FramesTyped, Phases, Ranges
<1>1. CASE SendsSegment
  <2>1. offset' = Walk.offset
    BY <1>1 DEF SendsSegment, act_send_window, act_send_window_overrun
  <2>2. \/ Transmit(DataPacket(Walk), TRUE)
        \/ SendRefused
    BY <1>1 DEF SendsSegment, act_send_window, act_send_window_overrun,
         SendRefused, Transmit, EnvironmentAssumption
  <2>3. CASE Transmit(DataPacket(Walk), TRUE)
    <3>1. to_target' = Append(to_target, Framed(DataPacket(Walk)))
      BY <2>3 DEF Transmit
    <3>2. /\ Len(to_target') > Len(to_target)
          /\ to_target'[Len(to_target')] = Framed(DataPacket(Walk))
      BY <1>0, <3>1
    <3> QED BY <1>1, <2>1, <3>2, SegmentCarries DEF PassesWithFrame
  <2> QED BY <2>2, <2>3 DEF PassesWithFrame
<1>2. CASE act_send_window_sector_end
  <2>1. /\ Takes("act_send_window") /\ Walk.len < 0 /\ offset' = Walk.offset
        /\ current_sector < Len(sectors)
    BY <1>2 DEF act_send_window_sector_end
  <2>2. segment_size \in Nat \ {0}
    BY <2>1, AfterBuild, RowOf DEF Early
  <2>3. CurrentSector \in SectorOf(sector_size)
    BY <2>1, SectorArray DEF Phases
  <2> DEFINE walk == pipeline_next_segment(CurrentSector, offset, segment_size)
  <2>4. walk.len < 0 => /\ walk.offset = sector_size
                        /\ \A i \in offset .. sector_size - 1 :
                             ~CurrentSector.valid[i]
    BY <1>0, <2>2, <2>3, NextSegmentCall
  <2>5. Walk = walk
    BY DEF Walk
  <2> HIDE DEF walk
  <2> QED BY <2>1, <2>4, <2>5 DEF PassesWithFrame
<1>3. ASSUME ~SendsSegment, ~act_send_window_sector_end
      PROVE  PassesWithFrame
  <2>1. offset' \in {0, offset}
    BY <1>3 DEF SendsSegment, Next, Host, FsmAction, SignalGeneration,
         EmptyPoll, RunDone, DropEvent, MainExit, handle_sigint, comm_rx_thread,
         FrameLeaves, vars, ctxVars, cursorVars, act_send_reset,
         act_target_info_reject, act_target_info, act_build_pipeline,
         act_build_pipeline_undefined, act_send_window_null, act_crc_verify,
         act_crc_nack, act_crc_nack_abort, act_next_sector, act_app_jump,
         act_done
  <2>2. offset .. offset' - 1 = {}
    <3>1. offset \in Nat
      BY <1>0
    <3>2. offset .. 0 - 1 = {} /\ offset .. offset - 1 = {}
      BY <3>1
    <3> QED BY <2>1, <3>2
  <2> QED BY <2>2 DEF PassesWithFrame
<1> QED BY <1>1, <1>2, <1>3

\* Clamping, skipping and CAN framing lose no byte: the cursor passes a
\* programmed byte with the frame that carries it, or when that was refused.
THEOREM NothingSkipped == Spec => NoValidByteSkipped
<1>1. Init => FramesTyped /\ AcceptedBeforeUse
  BY DEF Init, FramesTyped, AcceptedBeforeUse, Early
<1>2. Phases /\ FramesTyped /\ AcceptedBeforeUse /\ [Next]_vars
        => FramesTyped' /\ AcceptedBeforeUse'
  BY FramesStep, AcceptedStep
<1>3. Phases /\ FramesTyped /\ AcceptedBeforeUse /\ [Next]_vars
        => [PassesWithFrame]_vars
  BY CursorStep
<1> QED BY <1>1, <1>2, <1>3, UpdatePhases, PTL
        DEF Spec, NoValidByteSkipped

-----------------------------------------------------------------------------
(* The progress counters. *)

\* Segments sent beyond the estimate for the sectors already confirmed.
InSector == segments_sent - current_sector * SegsPerSector

\* While sectors are sent: whole segments up to the offset, one shorter
\* segment more only at the end of the sector.
Counted ==
  /\ total_segments = Len(sectors) * SegsPerSector
  /\ \/ InSector * segment_size <= offset
     \/ offset = sector_size /\ InSector <= SegsPerSector
  /\ current_sector >= Len(sectors) => InSector <= 0

ProgressRule ==
  /\ segments_sent <= total_segments
  /\ current_state \notin Early /\ pc # "undefined" => Counted

\* The numbers the count is made of.
LEMMA CountTypes ==
  ASSUME Phases, segment_size > 0
  PROVE  /\ SegsPerSector \in Nat
         /\ sector_size \in Nat /\ segment_size \in Nat \ {0}
         /\ offset \in 0 .. sector_size
         /\ current_sector \in Nat /\ Len(sectors) \in Nat
         /\ current_sector <= Len(sectors)
         /\ segments_sent \in Nat /\ total_segments \in Nat
         /\ current_sector * SegsPerSector \in Nat
         /\ InSector \in Int
<1>1. sector_size \in Nat /\ segment_size \in Nat \ {0}
        /\ offset \in 0 .. sector_size
  BY SizesNat DEF Phases
<1>2. SegsPerSector \in Nat
  BY <1>1, SegsNat
<1>3. Len(sectors) \in Nat /\ current_sector \in Nat
  BY SectorArray DEF Phases
<1>4. current_sector <= Len(sectors)
  BY <1>3 DEF Phases, Ranges
<1>5. segments_sent \in Nat /\ total_segments \in Nat
  BY DEF Phases, Ranges
<1>6. current_sector * SegsPerSector \in Nat
  BY <1>2, <1>3
<1> QED BY <1>1, <1>2, <1>3, <1>4, <1>5, <1>6 DEF InSector

\* The count of one sector stays within the estimate.
LEMMA SectorWithinEstimate ==
  ASSUME Phases, segment_size > 0, Counted
  PROVE  InSector <= SegsPerSector
<1>1. /\ sector_size \in Nat /\ segment_size \in Nat \ {0}
      /\ offset \in 0 .. sector_size /\ InSector \in Int
  BY CountTypes
<1>2. CASE InSector * segment_size <= offset
  <2>1. InSector * segment_size <= sector_size
    BY <1>1, <1>2
  <2> QED BY <1>1, <2>1, Estimate DEF SegsPerSector
<1>3. CASE offset = sector_size /\ InSector <= SegsPerSector
  BY <1>3
<1> QED BY <1>2, <1>3 DEF Counted

\* What is counted is within the total.
LEMMA CountedWithinTotal ==
  ASSUME NEW sent \in Nat, NEW cursor \in Nat, NEW sectors_ \in Nat,
         NEW segs \in Nat, cursor <= sectors_,
         sent - cursor * segs <= segs,
         cursor >= sectors_ => sent - cursor * segs <= 0
  PROVE  sent <= sectors_ * segs
<1>1. CASE cursor = sectors_
  BY <1>1
<1>2. CASE cursor < sectors_
  <2>1. PICK d \in Nat : sectors_ = cursor + 1 + d
    <3>1. sectors_ - (cursor + 1) \in Nat
      BY <1>2
    <3> QED BY <3>1
  <2>2. sectors_ * segs = cursor * segs + segs + d * segs
    BY <2>1
  <2>3. d * segs \in Nat /\ cursor * segs \in Nat
    BY <2>1
  <2> QED BY <2>2, <2>3
<1> QED BY <1>1, <1>2

\* A segment is whole, or it is the last one of its sector.
LEMMA SegmentWhole ==
  ASSUME Phases, SendsSegment
  PROVE  Walk.len = segment_size \/ Walk.offset = sector_size
<1>1. /\ CurrentSector \in SectorOf(sector_size)
      /\ sector_size \in Nat /\ segment_size \in Nat \ {0}
      /\ offset \in 0 .. sector_size
      /\ Walk.len >= 0
  BY SegmentFacts
<1> DEFINE walk == pipeline_next_segment(CurrentSector, offset, segment_size)
<1>2. walk.len >= 0 => walk.len = segment_size \/ walk.offset = sector_size
  BY <1>1, WholeOrLast
<1>3. Walk = walk
  BY DEF Walk
<1> HIDE DEF walk
<1> QED BY <1>1, <1>2, <1>3

LEMMA AtMostOneMore ==
  ASSUME NEW sent \in Int, NEW confirmed \in Int,
         NEW next \in {sent, sent + 1}
  PROVE  next - confirmed \in {sent - confirmed, (sent - confirmed) + 1}
  OBVIOUS

LEMMA CountSegment ==
  ASSUME Phases, Counted, act_send_window
  PROVE  Counted'
<1>1. /\ offset' = Walk.offset
      /\ segments_sent' \in {segments_sent, segments_sent + 1}
      /\ UNCHANGED <<sector_size, segment_size, sectors, current_sector,
                     total_segments>>
      /\ current_sector < Len(sectors)
  BY DEF act_send_window, paramVars
<1>2. SendsSegment
  BY DEF SendsSegment
<1>3. /\ Walk.len \in 1 .. segment_size /\ Walk.offset \in offset .. sector_size
      /\ Walk.offset - Walk.len \in offset .. sector_size - 1
      /\ segment_size \in Nat \ {0} /\ sector_size \in Nat
      /\ offset \in 0 .. sector_size
  BY <1>2, SegmentFacts
<1>4. InSector \in Int /\ SegsPerSector \in Nat /\ current_sector \in Nat
        /\ Len(sectors) \in Nat /\ segments_sent \in Nat
        /\ current_sector * SegsPerSector \in Nat
  BY <1>3, CountTypes
<1>5. SegsPerSector' = SegsPerSector
  BY <1>1 DEF SegsPerSector
<1>6. InSector' \in {InSector, InSector + 1}
  <2> DEFINE confirmed == current_sector * SegsPerSector
  <2>1. InSector = segments_sent - confirmed
    BY DEF InSector
  <2>2. InSector' = segments_sent' - confirmed
    BY <1>1, <1>5 DEF InSector
  <2>3. confirmed \in Int /\ segments_sent \in Int
          /\ segments_sent' \in {segments_sent, segments_sent + 1}
    BY <1>1, <1>4
  <2> HIDE DEF confirmed
  <2>4. segments_sent' - confirmed
          \in {segments_sent - confirmed, (segments_sent - confirmed) + 1}
    BY <2>3, AtMostOneMore
  <2> QED BY <2>1, <2>2, <2>4
<1>7. total_segments' = Len(sectors') * SegsPerSector'
  BY <1>1, <1>5 DEF Counted
<1>8. InSector * segment_size <= offset
  <2>1. offset < sector_size
    BY <1>3
  <2> QED BY <1>3, <2>1 DEF Counted
<1>9. CASE Walk.len = segment_size
  <2>1. offset + segment_size <= Walk.offset
    BY <1>3, <1>9
  <2>2. (InSector + 1) * segment_size = InSector * segment_size + segment_size
    BY <1>3, <1>4
  <2>3. InSector * segment_size \in Int
    BY <1>3, <1>4
  <2>4. InSector * segment_size <= Walk.offset
          /\ (InSector + 1) * segment_size <= Walk.offset
    BY <1>3, <1>8, <2>1, <2>2, <2>3
  <2>5. InSector' * segment_size' <= offset'
    BY <1>1, <1>6, <2>4
  <2> QED BY <1>1, <1>4, <1>7, <2>5 DEF Counted
<1>10. CASE Walk.offset = sector_size
  <2>1. InSector * segment_size < sector_size
    <3>1. offset < sector_size /\ InSector * segment_size \in Int
      BY <1>3, <1>4
    <3> QED BY <1>3, <1>8, <3>1
  <2>2. InSector + 1 <= SegsPerSector
    BY <1>3, <1>4, <2>1, Estimate DEF SegsPerSector
  <2>3. InSector' <= SegsPerSector'
    BY <1>4, <1>5, <1>6, <2>2
  <2> QED BY <1>1, <1>4, <1>7, <1>10, <2>3 DEF Counted
<1> QED BY <1>2, <1>9, <1>10, SegmentWhole

LEMMA NoneBelowZero ==
  ASSUME NEW n \in Int, n <= 0, NEW seg \in Nat \ {0}, NEW passed \in Nat
  PROVE  n * seg <= passed
<1>1. n * seg \in Int /\ n * seg <= 0
  OBVIOUS
<1> QED BY <1>1

\* The cursor is back at the start of a sector with nothing sent for it.
LEMMA CountRestart ==
  ASSUME segment_size' \in Nat \ {0}, InSector' \in Int, InSector' <= 0,
         offset' \in Nat, total_segments' = Len(sectors') * SegsPerSector'
  PROVE  Counted'
<1>1. InSector' * segment_size' <= offset'
  BY NoneBelowZero
<1> QED BY <1>1 DEF Counted

LEMMA CountVerdict ==
  ASSUME Phases, Counted, act_crc_nack \/ act_next_sector \/ act_done
  PROVE  Counted'
<1>1. UNCHANGED <<sector_size, segment_size, sectors, total_segments>>
  BY DEF act_crc_nack, act_next_sector, act_done, paramVars, cursorVars,
         progressVars
<1>2. segment_size \in Nat \ {0}
  <2>1. PICK action \in {"act_crc_nack", "act_next_sector", "act_done"} :
          Takes(action)
    BY DEF act_crc_nack, act_next_sector, act_done
  <2>2. current_state \notin Early
    BY <2>1, RowOf DEF Early
  <2> QED BY <2>1, <2>2, AfterBuild
<1>3. /\ SegsPerSector \in Nat /\ current_sector \in Nat /\ segments_sent \in Nat
      /\ current_sector * SegsPerSector \in Nat /\ InSector \in Int
      /\ Len(sectors) \in Nat /\ current_sector <= Len(sectors)
      /\ offset \in Nat
  BY <1>2, CountTypes
<1>4. SegsPerSector' = SegsPerSector
  BY <1>1 DEF SegsPerSector
<1>5. InSector <= SegsPerSector
  BY <1>2, SectorWithinEstimate
<1>6. total_segments' = Len(sectors') * SegsPerSector'
  BY <1>1, <1>4 DEF Counted
<1>7. InSector' \in Int /\ InSector' <= 0 /\ offset' \in Nat
  <2>1. CASE act_crc_nack
    <3>1. /\ offset' = 0 /\ current_sector' = current_sector
          /\ segments_sent' = RewoundSegments(segments_sent)
      BY <2>1 DEF act_crc_nack
    <3>2. \/ segments_sent' = segments_sent - SegsPerSector
          \/ segments_sent' = 0
      BY <3>1 DEF RewoundSegments
    <3> QED BY <1>3, <1>4, <1>5, <3>1, <3>2 DEF InSector
  <2>2. CASE act_next_sector
    <3>1. /\ offset' = 0 /\ current_sector' = current_sector + 1
          /\ segments_sent' = segments_sent
      BY <2>2 DEF act_next_sector, progressVars
    <3>2. (current_sector + 1) * SegsPerSector
            = current_sector * SegsPerSector + SegsPerSector
      BY <1>3
    <3>3. InSector' = InSector - SegsPerSector
      BY <1>3, <1>4, <3>1, <3>2 DEF InSector
    <3> QED BY <1>3, <1>5, <3>1, <3>3
  <2>3. CASE act_done
    <3>1. /\ UNCHANGED <<offset, current_sector>>
          /\ segments_sent' = total_segments
      BY <2>3 DEF act_done, cursorVars
    <3>2. current_sector = Len(sectors)
      <4>1. current_state = "ST_APP_JUMP"
        BY <2>3, RowOf DEF act_done
      <4> QED BY <1>3, <4>1 DEF Phases, SendPhase
    <3>3. InSector' = 0
      BY <1>3, <1>4, <3>1, <3>2 DEF InSector, Counted
    <3> QED BY <1>3, <3>1, <3>3
  <2> QED BY <2>1, <2>2, <2>3
<1> QED BY <1>1, <1>2, <1>6, <1>7, CountRestart

\* Nothing the count is made of changes.
LEMMA CountUnchanged ==
  ASSUME ProgressRule, current_state' \notin Early => current_state \notin Early,
         pc' # "undefined" => pc # "undefined",
         UNCHANGED <<sector_size, segment_size, sectors, current_sector,
                     offset, segments_sent, total_segments>>
  PROVE  ProgressRule'
<1>1. Counted => Counted'
  BY DEF Counted, InSector, SegsPerSector
<1> QED BY <1>1 DEF ProgressRule

\* While sectors are sent, the rule is what Counted says.
LEMMA CountedEnough ==
  Phases /\ Counted /\ current_state \notin Early /\ pc # "undefined"
    => segments_sent <= total_segments
<1> SUFFICES ASSUME Phases, Counted, current_state \notin Early,
                    pc # "undefined"
             PROVE  segments_sent <= total_segments
  OBVIOUS
<1>1. segment_size > 0
  BY DEF Phases, BuildPhase
<1>2. InSector <= SegsPerSector
  BY <1>1, SectorWithinEstimate
<1>3. /\ SegsPerSector \in Nat
      /\ current_sector \in Nat /\ Len(sectors) \in Nat
      /\ current_sector <= Len(sectors)
      /\ segments_sent \in Nat
  BY <1>1, CountTypes
<1>4. /\ total_segments = Len(sectors) * SegsPerSector
      /\ current_sector >= Len(sectors) => InSector <= 0
      /\ InSector = segments_sent - current_sector * SegsPerSector
  BY DEF Counted, InSector
<1>5. segments_sent <= Len(sectors) * SegsPerSector
  BY <1>2, <1>3, <1>4, CountedWithinTotal
<1> QED BY <1>4, <1>5

LEMMA CountSuffices ==
  ASSUME Phases', Counted', current_state' \notin Early, pc' # "undefined"
  PROVE  ProgressRule'
<1>1. (Phases /\ Counted /\ current_state \notin Early /\ pc # "undefined"
         => segments_sent <= total_segments)'
  BY CountedEnough, PTL
<1> QED BY <1>1 DEF ProgressRule

LEMMA ProgressStep == Phases /\ ProgressRule /\ [Next]_vars => ProgressRule'
<1> SUFFICES ASSUME Phases, ProgressRule, [Next]_vars PROVE ProgressRule'
  OBVIOUS
<1>0. Phases'
  BY PhasesStep
<1>1. CASE act_build_pipeline
  <2>1. /\ segments_sent' = 0 /\ current_sector' = 0 /\ offset' = 0
        /\ total_segments' = Len(sectors') * SegsPerSector'
        /\ current_state' = "ST_SEND_WINDOW" /\ pc' = "run"
    BY <1>1, RowOf DEF act_build_pipeline, paramVars, SegsPerSector, Takes
  <2>2. segment_size \in Nat \ {0} /\ sector_size \in Nat
    <3>1. segment_size \in uint16 /\ sector_size \in uint16
      BY DEF Phases, Ranges
    <3> QED BY <1>1, <3>1, Uint16 DEF act_build_pipeline, BuildFaults
  <2>3. segment_size' \in Nat \ {0} /\ SegsPerSector' = SegsPerSector
    BY <1>1, <2>2 DEF act_build_pipeline, paramVars, SegsPerSector
  <2>4. InSector' = 0
    <3>1. InSector' = 0 - 0 * SegsPerSector
      BY <2>1, <2>3 DEF InSector
    <3>2. 0 - 0 * SegsPerSector = 0
      BY <2>2, SegsNat
    <3> QED BY <3>1, <3>2
  <2>5. Counted'
    BY <2>1, <2>3, <2>4, CountRestart
  <2> QED BY <1>0, <2>1, <2>5, CountSuffices DEF Early
<1>2. CASE act_send_window \/ act_send_window_sector_end
  <2>1. Takes("act_send_window") /\ pc' = pc /\ pc = "run"
    BY <1>2 DEF act_send_window, act_send_window_sector_end, Takes
  <2>2. current_state \notin Early /\ current_state' = "ST_SEND_WINDOW"
    BY <2>1, RowOf DEF Early
  <2>3. Counted
    BY <2>1, <2>2 DEF ProgressRule
  <2>4. CASE act_send_window
    <3>1. Counted'
      BY <2>3, <2>4, CountSegment
    <3> QED BY <1>0, <2>1, <2>2, <3>1, CountSuffices DEF Early
  <2>5. CASE act_send_window_sector_end
    <3>1. segment_size > 0
      BY <2>1, <2>2 DEF Phases, BuildPhase
    <3>2. /\ offset' = sector_size
          /\ UNCHANGED <<sector_size, segment_size, sectors, current_sector,
                         segments_sent, total_segments>>
      BY <2>5, <3>1, WalkExhausted
         DEF act_send_window_sector_end, Phases, paramVars, progressVars
    <3>3. /\ InSector' = InSector /\ SegsPerSector' = SegsPerSector
      BY <3>2 DEF InSector, SegsPerSector
    <3>4. InSector <= SegsPerSector
      BY <2>3, <3>1, SectorWithinEstimate
    <3>5. Counted'
      BY <2>3, <3>2, <3>3, <3>4 DEF Counted
    <3> QED BY <1>0, <2>1, <2>2, <3>5, CountSuffices DEF Early
  <2> QED BY <1>2, <2>4, <2>5
<1>3. CASE act_crc_nack \/ act_next_sector \/ act_done
  <2>1. pc' = pc /\ pc = "run"
    BY <1>3 DEF act_crc_nack, act_next_sector, act_done, Takes
  <2>2. current_state \notin Early /\ current_state' \notin Early
    <3>1. PICK action \in {"act_crc_nack", "act_next_sector", "act_done"} :
            Takes(action)
      BY <1>3 DEF act_crc_nack, act_next_sector, act_done
    <3> QED BY <3>1, RowOf DEF Early
  <2>3. Counted
    BY <2>1, <2>2 DEF ProgressRule
  <2>4. Counted'
    BY <1>3, <2>3, CountVerdict
  <2> QED BY <1>0, <2>1, <2>2, <2>4, CountSuffices
<1>4. CASE act_target_info
  <2>1. current_state' \in Early /\ UNCHANGED <<segments_sent, total_segments>>
    BY <1>4, RowOf DEF act_target_info, progressVars, Early
  <2> QED BY <2>1 DEF ProgressRule
<1>5. CASE act_send_window_overrun \/ act_send_window_null
             \/ act_build_pipeline_undefined
  <2>1. pc' = "undefined" /\ UNCHANGED <<segments_sent, total_segments>>
    BY <1>5 DEF act_send_window_overrun, act_send_window_null,
         act_build_pipeline_undefined, ctxVars, progressVars
  <2> QED BY <2>1 DEF ProgressRule
<1>6. CASE act_send_reset \/ act_target_info_reject
  <2>1. current_state' \in Early /\ UNCHANGED <<segments_sent, total_segments>>
    BY <1>6, RowOf
       DEF act_send_reset, act_target_info_reject, ctxVars, progressVars, Early
  <2> QED BY <2>1 DEF ProgressRule
<1>7. CASE act_crc_verify \/ act_crc_nack_abort \/ act_app_jump
  <2>1. UNCHANGED <<pc, sector_size, segment_size, sectors, current_sector,
                    offset, segments_sent, total_segments>>
    BY <1>7 DEF act_crc_verify, act_crc_nack_abort, act_app_jump, ctxVars,
         paramVars, cursorVars, progressVars
  <2>2. current_state \notin Early
    BY <1>7, RowOf DEF act_crc_verify, act_crc_nack_abort, act_app_jump, Early
  <2> QED BY <2>1, <2>2, CountUnchanged
<1>8. CASE \/ SignalGeneration \/ EmptyPoll \/ RunDone \/ DropEvent \/ MainExit
           \/ handle_sigint \/ FrameLeaves \/ UNCHANGED vars
           \/ \E pkt \in Responses : comm_rx_thread(pkt)
  <2>1. UNCHANGED <<current_state, sector_size, segment_size, sectors,
                    current_sector, offset, segments_sent, total_segments>>
    BY <1>8 DEF SignalGeneration, EmptyPoll, RunDone, DropEvent, MainExit,
         handle_sigint, FrameLeaves, comm_rx_thread, vars, fsmVars, ctxVars,
         paramVars, cursorVars, progressVars
  <2>2. pc' # "undefined" => pc # "undefined"
    BY <1>8 DEF SignalGeneration, EmptyPoll, RunDone, DropEvent, MainExit,
         handle_sigint, FrameLeaves, comm_rx_thread, vars
  <2> QED BY <2>1, <2>2, CountUnchanged
<1> QED BY <1>1, <1>2, <1>3, <1>4, <1>5, <1>6, <1>7, <1>8
        DEF Next, Host, FsmAction

\* The progress bar never exceeds 100%: what is sent again after a rejected
\* sector was taken off before, and a segment shorter than the others is the
\* last one of its sector (fsm_actions.c, act_crc_nack and act_send_window).
THEOREM ProgressBounded == Spec => []ProgressWithinTotal
<1>1. Init => ProgressRule
  BY DEF Init, ProgressRule, Early
<1>2. ProgressRule => ProgressWithinTotal
  BY DEF ProgressRule, ProgressWithinTotal
<1> QED BY <1>1, <1>2, UpdatePhases, ProgressStep, PTL DEF Spec
=============================================================================
