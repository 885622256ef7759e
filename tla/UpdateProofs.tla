---------------------------- MODULE UpdateProofs -----------------------------
(***************************************************************************)
(* Safety of the whole update, for every image, every segment size and     *)
(* every number of faults: what the host counts as written is in flash,    *)
(* the application is started with the complete image only, commands in    *)
(* flight are bounded by the repeated answers, and the system implements   *)
(* FirmwareUpdate.                                                         *)
(*                                                                         *)
(* No message carries a sequence number, so an answer is attributed to a   *)
(* command by nothing but the order of the link.  The invariant makes that *)
(* order explicit: in each state of the FSM it says which kinds of answers *)
(* may still be on their way, and in which order.                          *)
(***************************************************************************)
EXTENDS UpdateSystem, HostFsmProofs

INFO  == uint8(RESP_TARGET_INFO + node_id)
RESET == uint8(CMD_RESET_REQ + node_id)

\* The node number makes the reset request and its answer no other command
\* and no other answer: node 2, for one.  Node 1 and node 3 do not.
NodeApart ==
  /\ RESET \notin {CMD_PIPELINE_DATA, CMD_PIPELINE_VERIFY, CMD_START_APP}
  /\ INFO \notin {RESP_SEG_ACK, RESP_CRC_ACK, RESP_CRC_NACK,
                  RESP_APP_JUMP_ACK}

-----------------------------------------------------------------------------
(* The invariant. *)

\* What the target has said and the host has not yet looked at, oldest first;
\* the answer the target may repeat comes last.
OnTheWay == rx_queue \o to_host
Heard == IF last_answer = NULL THEN OnTheWay ELSE Append(OnTheWay, last_answer)

Only(said, commands) == \A n \in DOMAIN said : said[n].command \in commands
Some(said, commands) == \E n \in DOMAIN said : said[n].command \in commands

\* After one of the commands nothing else follows.
ToTheEnd(said, commands) ==
  \A m, n \in DOMAIN said :
    m < n /\ said[m].command \in commands => said[n].command \in commands

Verdicts == {RESP_CRC_ACK, RESP_CRC_NACK}
Settled  == {INFO} \cup Verdicts

\* The target has nothing to do and nothing buffered.
NothingAsked == to_target = <<>> /\ target_buffer = NULL

\* A frame with bytes of the sector, and the request to check the sector.
DataOf(frame, sector) ==
  /\ frame.command = CMD_PIPELINE_DATA
  /\ sector_base(frame.addr, TheInfo.sector_size) = sector.base_addr

VerifyOf(frame, sector) ==
  /\ frame.command = CMD_PIPELINE_VERIFY
  /\ frame.data = pipeline_sector_crc(sector)

AllData(frames, sector) == \A n \in DOMAIN frames : DataOf(frames[n], sector)

DataThenVerify(frames, sector) ==
  \A n \in DOMAIN frames :
    \/ DataOf(frames[n], sector)
    \/ n = Len(frames) /\ VerifyOf(frames[n], sector)

BufferOf(buffer, sector) == buffer # NULL => buffer.base = sector.base_addr

\* Before the target has introduced itself.
Connecting ==
  /\ current_state = "ST_INIT" =>
       NothingAsked /\ Heard = <<>> /\ Len(fsm_queue) = 1
  /\ current_state = "ST_SEND_RESET" =>
       /\ target_buffer = NULL
       /\ Only(to_target, {RESET}) /\ Len(to_target) <= 1
       /\ Only(Heard, {INFO})
       /\ Heard # <<>> \/ fsm_queue # <<>> => to_target = <<>>

\* Between two transmissions only what belongs to an earlier one is repeated.
BetweenSectors ==
  \/ current_state \in {"ST_BUILD_PIPELINE", "ST_NEXT_SECTOR"}
  \/ current_state = "ST_SEND_WINDOW" /\ Pending("EVT_START")
  => NothingAsked /\ Only(Heard, Settled)

\* While a sector is sent every frame and the buffer belong to it; what is
\* left of earlier transmissions comes before its acknowledgements, and when
\* the last segment has been acknowledged it is gone.
Sending ==
  current_state = "ST_SEND_WINDOW" =>
    /\ AllData(to_target, CurrentSector)
    /\ BufferOf(target_buffer, CurrentSector)
    /\ Only(Heard, Settled \cup {RESP_SEG_ACK})
    /\ ToTheEnd(Heard, {RESP_SEG_ACK})
    /\ Pending("EVT_SEG_ACK") \/ Pending("EVT_SECTOR_END") =>
         Only(Heard, {RESP_SEG_ACK})

\* While a sector is checked the request comes last, and a verdict is one on
\* this sector.
Verifying ==
  current_state = "ST_VERIFY" =>
    /\ DataThenVerify(to_target, CurrentSector)
    /\ BufferOf(target_buffer, CurrentSector)
    /\ Only(Heard, {RESP_SEG_ACK} \cup Verdicts)
    /\ ToTheEnd(Heard, Verdicts)
    /\ Pending("EVT_CRC_OK") \/ Pending("EVT_CRC_NACK") =>
         NothingAsked /\ Only(Heard, Verdicts)
    /\ Some(Heard, Verdicts) => NothingAsked
    /\ Some(Heard, {RESP_CRC_ACK}) \/ Pending("EVT_CRC_OK") =>
         current_sector + 1 \in Written

\* The application is asked for once, and its acknowledgement tells the truth.
Starting ==
  /\ current_state = "ST_APP_JUMP" =>
       /\ Only(to_target, {CMD_START_APP})
       /\ Only(Heard, Settled \cup {RESP_APP_JUMP_ACK})
       /\ Some(Heard, {RESP_APP_JUMP_ACK}) \/ Pending("EVT_APP_ACK") =>
            target_mode = "app"
  /\ current_state = "ST_DONE" => target_mode = "app"
  /\ target_mode = "app" => current_state \in {"ST_APP_JUMP", "ST_DONE"}
  /\ target_mode \in {"boot", "app"}

\* Where the host has stopped, or its behaviour is no longer defined.
Stopped ==
  /\ ~fsm_running =>
       current_state \in {"ST_BUILD_PIPELINE", "ST_SEND_WINDOW", "ST_DONE"}
  /\ current_state = "ST_DONE" => ~fsm_running
  /\ pc = "undefined" => current_state = "ST_SEND_WINDOW"

Flashed == ConfirmedIsFlashed /\ StartedIsComplete

Conversation ==
  /\ Connecting /\ BetweenSectors /\ Sending /\ Verifying
  /\ Starting /\ Stopped /\ Flashed

\* The types of what UpdateSystem adds to HostFsm, as far as they matter.
LinkTyped ==
  /\ to_host \in Seq(Responses)
  /\ last_answer = NULL \/ last_answer \in Responses
  /\ flash = [base \in Bases |-> flash[base]]
  /\ repeats \in Nat

-----------------------------------------------------------------------------
(* Sequences of answers. *)

\* part is whole with some of its elements left out.
Part(part, whole) ==
  \E f \in [DOMAIN part -> DOMAIN whole] :
    /\ \A m, n \in DOMAIN part : m < n => f[m] < f[n]
    /\ \A n \in DOMAIN part : part[n] = whole[f[n]]

\* The ways in which an answer leaves: none does, the oldest one, or the oldest
\* one of the link.
LEMMA PartSame ==
  ASSUME NEW S, NEW s \in Seq(S) PROVE Part(s, s)
<1> DEFINE f == [n \in DOMAIN s |-> n]
<1> SUFFICES /\ \A m, n \in DOMAIN s : m < n => f[m] < f[n]
             /\ \A n \in DOMAIN s : s[n] = s[f[n]]
  <2>1. f \in [DOMAIN s -> DOMAIN s]
    OBVIOUS
  <2> HIDE DEF f
  <2> QED BY <2>1 DEF Part
<1> QED OBVIOUS

LEMMA PartTail ==
  ASSUME NEW S, NEW s \in Seq(S), s # <<>> PROVE Part(Tail(s), s)
<1> DEFINE f == [n \in DOMAIN Tail(s) |-> n + 1]
<1>1. /\ DOMAIN s = 1 .. Len(s) /\ DOMAIN Tail(s) = 1 .. Len(s) - 1
      /\ Len(s) \in Nat /\ \A n \in DOMAIN Tail(s) : Tail(s)[n] = s[n + 1]
  OBVIOUS
<1>2. f \in [DOMAIN Tail(s) -> DOMAIN s]
  BY <1>1
<1>3. \A m, n \in DOMAIN Tail(s) : m < n => f[m] < f[n]
  BY <1>1
<1>4. \A n \in DOMAIN Tail(s) : Tail(s)[n] = s[f[n]]
  BY <1>1
<1> HIDE DEF f
<1> QED BY <1>2, <1>3, <1>4 DEF Part

LEMMA PartSkip ==
  ASSUME NEW S, NEW q \in Seq(S), NEW r \in Seq(S), r # <<>>
  PROVE  Part(q \o Tail(r), q \o r)
<1> DEFINE part == q \o Tail(r)
           whole == q \o r
           f == [n \in DOMAIN part |-> IF n <= Len(q) THEN n ELSE n + 1]
<1>1. /\ Len(q) \in Nat /\ Len(r) \in Nat \ {0}
      /\ DOMAIN part = 1 .. Len(q) + Len(r) - 1
      /\ DOMAIN whole = 1 .. Len(q) + Len(r)
      /\ \A n \in DOMAIN part :
           part[n] = IF n <= Len(q) THEN q[n] ELSE Tail(r)[n - Len(q)]
      /\ \A n \in DOMAIN whole :
           whole[n] = IF n <= Len(q) THEN q[n] ELSE r[n - Len(q)]
      /\ \A n \in 1 .. Len(r) - 1 : Tail(r)[n] = r[n + 1]
  OBVIOUS
<1> HIDE DEF part, whole
<1>2. f \in [DOMAIN part -> DOMAIN whole]
  BY <1>1
<1>3. \A m, n \in DOMAIN part : m < n => f[m] < f[n]
  BY <1>1
<1>4. ASSUME NEW n \in DOMAIN part PROVE part[n] = whole[f[n]]
  <2>1. CASE n <= Len(q)
    BY <1>1, <2>1
  <2>2. CASE n > Len(q)
    <3>1. n - Len(q) \in 1 .. Len(r) - 1 /\ f[n] = n + 1
      BY <1>1, <2>2
    <3>2. part[n] = r[n - Len(q) + 1]
      BY <1>1, <2>2, <3>1
    <3>3. whole[n + 1] = r[n - Len(q) + 1]
      <4>1. n + 1 \in DOMAIN whole /\ n + 1 - Len(q) = n - Len(q) + 1
        BY <1>1
      <4> QED BY <1>1, <2>2, <4>1
    <3> QED BY <3>1, <3>2, <3>3
  <2> QED BY <1>1, <2>1, <2>2
<1> HIDE DEF f
<1>5. Part(part, whole)
  BY <1>2, <1>3, <1>4 DEF Part
<1> QED BY <1>5 DEF part, whole

\* The RX thread moves the head of the link to the end of its queue.
LEMMA MoveHead ==
  ASSUME NEW S, NEW q \in Seq(S), NEW r \in Seq(S), r # <<>>
  PROVE  Append(q, Head(r)) \o Tail(r) = q \o r
  OBVIOUS

LEMMA PartFront ==
  ASSUME NEW S, NEW s \in Seq(S), NEW e PROVE Part(s, Append(s, e))
<1> DEFINE f == [n \in DOMAIN s |-> n]
<1>1. f \in [DOMAIN s -> DOMAIN Append(s, e)]
  OBVIOUS
<1>2. \A m, n \in DOMAIN s : m < n => f[m] < f[n]
  OBVIOUS
<1>3. \A n \in DOMAIN s : s[n] = Append(s, e)[f[n]]
  OBVIOUS
<1> HIDE DEF f
<1> QED BY <1>1, <1>2, <1>3 DEF Part

LEMMA PartAppend ==
  ASSUME NEW S, NEW p \in Seq(S), NEW s \in Seq(S), NEW e, Part(p, s)
  PROVE  Part(Append(p, e), Append(s, e))
<1>1. PICK f \in [DOMAIN p -> DOMAIN s] :
        /\ \A m, n \in DOMAIN p : m < n => f[m] < f[n]
        /\ \A n \in DOMAIN p : p[n] = s[f[n]]
  BY DEF Part
<1> DEFINE g == [n \in DOMAIN Append(p, e) |->
                   IF n = Len(p) + 1 THEN Len(s) + 1 ELSE f[n]]
<1>2. /\ Len(p) \in Nat /\ Len(s) \in Nat
      /\ DOMAIN p = 1 .. Len(p) /\ DOMAIN s = 1 .. Len(s)
      /\ DOMAIN Append(p, e) = 1 .. Len(p) + 1
      /\ DOMAIN Append(s, e) = 1 .. Len(s) + 1
      /\ \A n \in DOMAIN p : Append(p, e)[n] = p[n]
      /\ \A n \in DOMAIN s : Append(s, e)[n] = s[n]
      /\ Append(p, e)[Len(p) + 1] = e /\ Append(s, e)[Len(s) + 1] = e
  OBVIOUS
<1>3. g \in [DOMAIN Append(p, e) -> DOMAIN Append(s, e)]
  BY <1>2
<1>4. \A m, n \in DOMAIN Append(p, e) : m < n => g[m] < g[n]
  <2> SUFFICES ASSUME NEW m \in 1 .. Len(p) + 1, NEW n \in 1 .. Len(p) + 1, m < n
               PROVE  g[m] < g[n]
    BY <1>2
  <2>1. m \in DOMAIN p /\ f[m] \in 1 .. Len(s) /\ g[m] = f[m]
    BY <1>2
  <2> QED BY <1>1, <1>2, <2>1
<1>5. \A n \in DOMAIN Append(p, e) : Append(p, e)[n] = Append(s, e)[g[n]]
  BY <1>1, <1>2
<1> HIDE DEF g
<1> QED BY <1>3, <1>4, <1>5 DEF Part

\* What is said of a sequence of answers holds when some are left out.
LEMMA LessSaid ==
  ASSUME NEW p, NEW s, Part(p, s), DOMAIN p \subseteq Int, DOMAIN s \subseteq Int
  PROVE  /\ \A C : Only(s, C) => Only(p, C)
         /\ \A C : Some(p, C) => Some(s, C)
         /\ \A C : ToTheEnd(s, C) => ToTheEnd(p, C)
<1>1. PICK f \in [DOMAIN p -> DOMAIN s] :
        /\ \A m, n \in DOMAIN p : m < n => f[m] < f[n]
        /\ \A n \in DOMAIN p : p[n] = s[f[n]]
  BY DEF Part
<1>2. ASSUME NEW C, Only(s, C) PROVE Only(p, C)
  BY <1>1, <1>2 DEF Only
<1>3. ASSUME NEW C, Some(p, C) PROVE Some(s, C)
  BY <1>1, <1>3 DEF Some
<1>4. ASSUME NEW C, ToTheEnd(s, C) PROVE ToTheEnd(p, C)
  BY <1>1, <1>4 DEF ToTheEnd
<1> QED BY <1>2, <1>3, <1>4

\* What is said of a sequence of answers holds when one follows of which it
\* is true.
LEMMA MoreSaid ==
  ASSUME NEW S, NEW s \in Seq(S), NEW e
  PROVE  /\ \A C : Only(s, C) /\ e.command \in C => Only(Append(s, e), C)
         /\ \A C : Some(Append(s, e), C) => Some(s, C) \/ e.command \in C
         /\ \A C : ToTheEnd(s, C) /\ (Some(s, C) => e.command \in C)
                     => ToTheEnd(Append(s, e), C)
<1>1. /\ DOMAIN Append(s, e) = 1 .. Len(s) + 1 /\ DOMAIN s = 1 .. Len(s)
      /\ Len(s) \in Nat
      /\ \A n \in DOMAIN s : Append(s, e)[n] = s[n]
      /\ Append(s, e)[Len(s) + 1] = e
  OBVIOUS
<1>2. \A n \in DOMAIN Append(s, e) : n = Len(s) + 1 \/ n \in DOMAIN s
  BY <1>1
<1> QED BY <1>1, <1>2 DEF Only, Some, ToTheEnd

\* A command that is said is one of those that are.
LEMMA LastSaid ==
  ASSUME NEW S, NEW s \in Seq(S), NEW e
  PROVE  /\ \A C : Only(Append(s, e), C) => e.command \in C
         /\ \A C : ToTheEnd(Append(s, e), C) => ToTheEnd(s, C)
         /\ \A C : ToTheEnd(Append(s, e), C) /\ Some(s, C) => e.command \in C
<1>1. /\ DOMAIN Append(s, e) = 1 .. Len(s) + 1 /\ DOMAIN s = 1 .. Len(s)
      /\ Len(s) \in Nat
      /\ \A n \in DOMAIN s : Append(s, e)[n] = s[n]
      /\ Append(s, e)[Len(s) + 1] = e
  OBVIOUS
<1> QED BY <1>1 DEF Only, Some, ToTheEnd

\* What the host has not looked at is a sequence of responses.
LEMMA HeardTyped ==
  LinkTyped /\ Phases => OnTheWay \in Seq(Responses) /\ Heard \in Seq(Responses)
  BY DEF LinkTyped, Phases, EventDiscipline, OnTheWay, Heard

LEMMA SeqDomain ==
  ASSUME NEW S, NEW s \in Seq(S)
  PROVE  DOMAIN s \subseteq Int /\ DOMAIN s = 1 .. Len(s) /\ Len(s) \in Nat
  OBVIOUS

\* Fewer answers are on their way, or the target has forgotten its last one.
LEMMA HeardLess ==
  ASSUME LinkTyped, Phases, LinkTyped', Phases',
         last_answer' \in {last_answer, NULL},
         \/ UNCHANGED <<rx_queue, to_host>>
         \/ rx_queue # <<>> /\ rx_queue' = Tail(rx_queue) /\ to_host' = to_host
         \/ to_host # <<>> /\ to_host' = Tail(to_host)
              /\ rx_queue' \in {rx_queue, Append(rx_queue, Head(to_host))}
  PROVE  Part(Heard', Heard)
<1>1. /\ rx_queue \in Seq(Responses) /\ to_host \in Seq(Responses)
      /\ rx_queue' \in Seq(Responses) /\ to_host' \in Seq(Responses)
  BY DEF LinkTyped, Phases, EventDiscipline
<1>2. OnTheWay \in Seq(Responses) /\ OnTheWay' \in Seq(Responses)
  BY <1>1 DEF OnTheWay
<1>3. Part(OnTheWay', OnTheWay)
  <2>1. CASE UNCHANGED <<rx_queue, to_host>>
    BY <2>1, <1>2, PartSame DEF OnTheWay
  <2>2. CASE /\ rx_queue # <<>> /\ rx_queue' = Tail(rx_queue)
             /\ to_host' = to_host
    <3>1. OnTheWay' = Tail(OnTheWay) /\ OnTheWay # <<>>
      BY <2>2, <1>1 DEF OnTheWay
    <3> QED BY <3>1, <1>2, PartTail
  <2>3. CASE /\ to_host # <<>> /\ to_host' = Tail(to_host)
             /\ rx_queue' = Append(rx_queue, Head(to_host))
    <3>1. OnTheWay' = OnTheWay
      BY <2>3, <1>1, MoveHead DEF OnTheWay
    <3> QED BY <3>1, <1>2, PartSame
  <2>4. CASE to_host # <<>> /\ to_host' = Tail(to_host) /\ rx_queue' = rx_queue
    BY <2>4, <1>1, PartSkip DEF OnTheWay
  <2> QED BY <2>1, <2>2, <2>3, <2>4
<1>4. CASE last_answer = NULL
  <2>1. last_answer' = NULL
    BY <1>4
  <2> QED BY <1>3, <1>4, <2>1 DEF Heard
<1>5. CASE last_answer # NULL /\ last_answer' = last_answer
  BY <1>2, <1>3, <1>5, PartAppend DEF Heard
<1>6. CASE last_answer # NULL /\ last_answer' = NULL
  <2>1. PICK f \in [DOMAIN OnTheWay' -> DOMAIN OnTheWay] :
          /\ \A m, n \in DOMAIN OnTheWay' : m < n => f[m] < f[n]
          /\ \A n \in DOMAIN OnTheWay' : OnTheWay'[n] = OnTheWay[f[n]]
    BY <1>3 DEF Part
  <2>2. /\ DOMAIN OnTheWay \subseteq DOMAIN Append(OnTheWay, last_answer)
        /\ \A n \in DOMAIN OnTheWay :
             Append(OnTheWay, last_answer)[n] = OnTheWay[n]
    BY <1>2
  <2>3. Heard' = OnTheWay' /\ Heard = Append(OnTheWay, last_answer)
    BY <1>6 DEF Heard
  <2>4. f \in [DOMAIN OnTheWay' -> DOMAIN Append(OnTheWay, last_answer)]
    BY <2>2
  <2> QED BY <2>1, <2>2, <2>3, <2>4 DEF Part
<1> QED BY <1>4, <1>5, <1>6

\* The target answers.
LEMMA HeardAnswer ==
  ASSUME LinkTyped, Phases, NEW command, NEW length, Answer(command, length),
         UNCHANGED rx_queue
  PROVE  /\ \A C : Only(Heard, C) /\ command \in C => Only(Heard', C)
         /\ \A C : Some(Heard', C) => Some(Heard, C) \/ command \in C
         /\ \A C : ToTheEnd(Heard, C) /\ command \in C => ToTheEnd(Heard', C)
<1> DEFINE answer == AnswerPacket(command, length)
<1>1. answer.command = command
  BY DEF AnswerPacket
<1>2. to_host' = Append(to_host, answer) /\ last_answer' = answer
  BY DEF Answer
<1> HIDE DEF answer
<1>3. OnTheWay \in Seq(Responses) /\ to_host \in Seq(Responses)
      /\ rx_queue \in Seq(Responses)
  BY HeardTyped DEF LinkTyped, Phases, EventDiscipline
<1>4. OnTheWay' = Append(OnTheWay, answer)
  BY <1>2, <1>3 DEF OnTheWay
<1>5. Heard' \in {Append(OnTheWay, answer), Append(Append(OnTheWay, answer), answer)}
  BY <1>2, <1>4 DEF Heard
<1>6. /\ \A C : Only(Heard, C) => Only(OnTheWay, C)
      /\ \A C : Some(OnTheWay, C) => Some(Heard, C)
      /\ \A C : ToTheEnd(Heard, C) => ToTheEnd(OnTheWay, C)
  <2>1. CASE Heard = OnTheWay
    BY <2>1
  <2>2. CASE Heard = Append(OnTheWay, last_answer)
    <3>1. Part(OnTheWay, Heard)
      BY <2>2, <1>3, PartFront
    <3>2. DOMAIN OnTheWay \subseteq Int /\ DOMAIN Heard \subseteq Int
      BY <1>3, HeardTyped, SeqDomain
    <3> QED BY <3>1, <3>2, LessSaid
  <2> QED BY <2>1, <2>2 DEF Heard
<1>7. /\ \A C : Only(OnTheWay, C) /\ command \in C
                  => Only(Append(OnTheWay, answer), C)
      /\ \A C : Some(Append(OnTheWay, answer), C)
                  => Some(OnTheWay, C) \/ command \in C
      /\ \A C : ToTheEnd(OnTheWay, C) /\ command \in C
                  => ToTheEnd(Append(OnTheWay, answer), C)
  BY <1>1, <1>3, MoreSaid
<1>8. \E S : Append(OnTheWay, answer) \in Seq(S)
  <2>1. Append(OnTheWay, answer) \in Seq(Responses \cup {answer})
    BY <1>3
  <2> QED BY <2>1
<1>9. /\ \A C : Only(Append(OnTheWay, answer), C) /\ command \in C
                  => Only(Append(Append(OnTheWay, answer), answer), C)
      /\ \A C : Some(Append(Append(OnTheWay, answer), answer), C)
                  => Some(Append(OnTheWay, answer), C) \/ command \in C
      /\ \A C : ToTheEnd(Append(OnTheWay, answer), C) /\ command \in C
                  => ToTheEnd(Append(Append(OnTheWay, answer), answer), C)
  BY <1>1, <1>8, MoreSaid
<1> QED BY <1>5, <1>6, <1>7, <1>9

\* The target repeats its last answer.
LEMMA HeardRepeat ==
  ASSUME LinkTyped, Phases, last_answer # NULL,
         to_host' = Append(to_host, last_answer),
         UNCHANGED <<rx_queue, last_answer>>
  PROVE  /\ Heard # <<>>
         /\ \A C : Only(Heard, C) => Only(Heard', C)
         /\ \A C : Some(Heard', C) => Some(Heard, C)
         /\ \A C : ToTheEnd(Heard, C) => ToTheEnd(Heard', C)
<1> DEFINE l == last_answer
<1>1. /\ OnTheWay \in Seq(Responses) /\ to_host \in Seq(Responses)
      /\ rx_queue \in Seq(Responses) /\ l \in Responses
  BY HeardTyped DEF LinkTyped, Phases, EventDiscipline
<1>2. OnTheWay' = Append(OnTheWay, l)
  BY <1>1 DEF OnTheWay
<1>3. Heard = Append(OnTheWay, l) /\ Heard' = Append(Heard, l)
  BY <1>2 DEF Heard
<1>4. Heard \in Seq(Responses)
  BY <1>1, <1>3
<1>5. \A C : Only(Heard, C) => l.command \in C
  BY <1>1, <1>3, LastSaid
<1>6. \A C : l.command \in C => Some(Heard, C)
  <2>1. Len(OnTheWay) + 1 \in DOMAIN Heard /\ Heard[Len(OnTheWay) + 1] = l
    BY <1>1, <1>3
  <2> QED BY <2>1 DEF Some
<1>7. \A C : ToTheEnd(Heard, C) /\ Some(Heard, C) => l.command \in C
  <2> SUFFICES ASSUME NEW C, ToTheEnd(Heard, C), Some(Heard, C)
               PROVE  l.command \in C
    OBVIOUS
  <2>1. PICK m \in DOMAIN Heard : Heard[m].command \in C
    BY DEF Some
  <2>2. /\ Len(OnTheWay) + 1 \in DOMAIN Heard /\ Heard[Len(OnTheWay) + 1] = l
        /\ m = Len(OnTheWay) + 1 \/ m < Len(OnTheWay) + 1
    BY <1>1, <1>3
  <2> QED BY <2>1, <2>2 DEF ToTheEnd
<1>8. Heard # <<>>
  BY <1>1, <1>3
<1> QED BY <1>3, <1>4, <1>5, <1>6, <1>7, <1>8, MoreSaid

-----------------------------------------------------------------------------
(* The update as a behaviour of the host. *)

LEMMA LinkInit == SysInit => LinkTyped
  BY DEF SysInit, LinkTyped

\* An answer is a response the host is ready for.
LEMMA AnswerTyped ==
  ASSUME LinkTyped, NEW command, NEW length, Answer(command, length),
         AnswerPacket(command, length) \in Responses
  PROVE  to_host' \in Seq(Responses) /\ last_answer' \in Responses
  BY DEF LinkTyped, Answer

LEMMA LinkStep == LinkTyped /\ [SysNext]_sysVars => LinkTyped'
<1> SUFFICES ASSUME LinkTyped, [SysNext]_sysVars PROVE LinkTyped'
  OBVIOUS
<1>1. CASE HostStep \/ Sigint \/ UNCHANGED sysVars \/ LoseCommand
  BY <1>1 DEF HostStep, Sigint, LoseCommand, sysVars, targetVars, faultVars,
              LinkTyped
<1>2. CASE RxThread \/ LoseResponse
  BY <1>2, PopQueue
     DEF RxThread, LoseResponse, targetVars, faultVars, LinkTyped
<1>3. CASE TargetRepeats \/ TargetRestarts
  <2>1. CASE TargetRepeats
    BY <2>1 DEF TargetRepeats, targetVars, LinkTyped
  <2>2. CASE TargetRestarts
    BY <2>2 DEF TargetRestarts, LinkTyped
  <2> QED BY <1>3, <2>1, <2>2
<1>4. CASE Target
  <2>1. repeats' = repeats
    BY <1>4 DEF Target, TargetReset, TargetData, TargetVerifyOk,
                TargetVerifyMismatch, TargetWriteFault, TargetStart, Arrives
  <2>2. flash' = [base \in Bases |-> flash'[base]]
    BY <1>4 DEF Target, TargetReset, TargetData, TargetVerifyOk,
                TargetVerifyMismatch, TargetWriteFault, TargetStart, LinkTyped
  <2>3. \/ Answer(uint8(RESP_TARGET_INFO + node_id), 8)
        \/ \E command \in {RESP_SEG_ACK, RESP_CRC_ACK, RESP_CRC_NACK,
                           RESP_APP_JUMP_ACK} :
             Answer(command, AckLength)
    BY <1>4 DEF Target, TargetReset, TargetData, TargetVerifyOk,
                TargetVerifyMismatch, TargetWriteFault, TargetStart
  <2>4. to_host' \in Seq(Responses) /\ last_answer' \in Responses
    BY <2>3, AnswerTyped, AnswersAssumption
  <2> QED BY <2>1, <2>2, <2>4 DEF LinkTyped
<1> QED BY <1>1, <1>2, <1>3, <1>4 DEF SysNext

\* To the host the target and the link are its environment: every step of
\* the system is one of HostFsm.
LEMMA HostSees == LinkTyped /\ [SysNext]_sysVars => [Next]_vars
<1> SUFFICES ASSUME LinkTyped, [SysNext]_sysVars PROVE [Next]_vars
  OBVIOUS
<1>1. CASE RxThread
  <2>1. Head(to_host) \in Responses
    BY <1>1, PopQueue DEF RxThread, LinkTyped
  <2> QED BY <1>1, <2>1 DEF RxThread, Next
<1>2. CASE Target
  <2>1. FrameLeaves
    BY <1>2 DEF Target, TargetReset, TargetData, TargetVerifyOk,
                TargetVerifyMismatch, TargetWriteFault, TargetStart, Arrives,
                FrameLeaves
  <2> QED BY <2>1 DEF Next
<1> QED BY <1>1, <1>2 DEF SysNext, HostStep, Sigint, TargetRepeats,
        TargetRestarts, LoseCommand, LoseResponse, sysVars, Next

\* Everything that is proved of the host holds in the system.
LEMMA HostInvariants == SysSpec => [](LinkTyped /\ Phases /\ TypeOK)
<1>1. SysInit => LinkTyped /\ Phases /\ FramesTyped
  <2>1. SysInit => Init
    BY DEF SysInit
  <2> QED BY <2>1, LinkInit, PhasesInit DEF Init, FramesTyped
<1>2. LinkTyped /\ Phases /\ FramesTyped /\ [SysNext]_sysVars
        => (LinkTyped /\ Phases /\ FramesTyped)'
  BY LinkStep, HostSees, PhasesStep, FramesStep
<1>3. Phases /\ FramesTyped => TypeOK
  BY DEF Phases, EventDiscipline, Ranges, FramesTyped, TypeOK
<1> QED BY <1>1, <1>2, <1>3, PTL DEF SysSpec

-----------------------------------------------------------------------------
(* Stop and wait. *)

\* Commands, answers and events together are at most one and the repeats.
InFlight == Len(to_target) + Len(to_host) + Len(rx_queue) + Len(fsm_queue)
Bounded == InFlight <= 1 + repeats

\* The lengths are numbers.
LEMMA LengthsNat ==
  LinkTyped /\ TypeOK =>
    /\ Len(to_target) \in Nat /\ Len(to_host) \in Nat
    /\ Len(rx_queue) \in Nat /\ Len(fsm_queue) \in Nat
  BY DEF LinkTyped, TypeOK

\* Arithmetic the provers do not find under Len.
LEMMA Trade ==
  ASSUME NEW a \in Nat, NEW b \in Nat, NEW c \in Nat, NEW d \in Int,
         \/ c <= a + 1 /\ d = b - 1
         \/ c = a /\ d = b - 1
         \/ c = a /\ d = b
  PROVE  c + d <= a + b
  OBVIOUS

\* A handled event is replaced by at most one frame or one event.
LEMMA OneForOne ==
  ASSUME LinkTyped, TypeOK, FsmAction
  PROVE  /\ Len(to_target') + Len(fsm_queue') <= Len(to_target) + Len(fsm_queue)
         /\ UNCHANGED rx_queue
<1>1. fsm_queue # <<>> /\ rx_queue' = rx_queue
  BY DEF FsmAction, act_send_reset, act_target_info_reject,
         act_target_info, act_build_pipeline, act_build_pipeline_undefined,
         act_send_window, act_send_window_sector_end, act_send_window_null,
         act_send_window_overrun, act_crc_verify, act_crc_nack,
         act_crc_nack_abort, act_next_sector, act_app_jump, act_done, Takes
<1>2. /\ Len(Tail(fsm_queue)) = Len(fsm_queue) - 1
      /\ Tail(fsm_queue) \in Seq(Events)
      /\ Len(fsm_queue) \in Nat /\ Len(to_target) \in Nat
  BY <1>1, PopQueue DEF TypeOK
<1>3. ASSUME NEW type, Dispatch(type) PROVE Len(fsm_queue') = Len(fsm_queue)
  BY <1>2, <1>3 DEF Dispatch
<1>4. ASSUME Consume PROVE Len(fsm_queue') = Len(fsm_queue) - 1
  BY <1>2, <1>4 DEF Consume
<1>5. ASSUME NEW pkt, NEW sent, Transmit(pkt, sent)
      PROVE  Len(to_target') <= Len(to_target) + 1 /\ Len(to_target') \in Nat
  BY <1>5 DEF Transmit, TypeOK
<1>6. \/ Consume /\ to_target' = to_target
      \/ Consume /\ \E pkt, sent : Transmit(pkt, sent)
      \/ (\E type : Dispatch(type)) /\ to_target' = to_target
  BY DEF FsmAction, act_send_reset, act_target_info_reject,
         act_target_info, act_build_pipeline, act_build_pipeline_undefined,
         act_send_window, act_send_window_sector_end, act_send_window_null,
         act_send_window_overrun, act_crc_verify, act_crc_nack,
         act_crc_nack_abort, act_next_sector, act_app_jump, act_done
<1>7. CASE Consume /\ to_target' = to_target
  <2>1. Len(fsm_queue') = Len(fsm_queue) - 1
    BY <1>4, <1>7
  <2> QED BY <1>1, <1>2, <1>7, <2>1, Trade
<1>8. CASE Consume /\ \E pkt, sent : Transmit(pkt, sent)
  <2>1. Len(to_target') <= Len(to_target) + 1 /\ Len(to_target') \in Nat
    BY <1>5, <1>8
  <2>2. Len(fsm_queue') = Len(fsm_queue) - 1
    BY <1>4, <1>8
  <2> QED BY <1>1, <1>2, <2>1, <2>2, Trade
<1>9. CASE (\E type : Dispatch(type)) /\ to_target' = to_target
  <2>1. Len(fsm_queue') = Len(fsm_queue)
    BY <1>3, <1>9
  <2> QED BY <1>1, <1>2, <1>9, <2>1, Trade
<1> QED BY <1>1, <1>6, <1>7, <1>8, <1>9

\* The length of a queue that one element leaves, or enters.
LEMMA OneOff ==
  ASSUME NEW S, NEW q \in Seq(S), q # <<>>
  PROVE  Len(Tail(q)) + 1 = Len(q)
  OBVIOUS

LEMMA OneOn ==
  ASSUME NEW S, NEW q \in Seq(S), NEW e
  PROVE  Len(Append(q, e)) = Len(q) + 1
  OBVIOUS

LEMMA BoundedStep ==
  LinkTyped /\ LinkTyped' /\ TypeOK /\ TypeOK' /\ Bounded /\ [SysNext]_sysVars
    => Bounded'
<1> SUFFICES ASSUME LinkTyped, LinkTyped', TypeOK, TypeOK', Bounded,
                    [SysNext]_sysVars
             PROVE  Bounded'
  OBVIOUS
<1> DEFINE t == Len(to_target)
           h == Len(to_host)
           r == Len(rx_queue)
           f == Len(fsm_queue)
           k == repeats
           t2 == Len(to_target')
           h2 == Len(to_host')
           r2 == Len(rx_queue')
           f2 == Len(fsm_queue')
           k2 == repeats'
<1>1. /\ t \in Nat /\ h \in Nat /\ r \in Nat /\ f \in Nat /\ k \in Nat
      /\ t2 \in Nat /\ h2 \in Nat /\ r2 \in Nat /\ f2 \in Nat /\ k2 \in Nat
  <2>1. /\ to_target' \in Seq(Frames) /\ to_host' \in Seq(Responses)
        /\ rx_queue' \in Seq(Responses) /\ fsm_queue' \in Seq(Events)
        /\ repeats' \in Nat
    BY DEF LinkTyped, TypeOK
  <2>2. repeats \in Nat
    BY DEF LinkTyped
  <2> QED BY <2>1, <2>2, LengthsNat
<1>2. /\ to_target \in Seq(Frames) /\ to_host \in Seq(Responses)
      /\ rx_queue \in Seq(Responses) /\ fsm_queue \in Seq(Events)
  BY DEF LinkTyped, TypeOK
<1>3. t + h + r + f <= 1 + k
  BY DEF Bounded, InFlight
<1>4. \/ t2 + f2 <= t + f /\ h2 = h /\ r2 = r /\ k2 = k
      \/ t2 = t /\ h2 = h /\ r2 + 1 = r /\ f2 <= f + 1 /\ k2 = k
      \/ t2 = t /\ h2 = h /\ r2 = r /\ f2 + 1 = f /\ k2 = k
      \/ t2 = t /\ h2 + 1 = h /\ r2 <= r + 1 /\ f2 = f /\ k2 = k
      \/ t2 + 1 = t /\ h2 <= h + 1 /\ r2 = r /\ f2 = f /\ k2 = k
      \/ t2 = t /\ h2 = h + 1 /\ r2 = r /\ f2 = f /\ k2 = k + 1
      \/ t2 = t /\ h2 = h /\ r2 = r /\ f2 = f /\ k2 = k
  <2>1. CASE HostStep
    <3>1. h2 = h /\ k2 = k
      BY <2>1 DEF HostStep, faultVars
    <3>2. CASE FsmAction
      BY <3>1, <3>2, OneForOne
    <3>3. CASE SignalGeneration
      <4>1. /\ rx_queue # <<>> /\ rx_queue' = Tail(rx_queue)
            /\ fsm_queue' = fsm_queue \o SignalOf(Head(rx_queue))
            /\ to_target' = to_target
        BY <3>3 DEF SignalGeneration
      <4>2. r2 + 1 = r
        BY <1>2, <4>1, OneOff
      <4>3. /\ SignalOf(Head(rx_queue)) \in Seq(Events)
            /\ Len(SignalOf(Head(rx_queue))) <= 1
        BY <1>2, <4>1, PopQueue, SignalType
      <4>4. f2 <= f + 1
        <5> DEFINE new == SignalOf(Head(rx_queue))
        <5>1. new \in Seq(Events) /\ Len(new) <= 1 /\ fsm_queue' = fsm_queue \o new
          BY <4>1, <4>3
        <5> HIDE DEF new
        <5>2. Len(fsm_queue \o new) = Len(fsm_queue) + Len(new) /\ Len(new) \in Nat
          BY <1>2, <5>1
        <5>3. f2 = f + Len(new)
          BY <5>1, <5>2
        <5> HIDE DEF f
        <5> QED BY <1>1, <5>1, <5>2, <5>3
      <4> QED BY <3>1, <4>1, <4>2, <4>4
    <3>4. CASE DropEvent
      <4>1. /\ fsm_queue # <<>> /\ fsm_queue' = Tail(fsm_queue)
            /\ UNCHANGED <<rx_queue, to_target>>
        BY <3>4 DEF DropEvent, Consume
      <4> QED BY <1>2, <3>1, <4>1, OneOff
    <3>5. CASE EmptyPoll \/ RunDone \/ MainExit
      BY <3>1, <3>5 DEF EmptyPoll, RunDone, MainExit, fsmVars
    <3> QED BY <2>1, <3>2, <3>3, <3>4, <3>5 DEF HostStep, Host
  <2>2. CASE Sigint \/ TargetRestarts \/ UNCHANGED sysVars
    BY <2>2 DEF Sigint, handle_sigint, TargetRestarts, sysVars, vars, fsmVars,
                queueVars, targetVars, faultVars
  <2>3. CASE RxThread
    <3>1. /\ to_host # <<>> /\ to_host' = Tail(to_host)
          /\ UNCHANGED <<to_target, fsm_queue, repeats>>
          /\ rx_queue' = rx_queue \/ rx_queue' = Append(rx_queue, Head(to_host))
      BY <2>3 DEF RxThread, comm_rx_thread, vars, fsmVars, queueVars, faultVars
    <3>2. h2 + 1 = h
      BY <1>2, <3>1, OneOff
    <3>3. r2 = r \/ r2 = r + 1
      BY <1>2, <3>1, OneOn
    <3>4. r2 <= r + 1
      BY <1>1, <3>3
    <3> QED BY <3>1, <3>2, <3>4
  <2>4. CASE Target
    <3>1. /\ to_target # <<>> /\ to_target' = Tail(to_target)
          /\ UNCHANGED <<rx_queue, fsm_queue, repeats>>
          /\ \E answer : to_host' = Append(to_host, answer)
      BY <2>4 DEF Target, TargetReset, TargetData, TargetVerifyOk,
                  TargetVerifyMismatch, TargetWriteFault, TargetStart, Arrives,
                  Answer, fsmVars
    <3>2. t2 + 1 = t
      BY <1>2, <3>1, OneOff
    <3>3. h2 = h + 1
      BY <1>2, <3>1, OneOn
    <3>4. h2 <= h + 1
      BY <1>1, <3>3
    <3> QED BY <3>1, <3>2, <3>4
  <2>5. CASE TargetRepeats
    <3>1. /\ to_host' = Append(to_host, last_answer) /\ repeats' = repeats + 1
          /\ UNCHANGED <<to_target, rx_queue, fsm_queue>>
      BY <2>5 DEF TargetRepeats, vars, fsmVars, queueVars
    <3> QED BY <1>2, <3>1, OneOn
  <2>6. CASE LoseCommand
    <3>1. /\ to_target # <<>> /\ to_target' = Tail(to_target)
          /\ UNCHANGED <<to_host, rx_queue, fsm_queue, repeats>>
      BY <2>6 DEF LoseCommand, FrameLeaves, fsmVars
    <3>2. t2 + 1 = t
      BY <1>2, <3>1, OneOff
    <3>3. h2 <= h + 1
      BY <1>1, <3>1
    <3> QED BY <3>1, <3>2, <3>3
  <2>7. CASE LoseResponse
    <3>1. /\ to_host # <<>> /\ to_host' = Tail(to_host)
          /\ UNCHANGED <<to_target, rx_queue, fsm_queue, repeats>>
      BY <2>7 DEF LoseResponse, vars, fsmVars, queueVars
    <3>2. h2 + 1 = h
      BY <1>2, <3>1, OneOff
    <3>3. r2 <= r + 1
      BY <1>1, <3>1
    <3> QED BY <3>1, <3>2, <3>3
  <2> QED BY <2>1, <2>2, <2>3, <2>4, <2>5, <2>6, <2>7 DEF SysNext
<1>5. t2 + h2 + r2 + f2 <= 1 + k2
  <2> HIDE DEF t, h, r, f, k, t2, h2, r2, f2, k2
  <2>1. CASE t2 + f2 <= t + f /\ h2 = h /\ r2 = r /\ k2 = k
    BY <1>1, <1>3, <2>1
  <2>2. CASE t2 = t /\ h2 = h /\ r2 + 1 = r /\ f2 <= f + 1 /\ k2 = k
    BY <1>1, <1>3, <2>2
  <2>3. CASE t2 = t /\ h2 = h /\ r2 = r /\ f2 + 1 = f /\ k2 = k
    BY <1>1, <1>3, <2>3
  <2>4. CASE t2 = t /\ h2 + 1 = h /\ r2 <= r + 1 /\ f2 = f /\ k2 = k
    BY <1>1, <1>3, <2>4
  <2>5. CASE t2 + 1 = t /\ h2 <= h + 1 /\ r2 = r /\ f2 = f /\ k2 = k
    BY <1>1, <1>3, <2>5
  <2>6. CASE t2 = t /\ h2 = h + 1 /\ r2 = r /\ f2 = f /\ k2 = k + 1
    BY <1>1, <1>3, <2>6
  <2>7. CASE t2 = t /\ h2 = h /\ r2 = r /\ f2 = f /\ k2 = k
    BY <1>1, <1>3, <2>7
  <2> QED BY <1>4, <2>1, <2>2, <2>3, <2>4, <2>5, <2>6, <2>7
<1> QED BY <1>5 DEF Bounded, InFlight

\* The next command is sent only when the one before has been answered: an
\* answer the target repeats adds one command at most, and losses, failed
\* writes and resets add none.
THEOREM OneCommandAtATime == SysSpec => []StopAndWait
<1>1. SysInit => Bounded
  <2> SUFFICES ASSUME SysInit PROVE Bounded
    OBVIOUS
  <2>1. /\ to_target = <<>> /\ to_host = <<>> /\ rx_queue = <<>>
        /\ fsm_queue = <<Event("EVT_START")>> /\ repeats = 0
    BY DEF SysInit, Init
  <2> QED BY <2>1 DEF Bounded, InFlight
<1>2. LinkTyped /\ TypeOK /\ Bounded => StopAndWait
  <2> SUFFICES ASSUME LinkTyped, TypeOK, Bounded PROVE StopAndWait
    OBVIOUS
  <2> DEFINE external == {n \in DOMAIN fsm_queue :
                            fsm_queue[n].type \in ExternalEvents}
  <2>1. /\ Len(to_target) \in Nat /\ Len(to_host) \in Nat
        /\ Len(rx_queue) \in Nat /\ Len(fsm_queue) \in Nat /\ repeats \in Nat
    BY LengthsNat DEF LinkTyped
  <2>2. DOMAIN fsm_queue = 1 .. Len(fsm_queue)
    BY DEF TypeOK
  <2>3. /\ IsFiniteSet(DOMAIN fsm_queue)
        /\ Cardinality(DOMAIN fsm_queue) = Len(fsm_queue)
    <3>1. 1 \in Int /\ Len(fsm_queue) \in Int
      BY <2>1
    <3>2. /\ IsFiniteSet(1 .. Len(fsm_queue))
          /\ Cardinality(1 .. Len(fsm_queue)) =
               IF 1 > Len(fsm_queue) THEN 0 ELSE Len(fsm_queue) - 1 + 1
      BY <3>1, FS_Interval
    <3> QED BY <2>1, <2>2, <3>2
  <2>4. external \subseteq DOMAIN fsm_queue
    OBVIOUS
  <2>5. Cardinality(external) \in Nat /\ Cardinality(external) <= Len(fsm_queue)
    BY <2>3, <2>4, FS_Subset, FS_CardinalityType
  <2>6. Outstanding = Len(to_target) + Len(to_host) + Len(rx_queue)
                        + Cardinality(external)
    BY DEF Outstanding
  <2> HIDE DEF external
  <2> QED BY <2>1, <2>5, <2>6 DEF Bounded, InFlight, StopAndWait
<1> QED BY <1>1, <1>2, BoundedStep, HostInvariants, PTL DEF SysSpec

-----------------------------------------------------------------------------
(* The image. *)

LEMMA TheOnly ==
  /\ TheInfo \in TargetInfos /\ SectorSizes = {TheInfo.sector_size}
  /\ TheInfo.sector_size \in Nat \ {0}
  /\ \A hex \in Images : Image = hex.pipelines[TheInfo.sector_size]
<1>1. PICK info \in TargetInfos : TargetInfos = {info} /\ info.sector_size > 0
  BY SystemAssumption
<1>2. TheInfo = info
  BY <1>1 DEF TheInfo
<1>3. info.sector_size \in uint16
  BY EnvironmentAssumption DEF TargetInfo
<1>4. info.sector_size \in Nat
  BY <1>3, Uint16
<1>5. PICK hex \in Images : Images = {hex}
  BY SystemAssumption
<1>6. Image = hex.pipelines[TheInfo.sector_size]
  BY <1>5 DEF Image
<1>7. SectorSizes = {info.sector_size}
  BY <1>1 DEF SectorSizes
<1>8. info.sector_size \in Nat \ {0}
  BY <1>1, <1>4
<1> QED BY <1>2, <1>5, <1>6, <1>7, <1>8

LEMMA ImageTyped ==
  /\ Image \in Seq(SectorOf(TheInfo.sector_size))
  /\ Len(Image) \in Nat /\ DOMAIN Image = 1 .. Len(Image)
<1>1. PICK hex \in Images : TRUE
  BY SystemAssumption
<1>2. Image = hex.pipelines[TheInfo.sector_size] /\ TheInfo.sector_size \in SectorSizes
  BY TheOnly
<1>3. Image \in Seq(SectorOf(TheInfo.sector_size))
  BY <1>2, PipelineAssumption DEF SectorsWithin
<1> QED BY <1>3

\* The sector array is empty, or the image; it is the image once it has been
\* built.
LEMMA SectorsAre ==
  ASSUME Phases
  PROVE  /\ sectors = <<>> \/ sectors = Image
         /\ current_sector \in Nat /\ current_sector <= Len(sectors)
         /\ current_state \notin Early /\ pc # "undefined" => sectors = Image
         /\ current_sector <= Len(Image)
<1>1. image \in Images /\ current_sector \in 0 .. Len(sectors)
  BY DEF Phases, Ranges
<1>2. \A size \in SectorSizes : PipelineOf[size] = Image
  BY <1>1, TheOnly DEF PipelineOf
<1>3. sectors = <<>> \/ sectors = Image
  BY <1>2 DEF Phases, Ranges
<1>4. current_state \notin Early /\ pc # "undefined" => sectors = Image
  BY <1>2 DEF Phases, BuildPhase
<1>5. Len(sectors) \in Nat /\ Len(sectors) <= Len(Image)
  BY <1>3, ImageTyped
<1>6. current_sector \in Nat /\ current_sector <= Len(sectors)
  BY <1>1, <1>5
<1> QED BY <1>3, <1>4, <1>5, <1>6, ImageTyped

-----------------------------------------------------------------------------
(* Steps that only take something away. *)

\* Frames of the current sector stay that when the oldest one leaves.
LEMMA FramesLeave ==
  ASSUME NEW S, NEW q \in Seq(S), q # <<>>, NEW sector
  PROVE  /\ \A C : Only(q, C) => Only(Tail(q), C)
         /\ AllData(q, sector) => AllData(Tail(q), sector)
         /\ DataThenVerify(q, sector) => DataThenVerify(Tail(q), sector)
         /\ Len(Tail(q)) <= Len(q)
         /\ Len(Tail(q)) \in Nat
<1>1. /\ DOMAIN Tail(q) = 1 .. Len(q) - 1 /\ DOMAIN q = 1 .. Len(q)
      /\ Len(q) \in Nat \ {0} /\ Len(Tail(q)) = Len(q) - 1
      /\ \A n \in 1 .. Len(q) - 1 : Tail(q)[n] = q[n + 1]
  OBVIOUS
<1>2. \A C : Only(q, C) => Only(Tail(q), C)
  BY <1>1 DEF Only
<1>3. AllData(q, sector) => AllData(Tail(q), sector)
  BY <1>1 DEF AllData
<1>4. DataThenVerify(q, sector) => DataThenVerify(Tail(q), sector)
  <2> SUFFICES ASSUME DataThenVerify(q, sector), NEW n \in 1 .. Len(q) - 1
               PROVE  \/ DataOf(q[n + 1], sector)
                      \/ n = Len(q) - 1 /\ VerifyOf(q[n + 1], sector)
    BY <1>1 DEF DataThenVerify
  <2> DEFINE k == Len(q)
  <2>1. k \in Nat \ {0} /\ n \in 1 .. k - 1 /\ DOMAIN q = 1 .. k
    BY <1>1
  <2> HIDE DEF k
  <2>2. n + 1 \in DOMAIN q /\ (n + 1 = k => n = k - 1)
    BY <2>1
  <2> QED BY <2>2 DEF DataThenVerify, k
<1> QED BY <1>1, <1>2, <1>3, <1>4

\* A frame or an answer is taken away, or the target forgets: nothing that
\* has been said of the rest becomes false.
LEMMA LessStep ==
  ASSUME LinkTyped, LinkTyped', Phases, Phases', TypeOK, Conversation,
         Part(Heard', Heard),
         \/ to_target' = to_target
         \/ to_target # <<>> /\ to_target' = Tail(to_target),
         target_buffer' \in {target_buffer, NULL},
         UNCHANGED <<fsm_running, current_state, fsm_queue, sectors,
                     current_sector, target_mode, flash>>,
         pc' = "undefined" => pc = "undefined"
  PROVE  Conversation'
<1>1. /\ \A C : Only(Heard, C) => Only(Heard', C)
      /\ \A C : Some(Heard', C) => Some(Heard, C)
      /\ \A C : ToTheEnd(Heard, C) => ToTheEnd(Heard', C)
      /\ Heard = <<>> => Heard' = <<>>
  <2>1. Heard \in Seq(Responses) /\ Heard' \in Seq(Responses)
    <3>1. Heard' \in Seq(Responses)
      BY DEF LinkTyped, Phases, EventDiscipline, OnTheWay, Heard
    <3> QED BY <3>1, HeardTyped
  <2>2. DOMAIN Heard \subseteq Int /\ DOMAIN Heard' \subseteq Int
    BY <2>1, SeqDomain
  <2>3. Heard = <<>> => Heard' = <<>>
    <3> SUFFICES ASSUME Heard = <<>> PROVE Heard' = <<>>
      OBVIOUS
    <3>1. PICK f \in [DOMAIN Heard' -> DOMAIN Heard] : TRUE
      BY DEF Part
    <3>2. DOMAIN Heard' = {}
      BY <3>1
    <3> QED BY <2>1, <3>2
  <2> QED BY <2>2, <2>3, LessSaid
<1>2. /\ \A C : Only(to_target, C) => Only(to_target', C)
      /\ AllData(to_target, CurrentSector) => AllData(to_target', CurrentSector)
      /\ DataThenVerify(to_target, CurrentSector)
           => DataThenVerify(to_target', CurrentSector)
      /\ Len(to_target) <= 1 => Len(to_target') <= 1
      /\ to_target = <<>> => to_target' = <<>>
  <2>1. to_target \in Seq(Frames) /\ Len(to_target) \in Nat
    BY DEF TypeOK
  <2>2. CASE to_target' = to_target
    BY <2>2
  <2>3. CASE to_target # <<>> /\ to_target' = Tail(to_target)
    <3>1. /\ Len(Tail(to_target)) <= Len(to_target)
          /\ Len(Tail(to_target)) \in Nat
      BY <2>1, <2>3, FramesLeave
    <3> QED BY <2>1, <2>3, <3>1, FramesLeave
  <2> QED BY <2>2, <2>3
<1>3. CurrentSector' = CurrentSector /\ Written' = Written
  BY DEF CurrentSector, Written
<1>4. /\ NothingAsked => NothingAsked'
      /\ BufferOf(target_buffer, CurrentSector)
           => BufferOf(target_buffer', CurrentSector')
      /\ \A type : Pending(type)' <=> Pending(type)
  BY <1>2, <1>3 DEF NothingAsked, BufferOf, Pending
<1>5. Connecting'
  BY <1>1, <1>2, <1>4 DEF Conversation, Connecting
<1>6. BetweenSectors' /\ Sending'
  BY <1>1, <1>2, <1>3, <1>4 DEF Conversation, BetweenSectors, Sending
<1>7. Verifying'
  BY <1>1, <1>2, <1>3, <1>4 DEF Conversation, Verifying
<1>8. Starting' /\ Stopped'
  BY <1>1, <1>2, <1>4 DEF Conversation, Starting, Stopped
<1>9. Flashed'
  BY <1>3 DEF Conversation, Flashed, ConfirmedIsFlashed, StartedIsComplete
<1> QED BY <1>5, <1>6, <1>7, <1>8, <1>9 DEF Conversation

\* What is assumed of the two ends of a step.
Before == LinkTyped /\ Phases /\ TypeOK /\ Conversation
After  == LinkTyped' /\ Phases' /\ TypeOK'

\* The RX thread, the losses, a restart of the target, SIGINT and the steps of
\* the main loop that handle no event.
LEMMA QuietSteps ==
  ASSUME Before, After,
         \/ HostStep /\ (EmptyPoll \/ RunDone \/ MainExit)
         \/ Sigint
         \/ RxThread
         \/ TargetRestarts
         \/ LoseCommand
         \/ LoseResponse
         \/ UNCHANGED sysVars
  PROVE  Conversation'
<1> USE DEF Before, After
<1>1. /\ UNCHANGED <<fsm_running, current_state, fsm_queue, sectors,
                     current_sector, target_mode, flash>>
      /\ pc' = "undefined" => pc = "undefined"
      /\ target_buffer' \in {target_buffer, NULL}
      /\ last_answer' \in {last_answer, NULL}
      /\ \/ to_target' = to_target
         \/ to_target # <<>> /\ to_target' = Tail(to_target)
  BY DEF HostStep, EmptyPoll, RunDone, MainExit, Sigint, handle_sigint, RxThread,
         comm_rx_thread, TargetRestarts, LoseCommand, FrameLeaves, LoseResponse,
         sysVars, vars, fsmVars, ctxVars, cursorVars, targetVars
<1>2. \/ UNCHANGED <<rx_queue, to_host>>
      \/ to_host # <<>> /\ to_host' = Tail(to_host)
           /\ rx_queue' \in {rx_queue, Append(rx_queue, Head(to_host))}
  BY DEF HostStep, EmptyPoll, RunDone, MainExit, Sigint, handle_sigint, RxThread,
         comm_rx_thread, TargetRestarts, LoseCommand, FrameLeaves, LoseResponse,
         sysVars, vars, queueVars
<1>3. Part(Heard', Heard)
  BY <1>1, <1>2, HeardLess
<1> QED BY <1>1, <1>3, LessStep

\* The target says once more what it has said last.
LEMMA RepeatStep ==
  ASSUME Before, TargetRepeats PROVE Conversation'
<1> USE DEF Before
<1>1. /\ last_answer # NULL /\ to_target = <<>>
      /\ to_host' = Append(to_host, last_answer)
      /\ UNCHANGED <<fsm_running, current_state, fsm_queue, sectors, pc, rx_queue,
                     current_sector, target_mode, target_buffer, flash,
                     to_target, last_answer>>
  BY DEF TargetRepeats, vars, fsmVars, queueVars, ctxVars, cursorVars, targetVars
<1>2. /\ Heard # <<>>
      /\ \A C : Only(Heard, C) => Only(Heard', C)
      /\ \A C : Some(Heard', C) => Some(Heard, C)
      /\ \A C : ToTheEnd(Heard, C) => ToTheEnd(Heard', C)
  BY <1>1, HeardRepeat
<1>3. CurrentSector' = CurrentSector /\ Written' = Written
  BY <1>1 DEF CurrentSector, Written
<1>4. /\ NothingAsked => NothingAsked'
      /\ \A type : Pending(type)' <=> Pending(type)
  BY <1>1 DEF NothingAsked, Pending
<1>5. Connecting'
  BY <1>1, <1>2, <1>4 DEF Conversation, Connecting
<1>6. BetweenSectors' /\ Sending'
  BY <1>1, <1>2, <1>3, <1>4 DEF Conversation, BetweenSectors, Sending
<1>7. Verifying'
  BY <1>1, <1>2, <1>3, <1>4 DEF Conversation, Verifying
<1>8. Starting' /\ Stopped'
  BY <1>1, <1>2, <1>4 DEF Conversation, Starting, Stopped
<1>9. Flashed'
  BY <1>1, <1>3 DEF Conversation, Flashed, ConfirmedIsFlashed, StartedIsComplete
<1> QED BY <1>5, <1>6, <1>7, <1>8, <1>9 DEF Conversation

-----------------------------------------------------------------------------
(* The host listens. *)

\* The event a response turns into tells what the response was.
LEMMA SignalSays ==
  ASSUME NEW pkt
  PROVE  \A n \in DOMAIN SignalOf(pkt) :
           LET type == SignalOf(pkt)[n].type
           IN  /\ type \in ExternalEvents
               /\ type = "EVT_SEG_ACK"  => pkt.command = RESP_SEG_ACK
               /\ type = "EVT_CRC_OK"   => pkt.command = RESP_CRC_ACK
               /\ type = "EVT_CRC_NACK" => pkt.command = RESP_CRC_NACK
               /\ type = "EVT_APP_ACK"  => pkt.command = RESP_APP_JUMP_ACK
  BY DEF SignalOf, Event, ExternalEvents, RESP_SEG_ACK, RESP_CRC_ACK,
         RESP_CRC_NACK, RESP_APP_JUMP_ACK

\* The oldest answer is one of those that are on their way, and what holds
\* from it on holds of all.
LEMMA OldestHeard ==
  ASSUME LinkTyped, Phases, rx_queue # <<>>
  PROVE  LET c == Head(rx_queue).command
         IN  /\ Heard # <<>>
             /\ \A C : c \in C => Some(Heard, C)
             /\ \A C : c \in C /\ ToTheEnd(Heard, C) => Only(Heard, C)
<1>1. /\ rx_queue \in Seq(Responses) /\ to_host \in Seq(Responses)
      /\ Heard \in Seq(Responses) /\ OnTheWay \in Seq(Responses)
  BY HeardTyped DEF LinkTyped, Phases, EventDiscipline
<1>2. OnTheWay # <<>> /\ OnTheWay[1] = Head(rx_queue)
  BY <1>1 DEF OnTheWay
<1>3. 1 \in DOMAIN Heard /\ Heard[1] = Head(rx_queue)
  BY <1>1, <1>2 DEF Heard
<1>4. \A n \in DOMAIN Heard : n = 1 \/ 1 < n
  BY <1>1
<1> QED BY <1>3, <1>4 DEF Some, Only, ToTheEnd

\* A response becomes the pending event.
LEMMA SignalHeard ==
  ASSUME Before, After, HostStep, SignalGeneration PROVE Conversation'
<1> USE DEF Before, After
<1> DEFINE c == Head(rx_queue).command
<1>1. /\ pc = "poll" /\ pc' = "run" /\ rx_queue # <<>>
      /\ rx_queue' = Tail(rx_queue)
      /\ fsm_queue' = fsm_queue \o SignalOf(Head(rx_queue))
      /\ UNCHANGED <<fsm_running, current_state, sectors, to_host,
                     current_sector, target_mode, target_buffer, flash,
                     to_target, last_answer>>
  BY DEF HostStep, SignalGeneration, ctxVars, cursorVars, targetVars
<1>2. /\ Heard # <<>>
      /\ \A C : c \in C => Some(Heard, C)
      /\ \A C : c \in C /\ ToTheEnd(Heard, C) => Only(Heard, C)
  BY <1>1, OldestHeard
<1>3. current_state # "ST_INIT"
  BY <1>2 DEF Conversation, Connecting
<1>4. fsm_queue' = SignalOf(Head(rx_queue))
  <2> DEFINE new == SignalOf(Head(rx_queue))
  <2>1. fsm_queue = <<>>
    <3>1. fsm_queue \in Seq(Events) /\ Len(fsm_queue) = 0
      BY <1>1, <1>3 DEF Phases, EventDiscipline
    <3> QED BY <3>1, EmptyQueue
  <2>2. new \in Seq(Events)
    <3>1. Head(rx_queue) \in Responses
      BY <1>1, PopQueue DEF Phases, EventDiscipline
    <3> QED BY <3>1, SignalType
  <2>3. fsm_queue' = fsm_queue \o new
    BY <1>1
  <2> HIDE DEF new
  <2>4. fsm_queue' = new
    BY <2>1, <2>2, <2>3
  <2> QED BY <2>4 DEF new
<1>5. /\ \A type \in InternalEvents : ~Pending(type)'
      /\ Pending("EVT_SEG_ACK")'  => c = RESP_SEG_ACK
      /\ Pending("EVT_CRC_OK")'   => c = RESP_CRC_ACK
      /\ Pending("EVT_CRC_NACK")' => c = RESP_CRC_NACK
      /\ Pending("EVT_APP_ACK")'  => c = RESP_APP_JUMP_ACK
  <2>1. fsm_queue' # <<>> =>
          1 \in DOMAIN fsm_queue' /\ Head(fsm_queue') = fsm_queue'[1]
    <3>1. fsm_queue' \in Seq(Events)
      BY DEF TypeOK
    <3> QED BY <3>1
  <2>2. ASSUME NEW type, Pending(type)'
        PROVE  /\ 1 \in DOMAIN SignalOf(Head(rx_queue))
               /\ SignalOf(Head(rx_queue))[1].type = type
    BY <1>4, <2>1, <2>2 DEF Pending
  <2>3. \A type \in InternalEvents : type \notin ExternalEvents
    BY DEF InternalEvents, ExternalEvents
  <2> QED BY <2>2, <2>3, SignalSays
<1>6. Part(Heard', Heard)
  BY <1>1, HeardLess
<1>7. /\ \A C : Only(Heard, C) => Only(Heard', C)
      /\ \A C : Some(Heard', C) => Some(Heard, C)
      /\ \A C : ToTheEnd(Heard, C) => ToTheEnd(Heard', C)
  <2>1. Heard \in Seq(Responses) /\ Heard' \in Seq(Responses)
    <3>1. Heard' \in Seq(Responses)
      BY DEF LinkTyped, Phases, EventDiscipline, OnTheWay, Heard
    <3> QED BY <3>1, HeardTyped
  <2>2. DOMAIN Heard \subseteq Int /\ DOMAIN Heard' \subseteq Int
    BY <2>1, SeqDomain
  <2> QED BY <1>6, <2>2, LessSaid
<1> HIDE DEF c
<1>8. /\ CurrentSector' = CurrentSector /\ Written' = Written
      /\ NothingAsked => NothingAsked'
  BY <1>1 DEF CurrentSector, Written, NothingAsked
<1>9. Connecting'
  BY <1>1, <1>2, <1>3, <1>7 DEF Conversation, Connecting
<1>10. BetweenSectors'
  BY <1>1, <1>5, <1>7, <1>8
     DEF Conversation, BetweenSectors, InternalEvents
<1>11. Sending'
  <2>1. /\ ToTheEnd(Heard, {RESP_SEG_ACK}) /\ Pending("EVT_SEG_ACK")' =>
             Only(Heard, {RESP_SEG_ACK})
        /\ ~Pending("EVT_SECTOR_END")'
    BY <1>2, <1>5 DEF InternalEvents
  <2> QED BY <1>1, <1>7, <1>8, <2>1 DEF Conversation, Sending
<1>12. Verifying'
  <2> SUFFICES ASSUME current_state = "ST_VERIFY" PROVE Verifying'
    BY <1>1 DEF Verifying
  <2>1. Pending("EVT_CRC_OK")' \/ Pending("EVT_CRC_NACK")' =>
          c \in Verdicts
    BY <1>5 DEF Verdicts
  <2>2. Pending("EVT_CRC_OK")' => c \in {RESP_CRC_ACK}
    BY <1>5
  <2>3. Pending("EVT_CRC_OK")' \/ Pending("EVT_CRC_NACK")' =>
          NothingAsked' /\ Only(Heard', Verdicts)
    BY <1>2, <1>7, <1>8, <2>1 DEF Conversation, Verifying
  <2>4. Some(Heard', {RESP_CRC_ACK}) \/ Pending("EVT_CRC_OK")' =>
          current_sector + 1 \in Written
    BY <1>2, <1>7, <2>2 DEF Conversation, Verifying
  <2> QED BY <1>1, <1>7, <1>8, <2>3, <2>4 DEF Conversation, Verifying
<1>13. Starting' /\ Stopped'
  <2>1. Pending("EVT_APP_ACK")' => Some(Heard, {RESP_APP_JUMP_ACK})
    BY <1>2, <1>5
  <2> QED BY <1>1, <1>7, <2>1 DEF Conversation, Starting, Stopped
<1>14. Flashed'
  BY <1>1, <1>8 DEF Conversation, Flashed, ConfirmedIsFlashed, StartedIsComplete
<1> QED BY <1>9, <1>10, <1>11, <1>12, <1>13, <1>14 DEF Conversation

\* An event without a row leaves the queue empty.
LEMMA DropHeard ==
  ASSUME Before, HostStep, DropEvent PROVE Conversation'
<1> USE DEF Before
<1>1. /\ pc = "run" /\ pc' = pc /\ Consume /\ fsm_queue # <<>>
      /\ ~HasRow(current_state, Head(fsm_queue).type)
      /\ UNCHANGED <<fsm_running, current_state, sectors, to_host, rx_queue,
                     current_sector, target_mode, target_buffer, flash,
                     to_target, last_answer>>
  BY DEF HostStep, DropEvent, ctxVars, cursorVars, targetVars
<1>2. current_state # "ST_INIT"
  <2>1. current_state = "ST_INIT" => Head(fsm_queue).type = "EVT_START"
    BY <1>1, PopQueue DEF Phases, EventDiscipline
  <2> QED BY <1>1, <2>1, DispatchedRows
<1>3. fsm_queue' = <<>>
  <2>1. fsm_queue' \in Seq(Events) /\ Len(fsm_queue') = 0
    BY <1>1, <1>2, Consumed DEF Phases
  <2> QED BY <2>1, EmptyQueue
<1>4. /\ ~Pending("EVT_START")' /\ ~Pending("EVT_SECTOR_END")'
      /\ ~Pending("EVT_SEG_ACK")' /\ ~Pending("EVT_CRC_OK")'
      /\ ~Pending("EVT_CRC_NACK")' /\ ~Pending("EVT_APP_ACK")'
  BY <1>3 DEF Pending
<1>5. /\ CurrentSector' = CurrentSector /\ Written' = Written
      /\ Heard' = Heard
      /\ NothingAsked => NothingAsked'
  BY <1>1 DEF CurrentSector, Written, NothingAsked, Heard, OnTheWay
<1>6. Connecting' /\ BetweenSectors' /\ Sending'
  BY <1>1, <1>2, <1>3, <1>4, <1>5
     DEF Conversation, Connecting, BetweenSectors, Sending
<1>7. Verifying'
  BY <1>1, <1>4, <1>5 DEF Conversation, Verifying
<1>8. Starting' /\ Stopped' /\ Flashed'
  BY <1>1, <1>4, <1>5
     DEF Conversation, Starting, Stopped, Flashed, ConfirmedIsFlashed,
         StartedIsComplete
<1> QED BY <1>6, <1>7, <1>8 DEF Conversation

-----------------------------------------------------------------------------
(* The target acts. *)

\* The codes differ, those of the node included.
LEMMA CodesApart ==
  ASSUME NodeApart
  PROVE  /\ RESET \notin {CMD_PIPELINE_DATA, CMD_PIPELINE_VERIFY, CMD_START_APP}
         /\ CMD_PIPELINE_DATA # CMD_PIPELINE_VERIFY
         /\ CMD_PIPELINE_DATA # CMD_START_APP
         /\ CMD_PIPELINE_VERIFY # CMD_START_APP
         /\ RESP_SEG_ACK \notin Settled /\ RESP_SEG_ACK \notin Verdicts
         /\ RESP_APP_JUMP_ACK \notin Settled
         /\ RESP_CRC_ACK # RESP_CRC_NACK
         /\ INFO \notin Verdicts
  BY DEF NodeApart, Settled, Verdicts, CMD_PIPELINE_DATA, CMD_PIPELINE_VERIFY,
         CMD_START_APP, RESP_SEG_ACK, RESP_CRC_ACK, RESP_CRC_NACK,
         RESP_APP_JUMP_ACK

\* What a target action leaves alone.
TargetFrame ==
  /\ to_target' = Tail(to_target)
  /\ UNCHANGED <<pc, fsm_running, current_state, fsm_queue, rx_queue, sectors,
                 current_sector>>

LEMMA ArrivesFrame ==
  ASSUME TypeOK, NEW command, Arrives(command)
  PROVE  /\ TargetFrame /\ target_mode = "boot"
         /\ to_target # <<>> /\ Head(to_target).command = command
         /\ 1 \in DOMAIN to_target /\ Head(to_target) = to_target[1]
         /\ to_target \in Seq(Frames)
         /\ Len(to_target) = 1 => Tail(to_target) = <<>>
         /\ CurrentSector' = CurrentSector
         /\ \A type : Pending(type)' <=> Pending(type)
<1>1. /\ to_target \in Seq(Frames) /\ to_target # <<>>
      /\ Head(to_target).command = command
      /\ to_target' = Tail(to_target) /\ target_mode = "boot"
      /\ UNCHANGED <<pc, fsm_running, current_state, fsm_queue, rx_queue, sectors,
                     current_sector>>
  BY DEF Arrives, TypeOK, fsmVars, ctxVars, cursorVars
<1> QED BY <1>1 DEF TargetFrame, CurrentSector, Pending

\* The kind of the frame that arrives tells the state of the host.
LEMMA ArrivesIn ==
  ASSUME NodeApart, Before, to_target # <<>>, target_mode = "boot"
  PROVE  LET c == Head(to_target).command
         IN  /\ current_state # "ST_INIT" /\ current_state # "ST_DONE"
             /\ current_state \notin {"ST_BUILD_PIPELINE", "ST_NEXT_SECTOR"}
             /\ current_state = "ST_SEND_WINDOW" => ~Pending("EVT_START")
             /\ c = RESET => current_state = "ST_SEND_RESET"
             /\ c = CMD_PIPELINE_DATA =>
                  /\ current_state \in {"ST_SEND_WINDOW", "ST_VERIFY"}
                  /\ DataOf(Head(to_target), CurrentSector)
             /\ c = CMD_PIPELINE_VERIFY =>
                  /\ current_state = "ST_VERIFY"
                  /\ Len(to_target) = 1
                  /\ VerifyOf(Head(to_target), CurrentSector)
             /\ c = CMD_START_APP => current_state = "ST_APP_JUMP"
<1> DEFINE c == Head(to_target).command
<1>1. /\ 1 \in DOMAIN to_target /\ Head(to_target) = to_target[1]
      /\ current_state \in States
  BY DEF Before, TypeOK
<1>2. /\ current_state # "ST_INIT" /\ current_state # "ST_DONE"
      /\ current_state \notin {"ST_BUILD_PIPELINE", "ST_NEXT_SECTOR"}
      /\ current_state = "ST_SEND_WINDOW" => ~Pending("EVT_START")
  BY DEF Before, Conversation, Connecting, BetweenSectors, Starting,
         NothingAsked
<1>3. current_state = "ST_SEND_RESET" => c = RESET
  BY <1>1 DEF Before, Conversation, Connecting, Only
<1>4. current_state = "ST_SEND_WINDOW" => DataOf(Head(to_target), CurrentSector)
  BY <1>1 DEF Before, Conversation, Sending, AllData
<1>5. current_state = "ST_VERIFY" =>
        \/ DataOf(Head(to_target), CurrentSector)
        \/ 1 = Len(to_target) /\ VerifyOf(Head(to_target), CurrentSector)
  BY <1>1 DEF Before, Conversation, Verifying, DataThenVerify
<1>6. current_state = "ST_APP_JUMP" => c = CMD_START_APP
  BY <1>1 DEF Before, Conversation, Starting, Only
<1>7. current_state \in {"ST_SEND_RESET", "ST_SEND_WINDOW", "ST_VERIFY",
                         "ST_APP_JUMP"}
  BY <1>1, <1>2 DEF States
<1>8. /\ DataOf(Head(to_target), CurrentSector) => c = CMD_PIPELINE_DATA
      /\ VerifyOf(Head(to_target), CurrentSector) => c = CMD_PIPELINE_VERIFY
  BY DEF DataOf, VerifyOf
<1> HIDE DEF c
<1>9. /\ c = RESET => current_state = "ST_SEND_RESET"
      /\ c = CMD_PIPELINE_DATA =>
           /\ current_state \in {"ST_SEND_WINDOW", "ST_VERIFY"}
           /\ DataOf(Head(to_target), CurrentSector)
      /\ c = CMD_PIPELINE_VERIFY =>
           /\ current_state = "ST_VERIFY"
           /\ Len(to_target) = 1
           /\ VerifyOf(Head(to_target), CurrentSector)
      /\ c = CMD_START_APP => current_state = "ST_APP_JUMP"
  BY <1>3, <1>4, <1>5, <1>6, <1>7, <1>8, CodesApart
<1> QED BY <1>2, <1>9 DEF c

LEMMA ResetStep ==
  ASSUME NodeApart, Before, TargetReset PROVE Conversation'
<1> USE DEF Before
<1>1. /\ Arrives(RESET) /\ Answer(INFO, 8)
      /\ target_buffer' = NULL /\ UNCHANGED <<target_mode, flash>>
  BY DEF TargetReset, RESET, INFO
<1>2. /\ TargetFrame /\ target_mode = "boot" /\ to_target # <<>>
      /\ to_target \in Seq(Frames)
      /\ Len(to_target) = 1 => Tail(to_target) = <<>>
      /\ CurrentSector' = CurrentSector
  BY <1>1, ArrivesFrame
<1>3. current_state = "ST_SEND_RESET"
  BY <1>1, <1>2, ArrivesFrame, ArrivesIn
<1>4. \A C : Only(Heard, C) /\ INFO \in C => Only(Heard', C)
  BY <1>1, <1>2, HeardAnswer DEF TargetFrame
<1>5. to_target' = <<>>
  <2>1. Len(to_target) \in Nat \ {0} /\ Len(to_target) <= 1
    BY <1>2, <1>3, PopQueue DEF Conversation, Connecting
  <2> QED BY <1>2, <2>1 DEF TargetFrame
<1>6. Connecting'
  <2>1. Only(to_target', {RESET}) /\ Len(to_target') <= 1
    BY <1>5 DEF Only
  <2> QED BY <1>1, <1>2, <1>3, <1>4, <1>5, <2>1
          DEF Conversation, Connecting, TargetFrame
<1>7. BetweenSectors' /\ Sending' /\ Verifying'
  BY <1>2, <1>3 DEF BetweenSectors, Sending, Verifying, TargetFrame
<1>8. Starting' /\ Stopped'
  BY <1>1, <1>2, <1>3
     DEF Conversation, Starting, Stopped, TargetFrame
<1>9. Flashed'
  <2>1. Written' = Written
    BY <1>1 DEF Written
  <2> QED BY <1>1, <1>2, <2>1 DEF Conversation, Flashed, ConfirmedIsFlashed,
                             StartedIsComplete, TargetFrame
<1> QED BY <1>6, <1>7, <1>8, <1>9 DEF Conversation

LEMMA DataStep ==
  ASSUME NodeApart, Before, TargetData PROVE Conversation'
<1> USE DEF Before
<1>1. /\ Arrives(CMD_PIPELINE_DATA) /\ Answer(RESP_SEG_ACK, AckLength)
      /\ target_buffer' = Stored(target_buffer, Head(to_target))
      /\ UNCHANGED <<target_mode, flash>>
  BY DEF TargetData
<1>2. /\ TargetFrame /\ target_mode = "boot" /\ to_target # <<>>
      /\ to_target \in Seq(Frames)
      /\ CurrentSector' = CurrentSector
      /\ \A type : Pending(type)' <=> Pending(type)
  BY <1>1, ArrivesFrame
<1>3. /\ current_state \in {"ST_SEND_WINDOW", "ST_VERIFY"}
      /\ current_state = "ST_SEND_WINDOW" => ~Pending("EVT_START")
      /\ DataOf(Head(to_target), CurrentSector)
  BY <1>1, <1>2, ArrivesFrame, ArrivesIn
<1>4. /\ \A C : Only(Heard, C) /\ RESP_SEG_ACK \in C => Only(Heard', C)
      /\ \A C : Some(Heard', C) => Some(Heard, C) \/ RESP_SEG_ACK \in C
      /\ \A C : ToTheEnd(Heard, C) /\ RESP_SEG_ACK \in C => ToTheEnd(Heard', C)
  BY <1>1, <1>2, HeardAnswer DEF TargetFrame
<1>5. BufferOf(target_buffer', CurrentSector)
  <2> DEFINE base  == sector_base(Head(to_target).addr, TheInfo.sector_size)
             start == IF target_buffer # NULL /\ target_buffer.base = base
                      THEN target_buffer ELSE FreshBuffer(base)
  <2>1. base = CurrentSector.base_addr
    BY <1>3 DEF DataOf
  <2>2. start.base = base
    BY DEF FreshBuffer
  <2>3. target_buffer'.base = start.base
    BY <1>1 DEF Stored
  <2> QED BY <2>1, <2>2, <2>3 DEF BufferOf
<1>6. /\ AllData(to_target, CurrentSector) => AllData(to_target', CurrentSector)
      /\ DataThenVerify(to_target, CurrentSector)
           => DataThenVerify(to_target', CurrentSector)
  BY <1>2, FramesLeave DEF TargetFrame
<1>7. Connecting' /\ BetweenSectors'
  BY <1>2, <1>3 DEF Connecting, BetweenSectors, TargetFrame
<1>8. Sending'
  BY <1>2, <1>4, <1>5, <1>6 DEF Conversation, Sending, TargetFrame
<1>9. Verifying'
  <2> SUFFICES ASSUME current_state = "ST_VERIFY" PROVE Verifying'
    BY <1>2 DEF Verifying, TargetFrame
  <2>1. ~NothingAsked
    BY <1>2 DEF NothingAsked
  <2>2. /\ ~Some(Heard, Verdicts)
        /\ ~Pending("EVT_CRC_OK") /\ ~Pending("EVT_CRC_NACK")
    BY <2>1 DEF Conversation, Verifying
  <2>3. ~Some(Heard', Verdicts)
    BY <1>4, <2>2, CodesApart
  <2>4. ToTheEnd(Heard', Verdicts) /\ ~Some(Heard', {RESP_CRC_ACK})
    BY <2>3 DEF ToTheEnd, Some, Verdicts
  <2>5. Only(Heard', {RESP_SEG_ACK} \cup Verdicts)
    BY <1>4 DEF Conversation, Verifying
  <2> QED BY <1>2, <1>5, <1>6, <2>2, <2>3, <2>4, <2>5
          DEF Conversation, Verifying, TargetFrame
<1>10. Starting' /\ Stopped'
  BY <1>1, <1>2, <1>3 DEF Conversation, Starting, Stopped, TargetFrame
<1>11. Flashed'
  <2>1. Written' = Written
    BY <1>1 DEF Written
  <2> QED BY <1>1, <1>2, <2>1 DEF Conversation, Flashed, ConfirmedIsFlashed,
                             StartedIsComplete, TargetFrame
<1> QED BY <1>7, <1>8, <1>9, <1>10, <1>11 DEF Conversation

\* A write to the current sector changes no other one.
LEMMA WrittenAfter ==
  ASSUME LinkTyped, Phases, current_state = "ST_VERIFY", pc # "undefined",
         NEW value,
         flash' = [flash EXCEPT ![CurrentSector.base_addr] = value]
  PROVE  /\ current_sector + 1 \in DOMAIN Image
         /\ \A k \in DOMAIN Image : k # current_sector + 1 =>
              (k \in Written' <=> k \in Written)
         /\ current_sector + 1 \in Written'
              <=> value = pipeline_sector_crc(CurrentSector)
<1> DEFINE n == current_sector + 1
<1>1. sectors = Image /\ current_sector \in Nat /\ current_sector < Len(Image)
  BY SectorsAre DEF Phases, SendPhase, Early
<1>2. n \in DOMAIN Image /\ CurrentSector = Image[n]
  BY <1>1, ImageTyped DEF CurrentSector
<1>3. \A k \in DOMAIN Image : Image[k].base_addr \in Bases
  BY DEF Bases
<1>4. \A base \in Bases : flash'[base] =
        IF base = CurrentSector.base_addr THEN value ELSE flash[base]
  BY DEF LinkTyped
<1>5. \A k \in DOMAIN Image :
        Image[k].base_addr = CurrentSector.base_addr => k = n
  BY <1>2, SectorsAssumption DEF SectorsApart
<1>6. \A k \in DOMAIN Image :
        k \in Written' <=>
          flash'[Image[k].base_addr] = pipeline_sector_crc(Image[k])
  BY DEF Written
<1>7. \A k \in DOMAIN Image :
        k \in Written <=>
          flash[Image[k].base_addr] = pipeline_sector_crc(Image[k])
  BY DEF Written
<1> HIDE DEF n
<1>8. \A k \in DOMAIN Image : k # n => (k \in Written' <=> k \in Written)
  BY <1>3, <1>4, <1>5, <1>6, <1>7
<1>9. n \in Written' <=> value = pipeline_sector_crc(CurrentSector)
  BY <1>2, <1>3, <1>4, <1>6
<1> QED BY <1>2, <1>8, <1>9 DEF n

TargetVerify == TargetVerifyOk \/ TargetVerifyMismatch \/ TargetWriteFault

\* What a check of the sector does to the flash: it holds the sector when the
\* answer says so, and every other sector keeps its content.
LEMMA VerifyFacts ==
  ASSUME NodeApart, Before, TargetVerify
  PROVE  /\ Arrives(CMD_PIPELINE_VERIFY) /\ target_mode' = target_mode
         /\ target_buffer' = NULL
         /\ current_state = "ST_VERIFY" /\ pc # "undefined"
         /\ current_sector + 1 \in DOMAIN Image
         /\ \A k \in DOMAIN Image : k # current_sector + 1 =>
              (k \in Written' <=> k \in Written)
         /\ \/ /\ Answer(RESP_CRC_ACK, AckLength)
               /\ current_sector + 1 \in Written'
            \/ Answer(RESP_CRC_NACK, AckLength)
<1> USE DEF Before
<1>1. /\ Arrives(CMD_PIPELINE_VERIFY) /\ target_mode' = target_mode
      /\ target_buffer' = NULL
  BY DEF TargetVerify, TargetVerifyOk, TargetVerifyMismatch, TargetWriteFault
<1>2. /\ current_state = "ST_VERIFY" /\ pc # "undefined"
      /\ VerifyOf(Head(to_target), CurrentSector)
  <2>1. target_mode = "boot" /\ to_target # <<>>
        /\ Head(to_target).command = CMD_PIPELINE_VERIFY
    BY <1>1, ArrivesFrame
  <2>2. current_state = "ST_VERIFY" /\ VerifyOf(Head(to_target), CurrentSector)
    BY <2>1, ArrivesIn
  <2> QED BY <2>2 DEF Conversation, Stopped
<1>3. current_sector + 1 \in DOMAIN Image
  BY <1>2, SectorsAre, ImageTyped DEF Phases, SendPhase, Early
<1>4. CASE TargetVerifyMismatch
  <2>1. flash' = flash /\ Answer(RESP_CRC_NACK, AckLength)
    BY <1>4 DEF TargetVerifyMismatch
  <2>2. Written' = Written
    BY <2>1 DEF Written
  <2> QED BY <1>1, <1>2, <1>3, <2>1, <2>2
<1>5. CASE TargetVerifyOk \/ TargetWriteFault
  <2>1. SumMatches
    BY <1>5 DEF TargetVerifyOk, TargetWriteFault
  <2>2. /\ target_buffer.base = CurrentSector.base_addr
        /\ target_buffer.data = pipeline_sector_crc(CurrentSector)
    BY <1>2, <2>1
       DEF SumMatches, VerifyOf, Conversation, Verifying, BufferOf
  <2>3. CASE TargetVerifyOk
    <3>1. /\ flash' = [flash EXCEPT ![CurrentSector.base_addr] =
                                 pipeline_sector_crc(CurrentSector)]
          /\ Answer(RESP_CRC_ACK, AckLength)
      BY <2>2, <2>3 DEF TargetVerifyOk
    <3> QED BY <1>1, <1>2, <3>1, WrittenAfter
  <2>4. CASE TargetWriteFault
    <3>1. /\ flash' = [flash EXCEPT ![CurrentSector.base_addr] = NULL]
          /\ Answer(RESP_CRC_NACK, AckLength)
      BY <2>2, <2>4 DEF TargetWriteFault
    <3> QED BY <1>1, <1>2, <3>1, WrittenAfter
  <2> QED BY <1>5, <2>3, <2>4
<1> QED BY <1>4, <1>5 DEF TargetVerify

LEMMA VerifyStep ==
  ASSUME NodeApart, Before, TargetVerify PROVE Conversation'
<1> USE DEF Before
<1>1. /\ Arrives(CMD_PIPELINE_VERIFY) /\ target_mode' = target_mode
      /\ target_buffer' = NULL
      /\ current_state = "ST_VERIFY" /\ pc # "undefined"
      /\ \A k \in DOMAIN Image : k # current_sector + 1 =>
           (k \in Written' <=> k \in Written)
      /\ \/ Answer(RESP_CRC_ACK, AckLength) /\ current_sector + 1 \in Written'
         \/ Answer(RESP_CRC_NACK, AckLength)
  BY VerifyFacts
<1>2. /\ TargetFrame /\ target_mode = "boot" /\ to_target # <<>>
      /\ Head(to_target).command = CMD_PIPELINE_VERIFY
      /\ Len(to_target) = 1 => Tail(to_target) = <<>>
      /\ CurrentSector' = CurrentSector
      /\ \A type : Pending(type)' <=> Pending(type)
  BY <1>1, ArrivesFrame
<1>3. NothingAsked'
  BY <1>1, <1>2, ArrivesIn DEF NothingAsked, TargetFrame
<1>4. /\ ~Some(Heard, Verdicts)
      /\ ~Pending("EVT_CRC_OK") /\ ~Pending("EVT_CRC_NACK")
  <2>1. ~NothingAsked
    BY <1>2 DEF NothingAsked
  <2> QED BY <1>1, <2>1 DEF Conversation, Verifying
<1>5. PICK c \in Verdicts :
        /\ Answer(c, AckLength)
        /\ c = RESP_CRC_ACK => current_sector + 1 \in Written'
  BY <1>1, CodesApart DEF Verdicts
<1>6. /\ \A C : Only(Heard, C) /\ c \in C => Only(Heard', C)
      /\ \A C : Some(Heard', C) => Some(Heard, C) \/ c \in C
      /\ \A C : ToTheEnd(Heard, C) /\ c \in C => ToTheEnd(Heard', C)
  BY <1>2, <1>5, HeardAnswer DEF TargetFrame
<1>7. Connecting' /\ BetweenSectors' /\ Sending'
  BY <1>1, <1>2 DEF Connecting, BetweenSectors, Sending, TargetFrame
<1>8. Verifying'
  <2>1. ~Some(Heard, {RESP_CRC_ACK})
    BY <1>4 DEF Some, Verdicts
  <2>2. Some(Heard', {RESP_CRC_ACK}) => current_sector + 1 \in Written'
    BY <1>5, <1>6, <2>1
  <2>3. /\ Only(Heard', {RESP_SEG_ACK} \cup Verdicts)
        /\ ToTheEnd(Heard', Verdicts)
    BY <1>1, <1>5, <1>6 DEF Conversation, Verifying
  <2>4. /\ DataThenVerify(to_target', CurrentSector)
        /\ BufferOf(target_buffer', CurrentSector)
    BY <1>3 DEF NothingAsked, DataThenVerify, BufferOf
  <2> QED BY <1>2, <1>3, <1>4, <2>2, <2>3, <2>4 DEF Verifying, TargetFrame
<1>9. Starting' /\ Stopped'
  BY <1>1, <1>2 DEF Conversation, Starting, Stopped, TargetFrame
<1>10. Flashed'
  <2>1. current_sector \in Nat /\ current_sector <= Len(Image)
    BY SectorsAre
  <2>2. \A k \in 1 .. current_sector : k \in DOMAIN Image /\ k # current_sector + 1
    BY <2>1, ImageTyped
  <2>3. 1 .. current_sector \subseteq Written'
    BY <1>1, <2>2 DEF Conversation, Flashed, ConfirmedIsFlashed
  <2> QED BY <1>1, <1>2, <2>3
          DEF Flashed, ConfirmedIsFlashed, StartedIsComplete, TargetFrame
<1> QED BY <1>7, <1>8, <1>9, <1>10 DEF Conversation

\* When the application is asked for, the flash holds the image.
LEMMA AllWritten ==
  ASSUME Before, current_state = "ST_APP_JUMP"
  PROVE  /\ Written = DOMAIN Image /\ current_sector = Len(Image)
         /\ current_sector \in Nat
<1> USE DEF Before
<1>1. sectors = Image
  BY SectorsAre DEF Conversation, Stopped, Early
<1>2. current_sector \in Nat /\ current_sector = Len(Image)
  BY <1>1, SectorsAre, ImageTyped DEF Phases, SendPhase
<1>3. DOMAIN Image \subseteq Written
  BY <1>2, ImageTyped DEF Conversation, Flashed, ConfirmedIsFlashed
<1> QED BY <1>2, <1>3 DEF Written

LEMMA StartStep ==
  ASSUME NodeApart, Before, TargetStart PROVE Conversation'
<1> USE DEF Before
<1>1. /\ Arrives(CMD_START_APP) /\ Answer(RESP_APP_JUMP_ACK, AckLength)
      /\ target_mode' = "app" /\ UNCHANGED <<target_buffer, flash>>
  BY DEF TargetStart
<1>2. /\ TargetFrame /\ target_mode = "boot" /\ to_target # <<>>
      /\ to_target \in Seq(Frames)
      /\ \A type : Pending(type)' <=> Pending(type)
  BY <1>1, ArrivesFrame
<1>3. current_state = "ST_APP_JUMP"
  BY <1>1, <1>2, ArrivesFrame, ArrivesIn
<1>4. \A C : Only(Heard, C) /\ RESP_APP_JUMP_ACK \in C => Only(Heard', C)
  BY <1>1, <1>2, HeardAnswer DEF TargetFrame
<1>5. Connecting' /\ BetweenSectors' /\ Sending' /\ Verifying'
  BY <1>2, <1>3 DEF Connecting, BetweenSectors, Sending, Verifying, TargetFrame
<1>6. Starting'
  <2>1. Only(to_target', {CMD_START_APP})
    BY <1>2, <1>3, FramesLeave DEF Conversation, Starting, TargetFrame
  <2> QED BY <1>1, <1>2, <1>3, <1>4, <2>1 DEF Conversation, Starting, TargetFrame
<1>7. Stopped'
  BY <1>2 DEF Conversation, Stopped, TargetFrame
<1>8. Flashed'
  <2>1. Written' = Written
    BY <1>1 DEF Written
  <2>2. Written = DOMAIN Image
    BY <1>3, AllWritten
  <2> QED BY <1>2, <2>1, <2>2 DEF Conversation, Flashed, ConfirmedIsFlashed,
                             StartedIsComplete, TargetFrame
<1> QED BY <1>5, <1>6, <1>7, <1>8 DEF Conversation

-----------------------------------------------------------------------------
(* The host acts. *)

\* What an action of the FSM leaves alone, and the queue it leaves.
LEMMA ActionFrame ==
  ASSUME Before, HostStep, FsmAction
  PROVE  /\ pc = "run" /\ fsm_queue # <<>>
         /\ UNCHANGED <<to_host, rx_queue, target_mode, target_buffer, flash,
                        last_answer>>
         /\ Heard' = Heard /\ Written' = Written
         /\ fsm_running
         /\ current_state # "ST_INIT" =>
              /\ Consume => \A type : ~Pending(type)'
              /\ \A type \in InternalEvents : Dispatch(type) =>
                   \A other : Pending(other)' <=> other = type
<1>1. UNCHANGED <<to_host, target_mode, target_buffer, flash, last_answer>>
  BY DEF HostStep, targetVars
<1>2. PICK action : Takes(action)
  BY DEF FsmAction, act_send_reset, act_target_info_reject,
         act_target_info, act_build_pipeline, act_build_pipeline_undefined,
         act_send_window, act_send_window_sector_end, act_send_window_null,
         act_send_window_overrun, act_crc_verify, act_crc_nack,
         act_crc_nack_abort, act_next_sector, act_app_jump, act_done
<1>3. pc = "run" /\ fsm_queue # <<>> /\ rx_queue' = rx_queue
  BY <1>2 DEF Takes
<1>4. Heard' = Heard /\ Written' = Written
  BY <1>1, <1>3 DEF Heard, OnTheWay, Written
<1>5. fsm_running
  <2>1. fsm_queue \in Seq(Events) /\ (~fsm_running => Len(fsm_queue) = 0)
    BY DEF Before, Phases, EventDiscipline
  <2> QED BY <1>3, <2>1, EmptyQueue
<1>6. ASSUME current_state # "ST_INIT"
      PROVE  /\ Consume => \A type : ~Pending(type)'
             /\ \A type \in InternalEvents : Dispatch(type) =>
                  \A other : Pending(other)' <=> other = type
  BY <1>2, <1>6, QueueAfter DEF Before, Phases, Pending
<1> QED BY <1>1, <1>3, <1>4, <1>5, <1>6

\* What is handed to the transport.
LEMMA HandedOver ==
  ASSUME NEW pkt, NEW sent, Transmit(pkt, sent)
  PROVE  /\ to_target' \in {to_target, Append(to_target, Framed(pkt))}
         /\ ~(pkt.length > CAN_MAX_PAYLOAD) => Framed(pkt) = pkt
  BY DEF Transmit, Framed

\* One frame in a link that was idle.
LEMMA FirstFrame ==
  ASSUME NEW frame, NEW q, q \in {<<>>, Append(<<>>, frame)}
  PROVE  Only(q, {frame.command}) /\ Len(q) <= 1
<1>1. /\ DOMAIN <<>> = {} /\ Len(<<>>) = 0
      /\ DOMAIN <<frame>> = {1} /\ Len(<<frame>>) = 1 /\ <<frame>>[1] = frame
      /\ Append(<<>>, frame) = <<frame>>
  OBVIOUS
<1>2. CASE q = <<>>
  BY <1>1, <1>2 DEF Only
<1>3. CASE q = <<frame>>
  BY <1>1, <1>3 DEF Only
<1> QED BY <1>1, <1>2, <1>3

\* One more frame with bytes of the sector, or the request to check it.
LEMMA NextFrame ==
  ASSUME NEW S, NEW q \in Seq(S), NEW frame, NEW sector, AllData(q, sector)
  PROVE  /\ DataOf(frame, sector) => AllData(Append(q, frame), sector)
         /\ VerifyOf(frame, sector) => DataThenVerify(Append(q, frame), sector)
         /\ DataThenVerify(q, sector)
<1>1. /\ DOMAIN Append(q, frame) = 1 .. Len(q) + 1 /\ DOMAIN q = 1 .. Len(q)
      /\ Len(q) \in Nat /\ Len(Append(q, frame)) = Len(q) + 1
      /\ \A n \in DOMAIN q : Append(q, frame)[n] = q[n]
      /\ Append(q, frame)[Len(q) + 1] = frame
  OBVIOUS
<1>2. \A n \in DOMAIN Append(q, frame) : n = Len(q) + 1 \/ n \in DOMAIN q
  BY <1>1
<1> QED BY <1>1, <1>2 DEF AllData, DataThenVerify

\* What is only of some kinds has none of the others.
LEMMA NoneSaid ==
  ASSUME NEW said, NEW C, NEW D, Only(said, C), C \cap D = {}
  PROVE  ~Some(said, D) /\ ToTheEnd(said, D)
  BY DEF Only, Some, ToTheEnd

LEMMA OnlyMore ==
  ASSUME NEW said, NEW C, NEW D, Only(said, C), C \subseteq D
  PROVE  Only(said, D)
  BY DEF Only

LEMMA OnlyToTheEnd ==
  ASSUME NEW said, NEW C, Only(said, C) PROVE ToTheEnd(said, C)
  BY DEF Only, ToTheEnd

\* Connecting.
LEMMA SendResetStep ==
  ASSUME Before, After, HostStep, act_send_reset PROVE Conversation'
<1> USE DEF Before, After
<1>1. /\ Takes("act_send_reset") /\ Consume /\ FsmAction
      /\ \E sent : Transmit(Packet(RESET, 1, 0, <<>>), sent)
      /\ UNCHANGED <<pc, fsm_running, sectors, current_sector>>
  BY DEF act_send_reset, FsmAction, ctxVars, cursorVars, RESET
<1>2. /\ current_state = "ST_INIT" /\ current_state' = "ST_SEND_RESET"
      /\ pc = "run" /\ fsm_running
      /\ UNCHANGED <<target_mode, target_buffer>>
      /\ Heard' = Heard /\ Written' = Written
  BY <1>1, RowOf, ActionFrame
<1>3. NothingAsked /\ Heard = <<>> /\ Len(fsm_queue) = 1
  BY <1>2 DEF Conversation, Connecting
<1>4. fsm_queue' = <<>>
  <2>1. fsm_queue \in Seq(Events) /\ fsm_queue' = Tail(fsm_queue)
    BY <1>1 DEF Consume, TypeOK
  <2>2. Len(fsm_queue) = 1
    BY <1>3
  <2> QED BY <2>1, <2>2
<1>5. Only(to_target', {RESET}) /\ Len(to_target') <= 1
  <2> DEFINE pkt == Packet(RESET, 1, 0, <<>>)
  <2>1. pkt.command = RESET /\ ~(pkt.length > CAN_MAX_PAYLOAD)
    BY DEF Packet, CAN_MAX_PAYLOAD
  <2>2. \E sent : Transmit(pkt, sent)
    BY <1>1
  <2> HIDE DEF pkt
  <2>3. to_target' \in {<<>>, Append(<<>>, pkt)}
    BY <1>3, <2>1, <2>2, HandedOver DEF NothingAsked
  <2> QED BY <2>1, <2>3, FirstFrame
<1>6. Connecting'
  BY <1>2, <1>3, <1>4, <1>5 DEF Connecting, NothingAsked, Only
<1>7. BetweenSectors' /\ Sending' /\ Verifying'
  BY <1>2 DEF BetweenSectors, Sending, Verifying
<1>8. Starting' /\ Stopped'
  BY <1>1, <1>2 DEF Conversation, Starting, Stopped
<1>9. Flashed'
  BY <1>1, <1>2
     DEF Conversation, Flashed, ConfirmedIsFlashed, StartedIsComplete
<1> QED BY <1>6, <1>7, <1>8, <1>9 DEF Conversation

LEMMA TargetInfoStep ==
  ASSUME NodeApart, Before, HostStep, act_target_info \/ act_target_info_reject
  PROVE  Conversation'
<1> USE DEF Before
<1>1. /\ Takes("act_target_info") /\ FsmAction
      /\ UNCHANGED <<pc, sectors, current_sector, to_target>>
  BY DEF act_target_info, act_target_info_reject, FsmAction, ctxVars, cursorVars
<1>2. /\ current_state = "ST_SEND_RESET" /\ current_state' = "ST_BUILD_PIPELINE"
      /\ pc = "run" /\ fsm_queue # <<>>
      /\ UNCHANGED <<target_mode, target_buffer>>
      /\ Heard' = Heard /\ Written' = Written
  BY <1>1, RowOf, ActionFrame
<1>3. NothingAsked /\ Only(Heard, Settled)
  <2>1. Only(Heard, {INFO}) /\ {INFO} \subseteq Settled
    BY <1>2 DEF Conversation, Connecting, Settled
  <2>2. Only(Heard, Settled)
    BY <2>1, OnlyMore
  <2> QED BY <1>2, <2>2 DEF Conversation, Connecting, NothingAsked
<1>4. Connecting' /\ Sending' /\ Verifying'
  BY <1>2 DEF Connecting, Sending, Verifying
<1>5. BetweenSectors'
  BY <1>1, <1>2, <1>3 DEF BetweenSectors, NothingAsked
<1>6. Starting' /\ Stopped'
  BY <1>1, <1>2 DEF Conversation, Starting, Stopped
<1>7. Flashed'
  BY <1>1, <1>2
     DEF Conversation, Flashed, ConfirmedIsFlashed, StartedIsComplete
<1> QED BY <1>4, <1>5, <1>6, <1>7 DEF Conversation

\* Between two transmissions everything is ready for the next one.
LEMMA ReadyToSend ==
  ASSUME NodeApart, Only(Heard, Settled), NothingAsked, NEW sector
  PROVE  /\ AllData(to_target, sector)
         /\ BufferOf(target_buffer, sector)
         /\ Only(Heard, Settled \cup {RESP_SEG_ACK})
         /\ ToTheEnd(Heard, {RESP_SEG_ACK})
<1>1. Settled \cap {RESP_SEG_ACK} = {}
  BY CodesApart
<1>2. ToTheEnd(Heard, {RESP_SEG_ACK})
  BY <1>1, NoneSaid
<1>3. Only(Heard, Settled \cup {RESP_SEG_ACK})
  BY OnlyMore
<1> QED BY <1>2, <1>3 DEF NothingAsked, AllData, BufferOf

LEMMA BuildStep ==
  ASSUME NodeApart, Before, HostStep,
         act_build_pipeline \/ act_build_pipeline_undefined
  PROVE  Conversation'
<1> USE DEF Before
<1>1. /\ Takes("act_build_pipeline") /\ FsmAction
      /\ UNCHANGED <<fsm_running, to_target>>
      /\ Dispatch("EVT_START") \/ Consume
  BY DEF act_build_pipeline, act_build_pipeline_undefined, FsmAction
<1>2. /\ current_state = "ST_BUILD_PIPELINE" /\ current_state' = "ST_SEND_WINDOW"
      /\ pc = "run" /\ fsm_running
      /\ UNCHANGED <<target_mode, target_buffer>>
      /\ Heard' = Heard /\ Written' = Written
      /\ Consume => \A type : ~Pending(type)'
      /\ \A type \in InternalEvents : Dispatch(type) =>
           \A other : Pending(other)' <=> other = type
  BY <1>1, RowOf, ActionFrame
<1>3. NothingAsked /\ Only(Heard, Settled)
  BY <1>2 DEF Conversation, BetweenSectors
<1>4. NothingAsked'
  BY <1>1, <1>2, <1>3 DEF NothingAsked
<1>5. ~Pending("EVT_SEG_ACK")' /\ ~Pending("EVT_SECTOR_END")'
  BY <1>1, <1>2 DEF InternalEvents
<1>6. current_sector = 0 /\ current_sector' = 0
  <2>1. current_sector = 0
    BY <1>2 DEF Phases, BuildPhase, Early
  <2> QED BY <2>1 DEF act_build_pipeline, act_build_pipeline_undefined, ctxVars,
                      cursorVars
<1>7. Connecting' /\ Verifying'
  BY <1>2 DEF Connecting, Verifying
<1>8. BetweenSectors'
  BY <1>2, <1>3, <1>4 DEF BetweenSectors
<1>9. Sending'
  <2>1. Only(Heard', Settled) /\ NothingAsked'
    BY <1>2, <1>3, <1>4
  <2>2. /\ AllData(to_target', CurrentSector')
        /\ BufferOf(target_buffer', CurrentSector')
    BY <2>1 DEF NothingAsked, AllData, BufferOf
  <2>3. /\ Only(Heard, Settled \cup {RESP_SEG_ACK})
        /\ ToTheEnd(Heard, {RESP_SEG_ACK})
    BY <1>3, ReadyToSend
  <2> QED BY <1>2, <1>5, <2>2, <2>3 DEF Sending
<1>10. Starting' /\ Stopped'
  BY <1>1, <1>2 DEF Conversation, Starting, Stopped
<1>11. Flashed'
  BY <1>2, <1>6
     DEF Conversation, Flashed, ConfirmedIsFlashed, StartedIsComplete
<1> QED BY <1>7, <1>8, <1>9, <1>10, <1>11 DEF Conversation

-----------------------------------------------------------------------------
(* The host sends a sector. *)

\* What holds when act_send_window is entered, for a first segment and for a
\* next one.
LEMMA SendWindowEntry ==
  ASSUME NodeApart, Before, Takes("act_send_window"), pc # "undefined"
  PROVE  /\ AllData(to_target, CurrentSector)
         /\ BufferOf(target_buffer, CurrentSector)
         /\ Only(Heard, Settled \cup {RESP_SEG_ACK})
         /\ ToTheEnd(Heard, {RESP_SEG_ACK})
         /\ \/ Only(Heard, {RESP_SEG_ACK})
            \/ offset = 0 /\ NothingAsked /\ Only(Heard, Settled)
         /\ sectors = Image /\ current_sector \in Nat
         /\ current_state \in {"ST_SEND_WINDOW", "ST_NEXT_SECTOR"}
         /\ current_state' = "ST_SEND_WINDOW"
         /\ sector_size = TheInfo.sector_size
<1> USE DEF Before
<1>1. /\ fsm_queue # <<>>
      /\ \/ current_state \in {"ST_SEND_WINDOW", "ST_NEXT_SECTOR"}
              /\ Pending("EVT_START")
         \/ current_state = "ST_SEND_WINDOW" /\ Pending("EVT_SEG_ACK")
      /\ current_state' = "ST_SEND_WINDOW"
  BY RowOf DEF Takes, Pending
<1>2. sectors = Image /\ current_sector \in Nat
  BY <1>1, SectorsAre DEF Early
<1>3. sector_size = TheInfo.sector_size
  BY <1>1, AfterBuild, TheOnly DEF Early
<1>4. CASE current_state = "ST_SEND_WINDOW" /\ Pending("EVT_SEG_ACK")
  BY <1>1, <1>2, <1>3, <1>4 DEF Conversation, Sending
<1>5. CASE /\ current_state \in {"ST_SEND_WINDOW", "ST_NEXT_SECTOR"}
           /\ Pending("EVT_START")
  <2>1. NothingAsked /\ Only(Heard, Settled)
    BY <1>5 DEF Conversation, BetweenSectors
  <2>2. offset = 0
    BY <1>5 DEF Phases, SendPhase
  <2> QED BY <1>1, <1>2, <1>3, <1>5, <2>1, <2>2, ReadyToSend
<1> QED BY <1>1, <1>4, <1>5

\* A segment that is sent belongs to the current sector.
LEMMA SegmentOfSector ==
  ASSUME NodeApart, Before, SendsSegment
  PROVE  DataOf(Framed(DataPacket(Walk)), CurrentSector)
<1> USE DEF Before
<1>1. /\ sectors = Image /\ sector_size = TheInfo.sector_size
      /\ current_sector \in Nat
  BY SendWindowEntry
     DEF SendsSegment, act_send_window, act_send_window_overrun, Takes
<1> DEFINE k     == current_sector + 1
           first == Walk.offset - Walk.len
<1>2. k \in DOMAIN Image /\ CurrentSector = Image[k]
  BY <1>1, SegmentFacts DEF CurrentSector
<1>3. /\ first \in 0 .. sector_size - 1
      /\ Walk.addr = CurrentSector.base_addr + first
      /\ CurrentSector.size = sector_size
  <2>1. CurrentSector \in SectorOf(sector_size)
    BY SegmentFacts
  <2>2. /\ offset \in 0 .. sector_size /\ sector_size \in Nat
        /\ Walk.addr = CurrentSector.base_addr + first
        /\ first \in offset .. sector_size - 1
    BY SegmentFacts
  <2> HIDE DEF first
  <2>3. first \in 0 .. sector_size - 1
    BY <2>2
  <2> QED BY <2>1, <2>2, <2>3 DEF SectorOf
<1> HIDE DEF first, k
<1>4. sector_base(Walk.addr, TheInfo.sector_size) = CurrentSector.base_addr
  BY <1>1, <1>2, <1>3, SectorsAssumption DEF SectorsApart
<1>5. /\ Framed(DataPacket(Walk)).command = CMD_PIPELINE_DATA
      /\ Framed(DataPacket(Walk)).addr = Walk.addr
  BY DEF Framed, DataPacket, Packet
<1> QED BY <1>4, <1>5 DEF DataOf

LEMMA SegmentStep ==
  ASSUME NodeApart, Before, After, HostStep, SendsSegment PROVE Conversation'
<1> USE DEF Before, After
<1>1. /\ Takes("act_send_window") /\ FsmAction /\ Consume
      /\ \E sent : Transmit(DataPacket(Walk), sent)
      /\ UNCHANGED <<fsm_running, sectors, current_sector>>
  BY DEF SendsSegment, act_send_window, act_send_window_overrun, FsmAction
<1>2. /\ pc = "run" /\ fsm_running
      /\ UNCHANGED <<target_mode, target_buffer>>
      /\ Heard' = Heard /\ Written' = Written
  BY <1>1, ActionFrame
<1>3. /\ AllData(to_target, CurrentSector)
      /\ BufferOf(target_buffer, CurrentSector)
      /\ Only(Heard, Settled \cup {RESP_SEG_ACK})
      /\ ToTheEnd(Heard, {RESP_SEG_ACK})
      /\ current_state \in {"ST_SEND_WINDOW", "ST_NEXT_SECTOR"}
      /\ current_state' = "ST_SEND_WINDOW"
  BY <1>1, <1>2, SendWindowEntry
<1>4. \A type : ~Pending(type)'
  BY <1>1, <1>3, ActionFrame
<1>5. CurrentSector' = CurrentSector
  BY <1>1 DEF CurrentSector
<1>6. AllData(to_target', CurrentSector)
  <2>1. to_target' \in {to_target, Append(to_target, Framed(DataPacket(Walk)))}
    BY <1>1, HandedOver
  <2>2. to_target \in Seq(Frames)
    BY DEF TypeOK
  <2> QED BY <1>3, <2>1, <2>2, SegmentOfSector, NextFrame
<1>7. Connecting' /\ Verifying'
  BY <1>3 DEF Connecting, Verifying
<1>8. BetweenSectors'
  BY <1>3, <1>4 DEF BetweenSectors
<1>9. Sending'
  BY <1>2, <1>3, <1>4, <1>5, <1>6 DEF Sending
<1>10. Starting' /\ Stopped'
  BY <1>1, <1>2, <1>3 DEF Conversation, Starting, Stopped
<1>11. Flashed'
  BY <1>1, <1>2, <1>3
     DEF Conversation, Flashed, ConfirmedIsFlashed, StartedIsComplete
<1> QED BY <1>7, <1>8, <1>9, <1>10, <1>11 DEF Conversation

\* The sector array is the image, which is not empty: this step does not
\* happen, and would do no harm.
LEMMA NullStep ==
  ASSUME NodeApart, Before, After, HostStep, act_send_window_null
  PROVE  Conversation'
<1> USE DEF Before, After
<1>1. /\ Takes("act_send_window") /\ FsmAction /\ Consume
      /\ UNCHANGED <<fsm_running, sectors, current_sector, to_target>>
  BY DEF act_send_window_null, FsmAction, ctxVars, cursorVars
<1>2. /\ pc = "run" /\ fsm_running
      /\ UNCHANGED <<target_mode, target_buffer>>
      /\ Heard' = Heard /\ Written' = Written
  BY <1>1, ActionFrame
<1>3. /\ AllData(to_target, CurrentSector)
      /\ BufferOf(target_buffer, CurrentSector)
      /\ Only(Heard, Settled \cup {RESP_SEG_ACK})
      /\ ToTheEnd(Heard, {RESP_SEG_ACK})
      /\ current_state \in {"ST_SEND_WINDOW", "ST_NEXT_SECTOR"}
      /\ current_state' = "ST_SEND_WINDOW"
  BY <1>1, <1>2, SendWindowEntry
<1>4. \A type : ~Pending(type)'
  BY <1>1, <1>3, ActionFrame
<1>5. CurrentSector' = CurrentSector
  BY <1>1 DEF CurrentSector
<1>6. Connecting' /\ Verifying' /\ BetweenSectors'
  BY <1>3, <1>4 DEF Connecting, Verifying, BetweenSectors
<1>7. Sending'
  BY <1>1, <1>2, <1>3, <1>4, <1>5 DEF Sending
<1>8. Starting' /\ Stopped'
  BY <1>1, <1>2, <1>3 DEF Conversation, Starting, Stopped
<1>9. Flashed'
  BY <1>1, <1>2, <1>3
     DEF Conversation, Flashed, ConfirmedIsFlashed, StartedIsComplete
<1> QED BY <1>6, <1>7, <1>8, <1>9 DEF Conversation

\* A sector does not end before its first segment: it has a programmed byte.
LEMMA SectorEndStep ==
  ASSUME NodeApart, Before, After, HostStep, act_send_window_sector_end
  PROVE  Conversation'
<1> USE DEF Before, After
<1>1. /\ Takes("act_send_window") /\ FsmAction /\ Dispatch("EVT_SECTOR_END")
      /\ current_sector < Len(sectors) /\ Walk.len < 0
      /\ UNCHANGED <<fsm_running, sectors, current_sector, to_target>>
  BY DEF act_send_window_sector_end, FsmAction
<1>2. /\ pc = "run" /\ fsm_running
      /\ UNCHANGED <<target_mode, target_buffer>>
      /\ Heard' = Heard /\ Written' = Written
  BY <1>1, ActionFrame
<1>3. /\ AllData(to_target, CurrentSector)
      /\ BufferOf(target_buffer, CurrentSector)
      /\ Only(Heard, Settled \cup {RESP_SEG_ACK})
      /\ ToTheEnd(Heard, {RESP_SEG_ACK})
      /\ \/ Only(Heard, {RESP_SEG_ACK})
         \/ offset = 0 /\ NothingAsked /\ Only(Heard, Settled)
      /\ sectors = Image /\ current_sector \in Nat
      /\ current_state \in {"ST_SEND_WINDOW", "ST_NEXT_SECTOR"}
      /\ current_state' = "ST_SEND_WINDOW"
      /\ sector_size = TheInfo.sector_size
  BY <1>1, <1>2, SendWindowEntry
<1>4. \A other : Pending(other)' <=> other = "EVT_SECTOR_END"
  BY <1>1, <1>3, ActionFrame DEF InternalEvents
<1>5. CurrentSector' = CurrentSector
  BY <1>1 DEF CurrentSector
<1>6. offset # 0
  <2> DEFINE k == current_sector + 1
  <2>1. k \in DOMAIN Image /\ CurrentSector = Image[k]
    BY <1>1, <1>3, ImageTyped DEF CurrentSector
  <2>2. PICK i \in 0 .. Image[k].size - 1 : Image[k].valid[i]
    BY <2>1, SectorsAssumption DEF SectorsApart
  <2>3. CurrentSector \in SectorOf(sector_size)
    BY <1>1, SectorArray DEF Phases
  <2>4. sector_size \in Nat /\ segment_size \in Nat \ {0} /\ offset \in 0 .. sector_size
    BY <1>1, <1>3, AfterBuild DEF Early, Phases, Ranges
  <2>5. \A j \in offset .. sector_size - 1 : ~CurrentSector.valid[j]
    BY <1>1, <2>3, <2>4, NextSegmentCall DEF Walk
  <2>6. CurrentSector.size = sector_size
    BY <2>3 DEF SectorOf
  <2> HIDE DEF k
  <2>7. i \in 0 .. sector_size - 1 /\ CurrentSector.valid[i]
    BY <2>1, <2>2, <2>6
  <2> QED BY <2>4, <2>5, <2>7
<1>7. Only(Heard, {RESP_SEG_ACK})
  BY <1>3, <1>6
<1>8. Connecting' /\ Verifying'
  BY <1>3 DEF Connecting, Verifying
<1>9. BetweenSectors'
  BY <1>3, <1>4 DEF BetweenSectors
<1>10. Sending'
  BY <1>1, <1>2, <1>3, <1>5, <1>7 DEF Sending
<1>11. Starting' /\ Stopped'
  BY <1>1, <1>2, <1>3 DEF Conversation, Starting, Stopped
<1>12. Flashed'
  BY <1>1, <1>2, <1>3
     DEF Conversation, Flashed, ConfirmedIsFlashed, StartedIsComplete
<1> QED BY <1>8, <1>9, <1>10, <1>11, <1>12 DEF Conversation

-----------------------------------------------------------------------------
(* The host has a sector checked and goes on. *)

LEMMA CrcVerifyStep ==
  ASSUME NodeApart, Before, After, HostStep, act_crc_verify PROVE Conversation'
<1> USE DEF Before, After
<1> DEFINE pkt == Packet(CMD_PIPELINE_VERIFY, 4, 0,
                         pipeline_sector_crc(CurrentSector))
<1>1. /\ Takes("act_crc_verify") /\ FsmAction /\ Consume
      /\ \E sent : Transmit(pkt, sent)
      /\ UNCHANGED <<pc, fsm_running, sectors, current_sector>>
  BY DEF act_crc_verify, FsmAction, ctxVars, cursorVars
<1>2. /\ current_state = "ST_SEND_WINDOW" /\ Pending("EVT_SECTOR_END")
      /\ current_state' = "ST_VERIFY"
      /\ pc = "run" /\ fsm_running
      /\ UNCHANGED <<target_mode, target_buffer>>
      /\ Heard' = Heard /\ Written' = Written
  BY <1>1, RowOf, ActionFrame DEF Pending
<1>3. \A type : ~Pending(type)'
  BY <1>1, <1>2, ActionFrame
<1>4. /\ AllData(to_target, CurrentSector)
      /\ BufferOf(target_buffer, CurrentSector)
      /\ Only(Heard, {RESP_SEG_ACK})
  BY <1>2 DEF Conversation, Sending
<1>5. CurrentSector' = CurrentSector
  BY <1>1 DEF CurrentSector
<1>6. DataThenVerify(to_target', CurrentSector)
  <2>1. VerifyOf(pkt, CurrentSector) /\ ~(pkt.length > CAN_MAX_PAYLOAD)
    BY DEF VerifyOf, Packet, CAN_MAX_PAYLOAD
  <2>2. \E sent : Transmit(pkt, sent)
    BY <1>1
  <2> HIDE DEF pkt
  <2>3. to_target' \in {to_target, Append(to_target, pkt)}
    BY <2>1, <2>2, HandedOver
  <2>4. to_target \in Seq(Frames)
    BY DEF TypeOK
  <2> QED BY <1>4, <2>1, <2>3, <2>4, NextFrame
<1> HIDE DEF pkt
<1>7. /\ ~Some(Heard, Verdicts) /\ ~Some(Heard, {RESP_CRC_ACK})
      /\ ToTheEnd(Heard, Verdicts)
      /\ Only(Heard, {RESP_SEG_ACK} \cup Verdicts)
  <2>1. {RESP_SEG_ACK} \cap Verdicts = {} /\ {RESP_SEG_ACK} \cap {RESP_CRC_ACK} = {}
    BY CodesApart DEF Verdicts
  <2>2. ~Some(Heard, Verdicts) /\ ToTheEnd(Heard, Verdicts)
    BY <1>4, <2>1, NoneSaid
  <2>3. ~Some(Heard, {RESP_CRC_ACK})
    BY <1>4, <2>1, NoneSaid
  <2>4. Only(Heard, {RESP_SEG_ACK} \cup Verdicts)
    BY <1>4, OnlyMore
  <2> QED BY <2>2, <2>3, <2>4
<1>8. Connecting' /\ BetweenSectors' /\ Sending'
  BY <1>2 DEF Connecting, BetweenSectors, Sending
<1>9. Verifying'
  BY <1>2, <1>3, <1>4, <1>5, <1>6, <1>7 DEF Verifying
<1>10. Starting' /\ Stopped'
  BY <1>1, <1>2 DEF Conversation, Starting, Stopped
<1>11. Flashed'
  BY <1>1, <1>2
     DEF Conversation, Flashed, ConfirmedIsFlashed, StartedIsComplete
<1> QED BY <1>8, <1>9, <1>10, <1>11 DEF Conversation

\* The sector is sent again, or the host gives up.
LEMMA CrcNackStep ==
  ASSUME NodeApart, Before, After, HostStep, act_crc_nack \/ act_crc_nack_abort
  PROVE  Conversation'
<1> USE DEF Before, After
<1>1. /\ Takes("act_crc_nack") /\ FsmAction
      /\ Dispatch("EVT_START") \/ Consume
      /\ UNCHANGED <<pc, sectors, current_sector, to_target>>
  BY DEF act_crc_nack, act_crc_nack_abort, FsmAction
<1>2. /\ current_state = "ST_VERIFY" /\ Pending("EVT_CRC_NACK")
      /\ current_state' = "ST_SEND_WINDOW"
      /\ pc = "run"
      /\ UNCHANGED <<target_mode, target_buffer>>
      /\ Heard' = Heard /\ Written' = Written
  BY <1>1, RowOf, ActionFrame DEF Pending, Takes
<1>3. ~Pending("EVT_SEG_ACK")' /\ ~Pending("EVT_SECTOR_END")'
  BY <1>1, <1>2, ActionFrame DEF InternalEvents
<1>4. NothingAsked /\ Only(Heard, Settled)
  <2>1. NothingAsked /\ Only(Heard, Verdicts)
    BY <1>2 DEF Conversation, Verifying
  <2>2. Verdicts \subseteq Settled
    BY DEF Settled
  <2> QED BY <2>1, <2>2, OnlyMore
<1>5. NothingAsked'
  BY <1>1, <1>2, <1>4 DEF NothingAsked
<1>6. Connecting' /\ Verifying'
  BY <1>2 DEF Connecting, Verifying
<1>7. BetweenSectors'
  BY <1>2, <1>4, <1>5 DEF BetweenSectors
<1>8. Sending'
  <2>1. /\ AllData(to_target', CurrentSector')
        /\ BufferOf(target_buffer', CurrentSector')
    BY <1>5 DEF NothingAsked, AllData, BufferOf
  <2>2. /\ Only(Heard, Settled \cup {RESP_SEG_ACK})
        /\ ToTheEnd(Heard, {RESP_SEG_ACK})
    BY <1>4, ReadyToSend
  <2> QED BY <1>2, <1>3, <2>1, <2>2 DEF Sending
<1>9. Starting' /\ Stopped'
  BY <1>1, <1>2 DEF Conversation, Starting, Stopped
<1>10. Flashed'
  BY <1>1, <1>2
     DEF Conversation, Flashed, ConfirmedIsFlashed, StartedIsComplete
<1> QED BY <1>6, <1>7, <1>8, <1>9, <1>10 DEF Conversation

\* The verdict that confirms a sector is one on this sector.
LEMMA NextSectorStep ==
  ASSUME NodeApart, Before, After, HostStep, act_next_sector
  PROVE  Conversation'
<1> USE DEF Before, After
<1>1. /\ Takes("act_next_sector") /\ FsmAction
      /\ current_sector' = current_sector + 1
      /\ UNCHANGED <<pc, fsm_running, to_target>>
  BY DEF act_next_sector, FsmAction
<1>2. /\ current_state = "ST_VERIFY" /\ Pending("EVT_CRC_OK")
      /\ current_state' = "ST_NEXT_SECTOR"
      /\ pc = "run" /\ fsm_running
      /\ UNCHANGED <<target_mode, target_buffer>>
      /\ Heard' = Heard /\ Written' = Written
  BY <1>1, RowOf, ActionFrame DEF Pending
<1>3. /\ NothingAsked /\ Only(Heard, Settled)
      /\ current_sector + 1 \in Written
  <2>1. NothingAsked /\ Only(Heard, Verdicts) /\ current_sector + 1 \in Written
    BY <1>2 DEF Conversation, Verifying
  <2>2. Verdicts \subseteq Settled
    BY DEF Settled
  <2> QED BY <2>1, <2>2, OnlyMore
<1>4. NothingAsked'
  BY <1>1, <1>2, <1>3 DEF NothingAsked
<1>5. Connecting' /\ Sending' /\ Verifying'
  BY <1>2 DEF Connecting, Sending, Verifying
<1>6. BetweenSectors'
  BY <1>2, <1>3, <1>4 DEF BetweenSectors
<1>7. Starting' /\ Stopped'
  BY <1>1, <1>2 DEF Conversation, Starting, Stopped
<1>8. Flashed'
  <2>1. current_sector \in Nat
    BY SectorsAre
  <2>2. \A k \in 1 .. current_sector + 1 :
          k \in 1 .. current_sector \/ k = current_sector + 1
    BY <2>1
  <2>3. 1 .. current_sector + 1 \subseteq Written
    BY <1>3, <2>2 DEF Conversation, Flashed, ConfirmedIsFlashed
  <2> QED BY <1>1, <1>2, <2>3
          DEF Conversation, Flashed, ConfirmedIsFlashed, StartedIsComplete
<1> QED BY <1>5, <1>6, <1>7, <1>8 DEF Conversation

-----------------------------------------------------------------------------
(* The host asks for the application. *)

LEMMA AppJumpStep ==
  ASSUME NodeApart, Before, After, HostStep, act_app_jump PROVE Conversation'
<1> USE DEF Before, After
<1> DEFINE pkt == Packet(CMD_START_APP, 1, 0, <<>>)
<1>1. /\ Takes("act_app_jump") /\ FsmAction /\ Consume
      /\ \E sent : Transmit(pkt, sent)
      /\ UNCHANGED <<pc, fsm_running, sectors, current_sector>>
  BY DEF act_app_jump, FsmAction, ctxVars, cursorVars
<1>2. /\ current_state = "ST_NEXT_SECTOR" /\ current_state' = "ST_APP_JUMP"
      /\ pc = "run" /\ fsm_running
      /\ UNCHANGED <<target_mode, target_buffer>>
      /\ Heard' = Heard /\ Written' = Written
  BY <1>1, RowOf, ActionFrame
<1>3. \A type : ~Pending(type)'
  BY <1>1, <1>2, ActionFrame
<1>4. NothingAsked /\ Only(Heard, Settled)
  BY <1>2 DEF Conversation, BetweenSectors
<1>5. Only(to_target', {CMD_START_APP})
  <2>1. pkt.command = CMD_START_APP /\ ~(pkt.length > CAN_MAX_PAYLOAD)
    BY DEF Packet, CAN_MAX_PAYLOAD
  <2>2. \E sent : Transmit(pkt, sent)
    BY <1>1
  <2> HIDE DEF pkt
  <2>3. to_target' \in {<<>>, Append(<<>>, pkt)}
    BY <1>4, <2>1, <2>2, HandedOver DEF NothingAsked
  <2> QED BY <2>1, <2>3, FirstFrame
<1> HIDE DEF pkt
<1>6. /\ Only(Heard, Settled \cup {RESP_APP_JUMP_ACK})
      /\ ~Some(Heard, {RESP_APP_JUMP_ACK})
  <2>1. Settled \cap {RESP_APP_JUMP_ACK} = {}
    BY CodesApart
  <2> QED BY <1>4, <2>1, NoneSaid, OnlyMore
<1>7. Connecting' /\ BetweenSectors' /\ Sending' /\ Verifying'
  BY <1>2 DEF Connecting, BetweenSectors, Sending, Verifying
<1>8. Starting' /\ Stopped'
  BY <1>1, <1>2, <1>3, <1>5, <1>6 DEF Conversation, Starting, Stopped
<1>9. Flashed'
  BY <1>1, <1>2
     DEF Conversation, Flashed, ConfirmedIsFlashed, StartedIsComplete
<1> QED BY <1>7, <1>8, <1>9 DEF Conversation

LEMMA DoneStep ==
  ASSUME Before, After, HostStep, act_done PROVE Conversation'
<1> USE DEF Before, After
<1>1. /\ Takes("act_done") /\ FsmAction /\ fsm_running' = FALSE
      /\ UNCHANGED <<pc, sectors, current_sector, to_target>>
  BY DEF act_done, FsmAction, cursorVars
<1>2. /\ current_state = "ST_APP_JUMP" /\ Pending("EVT_APP_ACK")
      /\ current_state' = "ST_DONE" /\ pc = "run"
      /\ UNCHANGED <<target_mode, target_buffer>>
      /\ Heard' = Heard /\ Written' = Written
  BY <1>1, RowOf, ActionFrame DEF Pending, Takes
<1>3. target_mode = "app"
  BY <1>2 DEF Conversation, Starting
<1>4. Connecting' /\ BetweenSectors' /\ Sending' /\ Verifying'
  BY <1>2 DEF Connecting, BetweenSectors, Sending, Verifying
<1>5. Starting' /\ Stopped'
  BY <1>1, <1>2, <1>3 DEF Starting, Stopped
<1>6. Flashed'
  BY <1>1, <1>2
     DEF Conversation, Flashed, ConfirmedIsFlashed, StartedIsComplete
<1> QED BY <1>4, <1>5, <1>6 DEF Conversation

-----------------------------------------------------------------------------
(* The conversation as a whole. *)

LEMMA ConversationInit == SysInit => Conversation
<1> SUFFICES ASSUME SysInit PROVE Conversation
  OBVIOUS
<1>1. /\ current_state = "ST_INIT" /\ pc = "poll" /\ fsm_running
      /\ fsm_queue = <<Event("EVT_START")>> /\ current_sector = 0
      /\ to_target = <<>> /\ target_buffer = NULL /\ target_mode = "boot"
      /\ rx_queue = <<>> /\ to_host = <<>> /\ last_answer = NULL
  BY DEF SysInit, Init
<1>2. Heard = <<>>
  BY <1>1 DEF Heard, OnTheWay
<1>3. Len(fsm_queue) = 1
  BY <1>1
<1>4. Connecting /\ BetweenSectors /\ Sending /\ Verifying
  BY <1>1, <1>2, <1>3
     DEF Connecting, NothingAsked, BetweenSectors, Sending, Verifying
<1>5. Starting /\ Stopped
  BY <1>1 DEF Starting, Stopped
<1>6. Flashed
  BY <1>1 DEF Flashed, ConfirmedIsFlashed, StartedIsComplete
<1> QED BY <1>4, <1>5, <1>6 DEF Conversation

LEMMA ConversationStep ==
  NodeApart /\ Before /\ After /\ [SysNext]_sysVars => Conversation'
<1> SUFFICES ASSUME NodeApart, Before, After, [SysNext]_sysVars
             PROVE  Conversation'
  OBVIOUS
<1>1. CASE HostStep /\ FsmAction
  BY <1>1, SendResetStep, TargetInfoStep, BuildStep, SegmentStep, SectorEndStep,
     NullStep, CrcVerifyStep, CrcNackStep, NextSectorStep, AppJumpStep, DoneStep
     DEF FsmAction, SendsSegment
<1>2. CASE HostStep /\ ~FsmAction
  BY <1>2, SignalHeard, DropHeard, QuietSteps DEF HostStep, Host
<1>3. CASE Target
  BY <1>3, ResetStep, DataStep, VerifyStep, StartStep DEF Target, TargetVerify
<1>4. CASE TargetRepeats
  BY <1>4, RepeatStep
<1> QED BY <1>1, <1>2, <1>3, <1>4, QuietSteps DEF SysNext

\* In every state of the FSM the answers on their way are the ones the host
\* can tell apart.
THEOREM ConversationKept == NodeApart => (SysSpec => []Conversation)
<1> SUFFICES ASSUME NodeApart PROVE SysSpec => []Conversation
  OBVIOUS
<1>1. LinkTyped /\ Phases /\ TypeOK /\ Conversation
        /\ (LinkTyped /\ Phases /\ TypeOK)' /\ [SysNext]_sysVars => Conversation'
  BY ConversationStep DEF Before, After
<1> QED BY <1>1, ConversationInit, HostInvariants, PTL DEF SysSpec

\* What the host counts as written is in the target's flash, through lost
\* frames, repeated answers, failed writes and target resets.
THEOREM ConfirmedStays == NodeApart => (SysSpec => []ConfirmedIsFlashed)
<1>1. Conversation => ConfirmedIsFlashed
  BY DEF Conversation, Flashed
<1> QED BY <1>1, ConversationKept, PTL

\* The application is started with the complete image in flash only.
THEOREM StartedComplete == NodeApart => (SysSpec => []StartedIsComplete)
<1>1. Conversation => StartedIsComplete
  BY DEF Conversation, Flashed
<1> QED BY <1>1, ConversationKept, PTL

-----------------------------------------------------------------------------
(* The system is a firmware update. *)

\* AbstractPhase, of values.
PhaseFor(state, running, mode) ==
  CASE state = "ST_DONE"                   -> "done"
    [] ~running /\ state # "ST_DONE"       -> "failed"
    [] mode = "app" /\ running             -> "started"
    [] mode = "boot" /\ running
         /\ state \in {"ST_INIT", "ST_SEND_RESET"} -> "idle"
    [] OTHER -> "flashing"

LEMMA PhaseTable ==
  ASSUME NEW state, NEW running \in BOOLEAN, NEW mode \in {"boot", "app"},
         state = "ST_DONE" => ~running
  PROVE  /\ state = "ST_DONE" => PhaseFor(state, running, mode) = "done"
         /\ state # "ST_DONE" =>
              /\ ~running => PhaseFor(state, running, mode) = "failed"
              /\ running /\ mode = "app" =>
                   PhaseFor(state, running, mode) = "started"
              /\ running /\ mode = "boot" =>
                   PhaseFor(state, running, mode) =
                     IF state \in {"ST_INIT", "ST_SEND_RESET"}
                     THEN "idle" ELSE "flashing"
  BY DEF PhaseFor

\* The phase before and after a step.
LEMMA PhasesOfStep ==
  ASSUME Before, After, Conversation'
  PROVE  /\ current_state = "ST_DONE" => AbstractPhase = "done"
         /\ current_state # "ST_DONE" =>
              /\ ~fsm_running => AbstractPhase = "failed"
              /\ fsm_running /\ target_mode = "app" => AbstractPhase = "started"
              /\ fsm_running /\ target_mode = "boot" =>
                   AbstractPhase =
                     IF current_state \in {"ST_INIT", "ST_SEND_RESET"}
                     THEN "idle" ELSE "flashing"
         /\ current_state' = "ST_DONE" => AbstractPhase' = "done"
         /\ current_state' # "ST_DONE" =>
              /\ ~fsm_running' => AbstractPhase' = "failed"
              /\ fsm_running' /\ target_mode' = "app" => AbstractPhase' = "started"
              /\ fsm_running' /\ target_mode' = "boot" =>
                   AbstractPhase' =
                     IF current_state' \in {"ST_INIT", "ST_SEND_RESET"}
                     THEN "idle" ELSE "flashing"
<1>1. /\ AbstractPhase = PhaseFor(current_state, fsm_running, target_mode)
      /\ AbstractPhase' = PhaseFor(current_state', fsm_running', target_mode')
  BY DEF AbstractPhase, PhaseFor
<1>2. fsm_running \in BOOLEAN /\ fsm_running' \in BOOLEAN
  BY DEF Before, After, TypeOK
<1>3. target_mode \in {"boot", "app"} /\ target_mode' \in {"boot", "app"}
  BY DEF Before, Conversation, Starting
<1>4. /\ current_state = "ST_DONE" => ~fsm_running
      /\ current_state' = "ST_DONE" => ~fsm_running'
  BY DEF Before, Conversation, Stopped
<1> DEFINE table(state, running, mode, phase) ==
             /\ state = "ST_DONE" => phase = "done"
             /\ state # "ST_DONE" =>
                  /\ ~running => phase = "failed"
                  /\ running /\ mode = "app" => phase = "started"
                  /\ running /\ mode = "boot" =>
                       phase = IF state \in {"ST_INIT", "ST_SEND_RESET"}
                               THEN "idle" ELSE "flashing"
<1>5. \A state : \A running \in BOOLEAN : \A mode \in {"boot", "app"} :
        (state = "ST_DONE" => ~running)
          => table(state, running, mode, PhaseFor(state, running, mode))
  BY PhaseTable
<1>6. /\ table(current_state, fsm_running, target_mode, AbstractPhase)
      /\ table(current_state', fsm_running', target_mode', AbstractPhase')
  <2> HIDE DEF table
  <2> QED BY <1>1, <1>2, <1>3, <1>4, <1>5, Zenon
<1> QED BY <1>6

\* A step that changes nothing the abstraction sees.
LEMMA Unseen ==
  ASSUME UNCHANGED <<current_state, fsm_running, target_mode, Written,
                     current_sector>>
  PROVE  UNCHANGED Abstract!vars
<1>1. AbstractPhase' = AbstractPhase
  BY DEF AbstractPhase
<1> QED BY <1>1 DEF Abstract!vars

\* An action of the FSM connects, confirms a sector, gives up or finishes.
LEMMA ActionMaps ==
  ASSUME NodeApart, Before, After, Conversation', HostStep, FsmAction
  PROVE  Abstract!Next \/ UNCHANGED Abstract!vars
<1> USE DEF Before, After
<1>1. /\ target_mode' = target_mode /\ Written' = Written /\ fsm_running
      /\ current_state \notin {"ST_APP_JUMP", "ST_DONE"} => target_mode = "boot"
  BY ActionFrame DEF Conversation, Starting
<1>2. CASE \/ act_send_reset \/ SendsSegment \/ act_send_window_sector_end
           \/ act_send_window_null \/ act_crc_verify \/ act_crc_nack
           \/ act_app_jump
  <2>1. /\ UNCHANGED <<current_sector, fsm_running>>
        /\ current_state' # "ST_DONE"
        /\ current_state \notin {"ST_APP_JUMP", "ST_DONE"}
        /\ current_state \in {"ST_INIT", "ST_SEND_RESET"}
             <=> current_state' \in {"ST_INIT", "ST_SEND_RESET"}
    BY <1>2, RowOf
       DEF act_send_reset, SendsSegment, act_send_window, act_send_window_overrun,
           act_send_window_sector_end, act_send_window_null, act_crc_verify,
           act_crc_nack, act_app_jump, ctxVars, cursorVars
  <2>2. /\ fsm_running /\ fsm_running'
        /\ target_mode = "boot" /\ target_mode' = "boot"
    BY <1>1, <2>1
  <2>3. AbstractPhase' = AbstractPhase
    <3>1. AbstractPhase = IF current_state \in {"ST_INIT", "ST_SEND_RESET"}
                          THEN "idle" ELSE "flashing"
      BY <2>1, <2>2, PhasesOfStep
    <3>2. AbstractPhase' = IF current_state' \in {"ST_INIT", "ST_SEND_RESET"}
                           THEN "idle" ELSE "flashing"
      BY <2>1, <2>2, PhasesOfStep
    <3> QED BY <2>1, <3>1, <3>2
  <2> QED BY <1>1, <2>1, <2>3 DEF Abstract!vars
<1>3. CASE act_build_pipeline \/ act_build_pipeline_undefined
  <2>1. /\ Takes("act_build_pipeline") /\ fsm_running' = fsm_running
        /\ current_sector' \in {0, current_sector}
    BY <1>3 DEF act_build_pipeline, act_build_pipeline_undefined, ctxVars,
                cursorVars
  <2>2. /\ current_state = "ST_BUILD_PIPELINE" /\ current_state' = "ST_SEND_WINDOW"
        /\ current_sector = 0
    BY <2>1, RowOf DEF Phases, BuildPhase, Early
  <2>3. AbstractPhase' = AbstractPhase
    BY <1>1, <2>1, <2>2, PhasesOfStep
  <2> QED BY <1>1, <2>1, <2>2, <2>3 DEF Abstract!vars
<1>4. CASE act_target_info
  <2>1. /\ current_state = "ST_SEND_RESET" /\ current_state' = "ST_BUILD_PIPELINE"
        /\ UNCHANGED <<current_sector, fsm_running>>
    BY <1>4, RowOf DEF act_target_info
  <2>2. AbstractPhase = "idle" /\ AbstractPhase' = "flashing"
    BY <1>1, <2>1, PhasesOfStep
  <2>3. Abstract!Connect
    BY <1>1, <2>1, <2>2 DEF Abstract!Connect
  <2> QED BY <2>3 DEF Abstract!Next
<1>5. CASE act_target_info_reject \/ act_crc_nack_abort
  <2>1. /\ current_state \in {"ST_SEND_RESET", "ST_VERIFY"}
        /\ current_state' # "ST_DONE" /\ ~fsm_running'
        /\ current_sector' = current_sector
    BY <1>5, RowOf
       DEF act_target_info_reject, act_crc_nack_abort, ctxVars, cursorVars
  <2>2. AbstractPhase \in {"idle", "flashing"} /\ AbstractPhase' = "failed"
    BY <1>1, <2>1, PhasesOfStep
  <2>3. Abstract!GiveUp
    BY <1>1, <2>1, <2>2 DEF Abstract!GiveUp
  <2> QED BY <2>3 DEF Abstract!Next
<1>6. CASE act_next_sector
  <2>1. /\ current_state = "ST_VERIFY" /\ current_state' = "ST_NEXT_SECTOR"
        /\ current_sector' = current_sector + 1 /\ fsm_running' = fsm_running
        /\ Pending("EVT_CRC_OK")
    BY <1>6, RowOf DEF act_next_sector, Takes, Pending
  <2>2. AbstractPhase = "flashing" /\ AbstractPhase' = AbstractPhase
    BY <1>1, <2>1, PhasesOfStep
  <2>3. current_sector + 1 \in Written
    BY <2>1 DEF Conversation, Verifying
  <2>4. Abstract!Confirm
    BY <1>1, <2>1, <2>2, <2>3 DEF Abstract!Confirm
  <2> QED BY <2>4 DEF Abstract!Next
<1>7. CASE act_done
  <2>1. /\ current_state = "ST_APP_JUMP" /\ current_state' = "ST_DONE"
        /\ current_sector' = current_sector /\ Pending("EVT_APP_ACK")
    BY <1>7, RowOf DEF act_done, Takes, Pending, cursorVars
  <2>2. target_mode = "app"
    BY <2>1 DEF Conversation, Starting
  <2>3. AbstractPhase = "started" /\ AbstractPhase' = "done"
    BY <1>1, <2>1, <2>2, PhasesOfStep
  <2>4. Abstract!Finish
    BY <1>1, <2>1, <2>3 DEF Abstract!Finish
  <2> QED BY <2>4 DEF Abstract!Next
<1> QED BY <1>2, <1>3, <1>4, <1>5, <1>6, <1>7 DEF FsmAction, SendsSegment

\* A check of a sector programs it, or fails to; the start command starts the
\* application.
LEMMA TargetMaps ==
  ASSUME NodeApart, Before, After, Conversation', Target
  PROVE  Abstract!Next \/ UNCHANGED Abstract!vars
<1> USE DEF Before, After
<1>1. UNCHANGED <<current_state, fsm_running, current_sector>>
  BY DEF Target, TargetReset, TargetData, TargetVerifyOk, TargetVerifyMismatch,
         TargetWriteFault, TargetStart, Arrives, fsmVars, ctxVars, cursorVars
<1>2. CASE TargetReset \/ TargetData
  <2>1. UNCHANGED <<target_mode, flash>>
    BY <1>2 DEF TargetReset, TargetData
  <2>2. Written' = Written
    BY <2>1 DEF Written
  <2> QED BY <1>1, <2>1, <2>2, Unseen
<1>3. CASE TargetVerify
  <2> DEFINE n == current_sector + 1
  <2>1. /\ target_mode' = target_mode /\ current_state = "ST_VERIFY"
        /\ n \in DOMAIN Image
        /\ \A k \in DOMAIN Image : k # n => (k \in Written' <=> k \in Written)
    BY <1>3, VerifyFacts
  <2>2. /\ current_state' = "ST_VERIFY" /\ fsm_running
        /\ target_mode = "boot"
    BY <1>1, <2>1 DEF Conversation, Stopped, Starting
  <2>3. AbstractPhase = "flashing" /\ AbstractPhase' = AbstractPhase
    BY <1>1, <2>1, <2>2, PhasesOfStep
  <2>4. current_sector < Len(Image)
    BY <2>1, ImageTyped, SectorsAre
  <2>5. /\ Written \subseteq DOMAIN Image
        /\ Written' \subseteq DOMAIN Image
    BY DEF Written
  <2> HIDE DEF n
  <2>6. Written' = Written \cup {n} \/ Written' = Written \ {n}
    <3>1. CASE n \in Written'
      BY <2>1, <2>5, <3>1
    <3>2. CASE n \notin Written'
      BY <2>1, <2>5, <3>2
    <3> QED BY <3>1, <3>2
  <2>7. Abstract!Program
    BY <1>1, <2>3, <2>4, <2>6 DEF Abstract!Program, n
  <2> QED BY <2>7 DEF Abstract!Next
<1>4. CASE TargetStart
  <2>1. /\ Arrives(CMD_START_APP) /\ target_mode' = "app"
        /\ UNCHANGED flash
    BY <1>4 DEF TargetStart
  <2>2. target_mode = "boot" /\ current_state = "ST_APP_JUMP"
    BY <2>1, ArrivesFrame, ArrivesIn
  <2>3. fsm_running /\ current_state' = "ST_APP_JUMP"
    BY <1>1, <2>2 DEF Conversation, Stopped
  <2>4. AbstractPhase = "flashing" /\ AbstractPhase' = "started"
    BY <1>1, <2>1, <2>2, <2>3, PhasesOfStep
  <2>5. Written = 1 .. Len(Image) /\ current_sector = Len(Image)
    BY <2>2, AllWritten, ImageTyped
  <2>6. Written' = Written
    BY <2>1 DEF Written
  <2>7. Abstract!Start
    BY <1>1, <2>4, <2>5, <2>6 DEF Abstract!Start
  <2> QED BY <2>7 DEF Abstract!Next
<1> QED BY <1>2, <1>3, <1>4 DEF Target, TargetVerify

\* No sum is NULL, so nothing is written at first.
LEMMA AbstractInit == SysInit => Abstract!Init
<1> SUFFICES ASSUME SysInit PROVE Abstract!Init
  OBVIOUS
<1>1. /\ current_state = "ST_INIT" /\ fsm_running = TRUE /\ target_mode = "boot"
      /\ current_sector = 0 /\ flash = [base \in Bases |-> NULL]
  BY DEF SysInit, Init
<1>2. AbstractPhase = "idle"
  <2>1. AbstractPhase = PhaseFor(current_state, fsm_running, target_mode)
    BY DEF AbstractPhase, PhaseFor
  <2>2. PhaseFor("ST_INIT", TRUE, "boot") = "idle"
    BY DEF PhaseFor
  <2> QED BY <1>1, <2>1, <2>2
<1>3. Written = {}
  <2>1. \A k \in DOMAIN Image : Image[k].base_addr \in Bases
    BY DEF Bases
  <2>2. \A k \in DOMAIN Image : flash[Image[k].base_addr] = NULL
    BY <1>1, <2>1
  <2> QED BY <2>2, SectorsAssumption DEF SectorsApart, Written
<1> QED BY <1>1, <1>2, <1>3 DEF Abstract!Init

LEMMA AbstractStep ==
  NodeApart /\ Before /\ After /\ Conversation' /\ [SysNext]_sysVars
    => [Abstract!Next]_(Abstract!vars)
<1> SUFFICES ASSUME NodeApart, Before, After, Conversation', [SysNext]_sysVars
             PROVE  Abstract!Next \/ UNCHANGED Abstract!vars
  OBVIOUS
<1>1. CASE HostStep /\ FsmAction
  BY <1>1, ActionMaps
<1>2. CASE Target
  BY <1>2, TargetMaps
<1>3. CASE ~(HostStep /\ FsmAction) /\ ~Target
  <2>1. UNCHANGED <<current_state, fsm_running, target_mode, flash,
                    current_sector>>
    BY <1>3 DEF SysNext, HostStep, Host, SignalGeneration, EmptyPoll, RunDone,
         DropEvent, MainExit, Sigint, handle_sigint, RxThread, comm_rx_thread,
         TargetRepeats, TargetRestarts, LoseCommand, FrameLeaves, LoseResponse,
         sysVars, vars, fsmVars, ctxVars, cursorVars, targetVars
  <2>2. Written' = Written
    BY <2>1 DEF Written
  <2> QED BY <2>1, <2>2, Unseen
<1> QED BY <1>1, <1>2, <1>3

\* Every behaviour of the host, the link and the target is a firmware update
\* as FirmwareUpdate promises it.
THEOREM UpdateImplements == NodeApart => (SysSpec => ImplementsFirmwareUpdate)
<1> SUFFICES ASSUME NodeApart PROVE SysSpec => ImplementsFirmwareUpdate
  OBVIOUS
<1>1. LinkTyped /\ Phases /\ TypeOK /\ Conversation
        /\ (LinkTyped /\ Phases /\ TypeOK)' /\ Conversation' /\ [SysNext]_sysVars
        => [Abstract!Next]_(Abstract!vars)
  BY AbstractStep DEF Before, After
<1>2. SysSpec => []Conversation
  BY ConversationKept
<1> QED BY <1>1, <1>2, AbstractInit, HostInvariants, PTL
        DEF SysSpec, ImplementsFirmwareUpdate, Abstract!Spec

=============================================================================
