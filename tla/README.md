# Re-BOOT in TLA+

Re-BOOT is a host program that sends an Intel HEX image to a bootloader over a
serial line, TCP, UDP or a USB-CAN adapter. This directory holds TLA+ models of
the program, TLC configurations that check them on small instances, and TLAPS
proofs of the main results for every value of the constants.

Paths below are those of the repository, without the leading `src/`.

## 1. The system

### Components

| Component | State | Operations | Made correct by |
|---|---|---|---|
| Main program, `init/main.c` | flags `app_running`, `comm_thread_running`; context `bootloader_ctx_t` | startup in a fixed order, main loop (poll, then `fsm_run`), SIGINT, exit path | every path ends; nothing is used before it exists or after it is gone |
| RX thread, `comm/comm_manager.c` | one packet on its stack | receive, copy, push; flush after a framing error | packets reach the queue in order, each once |
| Queue, `thread/queues.c` | linked list, size, mutex, condition variable | init, push, try_pop, pop, size, destroy (pop and size have no caller yet) | it is a FIFO that gives each packet to one consumer; no node is lost or used after it is freed; no wake-up is lost |
| Transport, `comm/transport_layer.c` | parser state of each framing, driver type | send, receive (byte parsers, CRC16), flush, open, close | no packet is made up, no clean frame missed, the parser finds back |
| Event engine, `utility/fsm.c` | state, linked list of events, mutex, running flag; a hierarchy of states | create, push, pop, dispatch, run, exit up, enter down | events are handled in order, each to its end; an event the FSM sends to itself is handled; the states entered are the current one and its ancestors |
| Transition table, `init/fsm_table.c` | eight states, eleven rows | | |
| FSM actions, `init/fsm_actions.c` | parameters of the target, sector array, cursor, retries, progress | one action per row, and the mapping from responses to events | sectors are sent whole, verified in order, retried a bounded number of times; the application is started last |
| Pipeline, `utility/pipeline.c` | sector buffers with validity | build, next segment, CRC32 | the buffers are the memory image; segments cover it once |
| HEX file, `utility/file_mgmt.c` | records, lowest and highest address | count lines, read records, parse arguments | records are those of the file, the range holds the image |
| Drivers, log file, memory pool, thread wrappers | descriptors | system calls | not modelled for themselves |
| Target bootloader | sector buffer, flash | answers commands | not in the repository; assumed from the protocol |

### How they interact

Two threads. The RX thread reads bytes, parses them, copies a packet and pushes
it to the queue. The main thread polls the queue, turns a response into an event,
lets the FSM run until its event queue is empty, and in doing so sends frames
through the transport. The threads share the queue (under a mutex), the flag
`comm_thread_running`, and the variable `driver_type`, which `transport_close`
clears under the RX thread.

### What is hard

* An acknowledgement is acted on in whatever state the FSM is in. It may be
  early, repeated or lost, and no message carries a sequence number.
* An event no row matches is freed silently; if the FSM had sent it to itself,
  the update would hang.
* The cursor advances when a segment is cut, not when it has been acknowledged;
  a failed send is noticed only by the sector's CRC.
* The byte parser keeps its state between calls and has to find back after lost,
  changed or added bytes, and after a flush has cut a frame in two.
* Reads block in different ways: 100 ms on serial and UDP, without limit on TCP.
* The exit path closes the transport under a thread that may be reading, joins
  it, and destroys a queue.

PROJECT.json lists the hazards one by one, with their lines and properties.

## 2. Modules

```
 HexFile ── PipelineWalk ────────────────── PipelineWalkProofs  (run pipeline_walk)
                │                                    │
 BlProtocol  Pipeline ───────────────────────── PipelineProofs
      │  │      │                                    │
      │  └── HostFsm ───────────────────────── HostFsmProofs    (runs host_*)
      │         │                                    │
      │         └── UpdateSystem ──▶ FirmwareUpdate ─┴ UpdateProofs   (runs update_*)
      │
      ├── Framing, Crc16 ───────────────────── FramingProofs    (runs framing*)
      │
      └── Lifecycle ── Queues ──▶ Fifo                          (run lifecycle)
                          │
                     QueueClients                               (run queue)

 LinkedLists ── Queues
      │     └── FsmEngine ──▶ RunToCompletion                   (run fsm_engine)
      │             │
      │             └──────────── FsmEngineProofs
      └── LinkedListProofs ──────────┘
                │
           QueueProofs (with QueueClients and Lifecycle)
```

A line joins a module to one it extends, an arrow leads to the abstract specification
it implements. Each run has an `MC` module with its constants and a `.cfg`. The theorems about a
module, and the lemmas they rest on, are in the module of that name with `Proofs`; those
about Queues, QueueClients and Lifecycle share QueueProofs.

**BlProtocol**: the codes and limits of `config/`.

**Pipeline**: `pipeline_build`, `pipeline_next_segment`, `pipeline_sector_crc` as
operators over records and sector buffers, no recursion. The CRC32 is ideal: a
buffer stands for its sum.

**HexFile**: `get_file_size` and `read_hex_file` as a fold over the lines.

**PipelineWalk**: `main` loading a file, then the way `fsm_actions.c` uses the
pipeline: built once, walked segment by segment, a sector advanced or rewound at
its end. The reference definition, the memory image of the *file*, is written
independently of both passes of the code. `ImageAsAssumed` joins this module to the
next ones: what they assume of an image is what the loader and the builder make.

**HostFsm**: the main loop, the table and every action of the FSM. Each action of the
table is one TLA+ action with the code's guards, early returns, sends and dispatches;
`SignalGeneration` is `act_fsm_signal_generation`; `DropEvent` is `fsm_run` freeing an
event without a row. The transport and the image are chosen at the start and never
change. The environment is open: any response at any time. The steps may be that
coarse because only the main thread touches this state, because the engine runs each
event to its end (FsmEngine implements RunToCompletion), and because the RX queue,
which a second thread does touch, is a FIFO (Queues implements Fifo); both are proved.
Where the code
does something undefined (zero sector or segment size, no sector array, a payload
larger than `tx_pkt.data`) the model goes to `pc = "undefined"` and stops: these states
are reached by actions of their own and told of in section 5.

**UpdateSystem**: HostFsm with a target bootloader and a link, both external.
Bounded numbers of lost commands, lost responses, repeated answers, failed flash writes
and target resets. **FirmwareUpdate** is what it implements: sectors confirmed in
order, each only while flash holds it, the application started only with the whole
image.

**Framing**: the bytes. One action per parser state, for both framings, with the
flush of the RX thread and of the startup; the target's frames; damage on a serial
line. The CRC is a parameter. **Crc16** is the code's CRC, bit by bit, with its
check value as an assumption that TLC evaluates.

**LinkedLists**: what the queue and the event engine have in common, a heap of nodes with a
`next` and the list that starts at one of them. The list is a ghost: the code never
sees it, it is what `head`, `tail` and `next` are claimed to describe.

**Queues**: every call of `thread/queues.c`, cut where another thread could see it: the
test of the arguments, taking the mutex, each group of assignments to the list, the
signal and the release, the sleep in `cond_wait` and the way back from it, and the
release of the node after the mutex is gone. The heap is a function from allocated
addresses to nodes, so that a use after `free` or a lost node shows. **Fifo** is what
the calls implement: packets go in and out atomically and in order. **QueueClients**
puts any number of producers and consumers around it, which push, poll, block or ask
for the size, with spurious wake-ups.

**Lifecycle**: both threads from the first line of `main` to the last, with the queue of
Queues between them; every startup failure, with what the driver that failed leaves
behind; SIGINT at any time.

**FsmEngine**: `utility/fsm.c` itself: events in a linked list with a mutex, the
unlocked look at `queue_head`, dispatch from other threads and from handlers in the
middle of a transition, the search of the table, exit and entry handlers along the
hierarchy, `current_state` assigned last. This program's own states have no parents and
no entry or exit handlers; the engine is a library with more callers in mind, and its
hierarchy is checked for them. **RunToCompletion** is what it implements and what
HostFsm assumes.

## 3. The runs

| Run | Shows | Instance and bounds |
|---|---|---|
| `pipeline_walk` | loading and building give the image of the file; the address range holds it; image and sectors are what HostFsm and UpdateSystem assume; a walk covers every programmed byte once, in no more segments than the estimate | all files of up to three lines out of 14 over two pages of four addresses, and four files whose lines are not all records; two sector sizes, two segment sizes, one rewind. Three lines are enough for a record before, across and after a base change, and for two writers of one byte; sizes 2 and 4 with segments of 1 and 3 give exact, short and overlong segments; 180 644 states |
| `host_fsm` | the properties of the host, the inductive invariant of the proofs among them | serial and CAN; an image of two sectors, one sparse and one ending unprogrammed, and an image of empty records; seven target infos (fitting, refused, zero sizes, a segment larger than the packet, one larger than a CAN frame); every response, failing sends, one response and two frames waiting; 314 062 states |
| `update_faulty` | what is confirmed is in flash; commands in flight are one more than the repeats; the update ends unless a frame is lost; UpdateSystem implements FirmwareUpdate | three sectors, two of them with equal content; two lost commands, two lost responses, two repeats, three failed writes, two resets; 211 519 states. Two failed writes are `MAX_RETRY`, so the abort is reached, after a retry that succeeded too |
| `framing` | bounds of the parsers, no packet made up, every clean frame heard, the parser finds back, a flush ends | serial and CAN; four packets, among them one whose payload is the start byte and one that reads as a length; one lost, changed or added byte at any place, five noise values; a buffer of 14 bytes for the 64 of the code, so that a wrong length swallows a whole frame |
| `queue` | the queue is a FIFO; its list is well formed and its nodes are accounted for; the loop of `queue_pop` ends with a node; no wake-up is lost; a consumer asleep beside a packet is woken | two producers, two consumers, three packets, three nodes; 95 392 states. Two consumers may both sleep, and be passed by one that polls |
| `fsm_engine` | no event is lost, freed twice or leaked; parents are entered first and left last; the states entered are the current one and its ancestors; the engine implements RunToCompletion; every event is handled unless the FSM is stopped | five states in two trees, one of three levels, nine rows (to itself, a parent, a sibling, a descendant, the other tree, two rows for one event), two types, three events at a time; 8 691 states |
| `lifecycle` | the queue as main uses it is a FIFO, pushed and polled only while it lives, destroyed when nobody is in a call, and empty of nodes at the end; no port stays open; the exit gets through | all four transports and no known one, three packets (empty, one-element and longer queue), any startup failure, SIGINT anywhere; 23 574 states |
| `host_node_one` | divergence 1 | node 1 |
| `update_empty_acks` | divergence 2 | a target that acknowledges without payload |
| `framing_udp`, `framing_tcp` | divergences 3 and 4 | no damage at all |
| `update_lost_answer` | divergence 5 | one response lost, nothing else |

Deadlock checking is off where the program really stops: a walk ends, the host
exits, a consumer waits for a packet nobody pushes, the FSM is stopped, the model halts
at undefined behaviour. Framing never stops and is checked for deadlock.

Each passing property has a mutant: a definition with a plausible mistake (they
stand in front of the definition they vary, marked "Variation") with which the run
fails.

### Fairness

* UpdateSystem: weak fairness of the host's steps, of the RX thread and of the
  target. The main loop polls without pause, the RX thread reads without pause, a
  bootloader that answers at all answers. Losses, failures, repeats and SIGINT have
  none; `UpdateCompletes` excepts runs in which a frame is lost, since nothing in the
  host recovers from that.
* Framing: weak fairness of reading and flushing, and of the target, which repeats
  its answer when it hears nothing (`comm_manager.c:62` counts on that). Strong
  fairness of the end of a flush: it is enabled whenever the line is silent, and the
  silence a target leaves before a repetition is longer than the 100 ms of a read.
  Damage has none.
* Lifecycle: weak fairness of each thread; strong fairness of taking the mutex,
  which each side holds for a few assignments. None for frames, for the peer or for
  SIGINT.
* QueueClients: a thread that is inside a call goes on, with strong fairness because
  others may take the mutex first, and take it again. None for calling the queue, so
  nobody has to push or poll, and none for spurious wake-ups.
* FsmEngine: weak fairness of the thread of `fsm_run`. None for dispatches, and every
  handler may dispatch.

## 4. What is proved

TLAPS checks the proofs of eight modules, for every value of the constants that meets
the assumptions the modules name:

* Pipeline and PipelineWalk: `AddrSpaceAssumption`, `PageAssumption` and
  `WalkAssumption`: any files of any number of lines in which only the last line may lack
  its newline and an extended address has its two bytes, any address space and page, any
  sector and segment sizes above zero, any number of restarts.
* HostFsm: `CommandLineAssumption`, `ImageAssumption`, `PipelineAssumption`,
  `EnvironmentAssumption`, and `AddrSpaceAssumption` of Pipeline. Every set of images,
  responses and target infos, every driver and every bound is covered.
* UpdateSystem: in addition `SystemAssumption` (one image with data and one target, both
  arbitrary), `SectorsAssumption` (what `pipeline_build` makes: sectors at different aligned
  addresses, each with a programmed byte) and `AnswersAssumption` (the target's answers are
  among the host's responses).
  What `ImageAssumption`, `PipelineAssumption` and `SectorsAssumption` say of images and
  sectors, `AssumptionsMet` proves of every file of which no record reaches the end of the
  address space.
* Queues: `NodesAssumption`, `QueueAssumption` and, with its clients,
  `ClientsAssumption`: any number of threads, packets and nodes. Lifecycle:
  `LifecycleAssumption`, the two threads of the program.
* FsmEngine: `ForestAssumption` and `TableAssumption`: any forest of states no deeper than
  `stack[10]`, any table.
* Framing: `FramingAssumption`: any packets, any CRC of sixteen bits, any noise, any buffer
  a two-byte length can describe.

TLC evaluates each of them in a run. Some theorems have a hypothesis of their own, named
in the table; only that of `NothingOverUdp` is about a size.

| Theorem | Property | Hypothesis |
|---|---|---|
| `PipelineWalkProofs!RangeHolds` | `RangeHoldsImage` | |
| `PipelineWalkProofs!BuildMatches` | `BuildMatchesImage` | |
| `PipelineWalkProofs!AssumptionsMet` | `ImageAsAssumed` | |
| `PipelineWalkProofs!SegmentsCover` | `SegmentsCoverSector` | |
| `PipelineWalkProofs!SegmentsWithin` | `SegmentsWithinEstimate` | |
| `HostFsmProofs!EventsHandled` | `InternalEventsHandled` | |
| `HostFsmProofs!TypeCorrect` | `TypeOK` | |
| `HostFsmProofs!UpdatePhases` | `Phases`, the inductive invariant | |
| `HostFsmProofs!VerifiedWhenSent` | `VerifyAfterWalk` | |
| `HostFsmProofs!StartComesLast` | `StartAfterAllSectors` | |
| `HostFsmProofs!RetriesBounded` | `AttemptsBounded` | |
| `HostFsmProofs!SectorsStartAtZero` | `SectorStartsAtZero`, a part of `Phases` and so in no run of its own | |
| `HostFsmProofs!Quiet` | `StoppedIsQuiet` | |
| `HostFsmProofs!FramesAreFirmware` | `DataFramesSound` | `ResetIsNoData`: not node 1 |
| `HostFsmProofs!NothingSkipped` | `NoValidByteSkipped` | |
| `HostFsmProofs!ProgressBounded` | `ProgressWithinTotal` | |
| `UpdateProofs!OneCommandAtATime` | `StopAndWait` | |
| `UpdateProofs!ConversationKept` | `Conversation`, the inductive invariant | `NodeApart` |
| `UpdateProofs!ConfirmedStays` | `ConfirmedIsFlashed` | `NodeApart` |
| `UpdateProofs!StartedComplete` | `StartedIsComplete` | `NodeApart` |
| `UpdateProofs!UpdateImplements` | `ImplementsFirmwareUpdate` | `NodeApart` |
| `FramingProofs!BufferNeverOverrun` | `TypeOK` | |
| `FramingProofs!CleanFramesReturned` | `CleanFrameHeard` | `NoDatagrams`: not UDP |
| `FramingProofs!UndamagedWasSent` | `HeardWasSent` | `NoDatagrams`, `NoDamage` |
| `FramingProofs!NothingOverUdp` | no packet is returned: divergence 3 | UDP alone; a buffer of less than 14 906 bytes (the code's has 64) |
| `QueueProofs!WakeupInvariant` | `WakeupInv`, the inductive invariant | |
| `QueueProofs!NoWakeupLost` | `NoLostWakeup` | |
| `QueueProofs!QueueInvariant` | `QueueInv`, the inductive invariant of the list | |
| `QueueProofs!ListKept` | `QueueWellFormed` | |
| `QueueProofs!NodeFound` | `PopFindsNode` | |
| `QueueProofs!FifoImplemented` | `ImplementsFifo` | |
| `QueueProofs!LifecycleInvariant` | `LifecycleInv`, the inductive invariant | |
| `QueueProofs!CallsAreAlive` | `CallsWhileAlive` | |
| `QueueProofs!NothingLeaks` | `NodesFreed` | |
| `QueueProofs!PortIsClosed` | `PortClosed` | |
| `QueueProofs!ReceiveQueueIsFifo` | `ImplementsFifo` | |
| `FsmEngineProofs!EngineInvariant` | `EngineInv`, the inductive invariant | |
| `FsmEngineProofs!NoEventLost` | `EventsAccounted` | |
| `FsmEngineProofs!ParentsFirst` | `ParentsEnteredFirst` | |
| `FsmEngineProofs!EntriesBalance` | `EnteredIsCurrent` | |
| `FsmEngineProofs!RunsToCompletion` | `ImplementsRunToCompletion` | |

`NodeApart` says that the node number makes the reset request and the target info no
other code. It holds for node 2, fails for nodes 1 and 3, and is needed: divergence 1 and
the collision of node 3 in section 5 are what happens without it.

### The image

`read_hex_file`, `insert_record` and `pipeline_build` are loops, folds in the model. What a fold returns is a statement by induction, and the library's induction
theorems cannot be instantiated here. `FoldExists` takes their place: it shows, from the
smallest number of turns for which there would be none, that the recursion behind a fold
has a solution, a function `iter` from the positions done to the value of the loop variable.
`Turns` puts the positions in order, and from then on a loop has an invariant like any
other: it holds of `iter[{}]`, and from `iter[1 .. i - 1]` to `iter[1 .. i]`; the smallest `i`
where it does not is the contradiction.

* Reading: `ReadSoFar` says what is known after `j` lines. The base is that of the last
  extended address among them (`BaseBefore`, the reference's own choice), the two ends of
  the range enclose every data line (`RangeOf`), and the records come from increasing lines,
  none of which is left out (`MadeFrom`).
* Building: a memory, a value or `Blank` for every address, is what the sectors stand for
  (`Placed`: each sector is a window on it, and every address that is not blank has one).
  A byte inserted changes one address (`InsertByte`), hence a record changes the
  addresses it covers, hence the last of the records that cover an address decides
  (`Upto`). Composed with `MadeFrom` the last record is the last line.
* Walking: `Pass` says of the offset reached that every programmed byte before it lies in a
  segment, that segments follow each other, and that all but the last of them take the full
  segment size. `SegmentsWithinEstimate` is not inductive without that last part, since a
  segment cut short at the sector's end counts like a whole one; nor is
  `SegmentsCoverSector` without the bytes before the offset, since it speaks of the end of a
  pass only.

`PipelineProofs` holds what is said of Pipeline's operators alone. HostFsmProofs uses it
too: the host's lemmas about offsets and lengths are those of `pipeline_next_segment`.

### The host

1. `EventDiscipline` is inductive by itself. It says what the event queue may hold
   in each state: nothing in the poll but the very first `EVT_START`, one event in a
   run, two only when a response has joined that first one; an event of the FSM
   itself is at the head and has a row. None of the properties is inductive without
   it: an action's dispatch is handled only because the queue was empty otherwise.
2. `Phases` adds what the context holds before the pipeline is built, while sectors
   are sent, and after a confirmation: the segment size is not zero once the
   pipeline is built, the cursor lies in the sector array and the sector, the retry
   counter is below its limit, the offset is zero where a transmission begins. It
   rests on lemmas about the offsets and lengths `pipeline_next_segment` returns. TLC
   checks it too, in `host_fsm`.
3. `WalkEnded` (for `VerifyAfterWalk`) and `FramesTyped` (for `TypeOK`) are
   inductive relative to `Phases`.
4. `AcceptedBeforeUse` says that what `act_target_info` has tested (the image lies at or
   above the application's start, a segment fits a CAN frame) is still true of the
   context while segments are sent. With it a segment that is cut out of a sector is
   a piece of the image (`SegmentSound`), `transport_send` does not shorten it
   (`NotCut`), and it carries what the cursor passes (`SegmentCarries`).
5. `ProgressRule` relates three counters that the code changes in different actions. Up
   to the offset only whole segments have been counted, and one shorter one only at
   the end of a sector (`WholeOrLast`); so a sector never counts for more than the
   estimate (`Estimate`), and what a rejected sector gives back is at least what it
   took. That a failed send is not counted makes an inequality of it.

### The update

No message has a sequence number, so only the order of the link tells which command an
answer belongs to. `Heard` is everything the target has said and the host has not acted on:
the RX queue, then the link, then the answer the target may still repeat. In each state
of the FSM `Conversation` says which kinds of answers `Heard` may contain and in which order:

* `Connecting`: only target infos, and while one is on its way the reset has been answered.
* `BetweenSectors`: only what belongs to earlier transmissions, and nothing asked.
* `Sending`: leftovers first, then acknowledgements of this sector's segments; the frames
  on their way and the target's buffer are this sector's. When the event that an
  acknowledgement has become is pending, the leftovers are gone, which is why the sector
  cannot be put up for verification by an old verdict.
* `Verifying`: acknowledgements first, then verdicts; a positive verdict in `Heard`
  already implies that the sector is in flash.
* `Starting`, `Stopped`, `Flashed`: the start is acknowledged only by the application; where
  the host may have stopped; the two properties themselves.

`ConfirmedIsFlashed` alone is not inductive: the positive verdict comes long after the
write, with losses, repeats, failed writes and resets of the target between them. The
refinement of FirmwareUpdate follows from the invariant: the host's confirmation is the
abstract one because `Verifying` puts the sector in flash first. `StopAndWait` needs no
`NodeApart`: an action answers each event with at most one command, whatever the event
was taken for.

### The bytes

Host and target share no counter, so the invariant computes one: from the number of bytes
of a frame still on the line it follows in which state the parser is and what it has
kept (`SerialAt`, `CanAt`: the command, the high byte of the length, the data up to here, the
high byte of the CRC). `InFrame` says that this is so for some number; a byte that arrives
in order takes it one further, and the last one makes the parser return the packet
(`ReadInFrame`). A frame sent to an idle parser starts there, and nothing but damage
takes it away. `CleanFramesReturned` allows any number of faults before that frame.
`UndamagedWasSent` shows the other direction where nothing is damaged; on a damaged line
`HeardWasSent` depends on which damaged frames have a matching CRC, so that no theorem
for every CRC exists, and the run checks it for the code's.

`NothingOverUdp` is the reverse, for divergence 3: of each datagram the parser sees the first
byte, a start byte; three of them are a start, a command and the high byte of a length that
no buffer of the code holds (`FirstBytesOnly`). Over TCP the startup's flush blocks
(divergence 4), so that there the first two theorems speak of a reader that never gets to its
first frame.

### The lists

What `Queues` and `FsmEngine` call their list is a walk along `next`, and what it returns
is a statement by induction over its length. `LinkedListProofs!ChainIs` proves it by taking
the first place where the walk and the list differ. Thereafter a sequence `s` of nodes stands
for the list: `Linked(heap, head, s)` says that `next` joins its elements and ends.

For the queue the invariant is about a list that is being changed: in each critical section
it says by how much `head`, `tail`, `size` and `s` are ahead of each other (`Bounded`), that
each allocated node is in `s` or in the hands of exactly one thread (`Owned`), and that one
in hand is not linked (`Unlinked`). `MutexDiscipline` is needed for all of it: the steps between
taking and releasing the mutex are taken by its owner. A push and a pop take effect in
Fifo when they release the mutex, so that the abstract queue is constant in the
middle of a critical section.

`WakeupInv`: while a consumer sleeps there are no more packets than consumers woken plus
the one inside. This alone is not inductive: a consumer that polls takes a packet a
woken one was meant for, one that was woken may find the list empty and sleep again, and only
the mutex keeps the two from counting the same packet.

`LifecycleInv` puts the list into the program's two threads: in which call each may be at
each stage of `main` (`CallsOf`), what is alive then (`Stages`), what the RX thread has in
hand (`PacketInHand`) and who has the port open (`PortOwned`). The queue is destroyed after the
join, and at that stage the RX thread is in no call: that is `CallsWhileAlive`. It is about
pushes and polls, and about the destruction of a queue the two threads have shared. That
an exit before `queue_init` destroys a queue too is in `Stages` (`life` may be `"raw"` at
`main = "destroy"`, with no RX thread), so no theorem excludes it; section 5 tells of it.

### The event engine

`EngineInv` has four parts. `Control` ties the place in `fsm_run` to what is in hand.
`RowFits`: the row in hand is the first that fits, although handlers dispatch events between
its search and its use. `ListInv` is the list, which any thread may lengthen at any time.
`Entries` says that exactly one state and its ancestors are entered, and names that state
at each place: the current one, the cursor of `fsm_exit_up_to`, or the foot of what
`fsm_enter_down_from` has left on its stack. `EnteredIsCurrent` mentions only the first, which
is why it is not inductive. What it needs of the forest (a path up ends, there are no cycles, the
stack holds the path down without a gap) is proved by induction over the depth that
`ForestAssumption` gives (`TreeInduction`). An event takes effect in RunToCompletion when it is
released; by `RowFits` the row is still the one the abstract machine chooses then.

### Only model-checked

* All liveness: fairness and ENABLED are out of the prover's reach.
* `HeardWasSent` on a damaged line, for the reason given above.

## 5. Where the code and its documents disagree

Shown by a run:

1. `fsm_actions.c:187` compares a command with `RESP_TARGET_INFO + node` before it
   looks at the other codes. For node 1 that is `RESP_SEG_ACK`: every acknowledgement
   becomes `EVT_TARGET_INFO` and the transfer never advances (2, 3, 4 and 7 collide
   with other answers). The README's examples use `-n 1`.
2. `comm_rx_thread` queues a packet only when `transport_receive` returns more than
   0. The README's response table gives every acknowledgement the payload "None": such
   an acknowledgement is received and dropped.
3. Over UDP each one-byte `recvfrom` discards the rest of its datagram, so no packet
   is ever complete.
4. Over TCP `transport_flush` blocks in `recv`, at startup before the first command
   and after every framing error.
5. `comm_manager.c:153` says that after a response with a bad CRC the host "will time
   out and resend its last command if needed" (`:130` too). Nothing in the host is timed:
   once a response is lost the update waits for good. RELEASE_v1.0.0.md lists this as a
   limitation.

Met while modelling, without a run of their own:

* The reset request is `CMD_RESET_REQ + node_id` (`fsm_actions.c:251`): for node 1 that is
  `CMD_PIPELINE_DATA`, for node 3 `CMD_PIPELINE_VERIFY`, for node 4 `CMD_START_APP`. The
  README's "node 3 sends command byte 0x13. This allows multiple nodes to share the same
  bus" overlooks it; `FramesAreFirmware` has to leave node 1 out.
* "Stop-and-wait" holds only while no answer is repeated: there is no sequence number,
  and one repeated `RESP_SEG_ACK` keeps two segments on their way for the rest of the
  sector; the next repeat adds another (`StopAndWait`). `update_faulty` shows that what is
  confirmed is in flash all the same.
* A target that reports segments of more than 60 bytes outside CAN makes
  `act_send_window` copy past `tx_pkt.data` (`fsm_actions.c:551`).
* `act_target_info` takes an image for empty when `hex_end_address <=
  hex_base_address`; data records without a byte pass, and the walk reads a NULL
  sector array.
* Every early `goto exit` joins a thread that was never created, which is undefined
  (`Lifecycle!JoinNoThread` takes both outcomes: the process dies of it, or goes on).
* `queues.h:104` says of `queue_init` "Must be called before using the queue". Every exit
  before `main.c:165` (wrong arguments, a port or log file that does not open, an empty
  HEX file, no memory) reaches `queue_destroy` at `main.c:244` all the same, which
  destroys a mutex and a condition variable nobody has initialised. That is undefined
  (`Lifecycle!DestroyRawQueue` and `DestroyQueue` are the outcomes). No node is lost by it,
  since the queue is static and all zero. `CallsWhileAlive` is about pushes and polls and
  about a queue the RX thread was created for, and does not forbid it.
* `main.c:234` closes the port before the join "so any blocked read()/recv() in the comm
  thread returns immediately", since "on Raspberry Pi UART the VTIME timeout is unreliable".
  Closing a descriptor does not wake a read that another thread has under way. In Lifecycle
  (`ReadReturns`) a serial read ends by VTIME, as the driver sets it, and the close reaches
  only the reads that begin after it. `ExitCompletes` rests on that: on a port that ignores
  VTIME the join could wait for the next byte. Over TCP it is about a peer that has hung up,
  because the flush at startup gets no further otherwise (divergence 4).
* `queue_push` does not look at the result of its `malloc`; the RX thread does look
  at its own.
* `get_file_size` counts newlines and `read_hex_file` lines that begin with `:`. A file
  whose last line has no newline is stored one record past the pool; other lines leave
  records that were never written (`LoadMismatch` ends the model).
* A line of more than 259 characters (more than 124 data bytes) is split by `fgets`,
  although `hex_record_t` has room for 255 bytes.
* `-t` is parsed and not used; the release notes and the README's table of settings call
  `MAX_RETRY` retransmissions, the README's section on retries attempts. The code allows
  `MAX_RETRY` transmissions. `QSIZE`, "FSM internal event queue depth", is used nowhere.
* The README calls the receive queue lock-free; it is a list under a mutex.
* `fsm.c:316` says "Find common ancestor", but the exit target is looked for from the target
  upward until it is the *current state*. A move to a sibling or to a parent therefore
  leaves the common ancestor too and enters it again; rows of a parent do not apply in
  its children; `fsm_init` runs the entry handler of the initial state only, not of its
  parents. `EnteredIsCurrent` holds all the same, for an initial state without a parent.
  `fsm_enter_down_from` collects the path in `stack[10]` without a test
  (`ForestAssumption` bounds the depth).
* `fsm_event_create` may return NULL; `fsm_dispatch` ignores it, so that an event of the FSM
  itself is lost, and `act_fsm_signal_generation` writes through it. `act_target_info`
  frees the copy of the packet that comes with `EVT_TARGET_INFO` (`fsm_actions.c:190`);
  `fsm_event_free` does not, so that the copy is lost when the event is dropped without a
  row, as that of a repeated target info is.
* `drv_udp_open` closes its socket when the address makes no sense, and `transport_close`
  closes the same number again; other failing opens leave the closing to
  `transport_close`. `drv_udp_rx` writes the peer's address into the context `drv_udp_tx`
  reads in the other thread.
* `drv_serial_tx` and `drv_tcp_tx` may write less than they are given; `transport_send`
  takes any positive result for success.
* `queue_destroy` frees the nodes and not the packets.

## 6. Abstractions and their reasons

* The image does not reach the end of the 32-bit address space, where
  `hex_end_address` would wrap; `pipeline_walk` covers the wrap of single records.
* The CRC32 is ideal and the link keeps the order of frames. A write that is cut
  short, or a send that fails, counts as a lost command in UpdateSystem, and a failed
  `malloc` in the RX thread as a lost response. HostFsm has failing sends of its own.
* Memory suffices for the events and the nodes of HostFsm. FsmEngine takes an event that
  cannot be allocated for a handler that dispatches none; in Lifecycle a node that cannot be
  allocated ends the process.
* Node 2 in the runs, where no code collides, except in `host_node_one`.
* The sector arrays of the `update_*` runs are written out, and an assumption checks
  that they are what `pipeline_build` makes. What the proofs need of such arrays holds of
  every array it makes (`AssumptionsMet`).
* Framing: a damaged frame whose CRC matches by accident does not occur with the
  packets and noise of the run. A payload that embeds the header of a false frame can
  keep the parser out of step for as long as the target repeats that very payload;
  the packets of the run have start bytes and lengths in them, not a complete header.
* FsmEngine: pushing an event is one step although it has a critical section, because
  the only access without the mutex reads `queue_head` once. In Queues `size` and the list
  are written apart, since `queue_pop` sleeps between a test and the access.

## 7. Not modelled

* The drivers, the log file, the memory pool: system calls, one line each. Which read
  blocks, what a datagram read leaves and what a failed open leaves behind are in Framing
  and Lifecycle.
* Of the thread wrappers, detaching, sleeping, yielding and broadcasting, which have no
  caller.
* Parsing of the command line, of the interface's name and of hexadecimal digits; HEX
  checksums (the code never compares them); lines that do not fit the buffer.
* Console and log output; Windows.
* `act_seg_ack`: no row names it.
* `docs/`: the pages, and the JavaScript of their search and navigation, are Doxygen's
  output and no part of this program. Nearly all JavaScript of the repository is there;
  the program itself is in C.

## 8. Plan

The modules stand. What is left:

* Model: the command line and the choice of the transport by name; one system of Framing
  and UpdateSystem, in which a damaged byte costs a frame.
* Divergences that deserve a run: the join of a thread that was never created, the
  destruction of a queue that was never initialised, a file without a final newline, the
  collision of node 3 on the command side.
* Proofs: all safety properties and refinements the passing runs check are theorems, with
  the one exception of section 4. What the theorems still take from a run is the evaluation of
  the assumptions on the small instances, and that the code's CRC has sixteen bits
  (`FramingAssumption`).
