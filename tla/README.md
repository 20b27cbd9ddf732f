# TLA+ models of ns-3 with the mmWave module

This directory holds TLA+ specifications of the parts of this ns-3 repository
whose correctness depends on the order of events, threads or messages, the TLC
configurations that check them on small instances, and proofs checked by TLAPS.
Definitions keep the names of the C++ members and functions they model;
`PROJECT.json` maps every one of them to its lines.

Covered are the discrete-event engine in `src/core/model`, on which everything
else in ns-3 runs, its two MPI-parallel versions in `src/mpi/model`, and two
protocols of the radio stack: the LTE RLC and the HARQ of the mmWave MAC.

## 1. The system

ns-3 is a library for discrete-event network simulation. A *model* (a protocol,
a device, a channel) never runs by itself: it is code in *events*, each entered
into the simulator for a time and called by `Simulator::Run` when that time
comes. The mmWave module adds a 5G stack (PHY, MAC with HARQ, a scheduler, and
an LTE-derived RLC/PDCP/RRC with dual connectivity).

| Component | State it keeps | Operations | Interacts with |
|---|---|---|---|
| `Simulator` facade | the `SimulatorImpl` in use | Schedule*, Cancel, Remove, IsExpired, Stop, Run, Destroy, Now | calls the implementation |
| `DefaultSimulatorImpl` | event list, current time stamp and uid, uid counter, stop flag, destroy list, hand-over list with its flag | the same, plus ProcessOneEvent and ProcessEventsWithContext | calls events, which call it back; other threads hand events over under a mutex |
| Event lists (`MapScheduler`, `HeapScheduler`, `ListScheduler`, `CalendarScheduler`, `PriorityQueueScheduler`) | the pending events in a container of their own | Insert, IsEmpty, PeekNext, RemoveNext, Remove | called by the simulators only |
| `RealtimeSimulatorImpl` with `WallClockSynchronizer` | as above, plus running flag, origin of real time, wait condition, mutexes | as above, plus ScheduleRealtime* and Synchronize, Signal | worker threads insert directly and signal the sleeping main thread; the wall clock |
| `Timer`, `Watchdog`, `TrickleTimer` | event id, policy, time left; latest end | Schedule, Cancel, Remove, Suspend, Resume, destructor; Ping, Expire | events of the simulator |
| MPI simulators | granted time or per-link guarantees, counts of messages sent and received | Run, CalculateLookAhead, SendPacket, null messages | other ranks |
| LTE RLC (TM, UM, AM) | windows, buffers, timers | TransmitPdcpPdu, NotifyTxOpportunity, ReceivePdu, timer expiries | MAC below, PDCP above, loss on the way |
| mmWave HARQ and MAC | status, timer and DCI of each HARQ process; transport blocks kept for retransmission; feedback put off | new block, retransmission, feedback, timeout | PHY, scheduler, RLC |
| Dual-connectivity RRC, X2, MC-PDCP | UE state machines, bearers, forwarding buffers | connection set-up, handover, switch between LTE and mmWave | UE, two eNBs, coordinator, lossy and delayed X2 |
| PHY, channel, propagation, mobility | numerical state | numerical functions | out of the reach of a model checker |
| Internet stack, Wi-Fi, routing, CSMA, traffic control, ... | upstream protocol models | - | - |
| Object system, attributes, tracing, statistics, bindings | configuration data | - | - |

Hard behaviours of the parts modelled: worker threads that enter events
between any two steps of the main thread; a flag read outside the mutex that
guards it; expiry decided from the clock alone; user code that schedules,
cancels, removes and stops inside the events; a sleep with a timeout that races
a signal; event lists that keep search positions across removals; objects
destroyed while their events are pending; PDUs that are lost, overtake one
another, or come whole and in segments; timers that race the answers they wait
for; sequence numbers that wrap; packets in flight while ranks agree on a window;
ranks that wait for one another; feedback that comes twice, late or never.
`PROJECT.json` lists each one at its line under `hazards`, with the properties
aimed at it.

What makes each component correct:

- simulator: events fire in time order, FIFO at equal times, at most once, never
  after Cancel or Remove; each call enters one event, and a batch from other
  threads exactly what they handed over; the clock never runs back; `IsExpired` tells the truth about the event list; Run ends;
- event list: it is an ordered set, whatever its representation;
- realtime simulator: no event early, a due event eventually, no wake-up lost;
- timers: the function is called exactly when asked for, and not after Suspend,
  Cancel or destruction;
- RLC AM: a reliable first-in first-out channel over a lossy MAC, without
  deadlock of its timers; RLC UM: whole SDUs, in order and at most once, none
  lost that is merely overtaken, none stranded;
- MPI simulators: every rank processes its events, the packets of others
  included, in the order a sequential simulator would; guarantees are kept; Run
  returns on every rank;
- HARQ: a free process for every new block, no answer taken for that to another
  block, no process leaked.

## 2. Modules and how they correspond to the code

| Module | Models | Role |
|---|---|---|
| `EventKeys` | `scheduler.h` | the order of event keys, used by all |
| `Scheduler` | `scheduler.h`, `map-scheduler.cc` | what an event list promises; the map is exactly that |
| `HeapScheduler`, `ListScheduler`, `CalendarScheduler` | the event lists of the same names | their operations, on values |
| `EventLists` | `SetScheduler` and the calls of `scheduler.h` | the list in use and its change; shown to implement `Scheduler` |
| `EventAgenda` | `simulator.h` | what the simulator promises models: abstract specification |
| `DefaultSimulatorImpl` | `default-simulator-impl.cc`, `event-id.cc`, `event-impl.cc`, `simulator.cc` | shown to implement `EventAgenda` |
| `RealtimeSimulatorImpl` | `realtime-simulator-impl.cc`, `synchronizer.cc`, `wall-clock-synchronizer.cc` | main thread, workers and wall clock |
| `Timer`, `Watchdog`, `Timers` | `timer.cc`, `watchdog.cc` | clients of the simulator, and both of them together |
| `RlcChannel` | `lte-rlc.cc`, the service of `lte-rlc-am.cc` | what an acknowledged mode bearer promises: abstract specification |
| `RlcReassembly` | `lte-rlc-sequence-number.h`, `ReassembleAndDeliver` of both modes | sequence numbers, segmentation and reassembly, on values |
| `RlcAm` | `lte-rlc-am.cc` | both entities and the MAC between them; shown to implement `RlcChannel` |
| `RlcUm` | `lte-rlc-um.cc` | both entities and the MAC between them |
| `SequentialOrder` | `default-simulator-impl.cc` | what a parallel simulator promises: abstract specification |
| `RankEvents` | `src/mpi/model` | channels and event lists of the ranks, used by both parallel simulators |
| `DistributedSimulatorImpl` | `distributed-simulator-impl.cc`, `granted-time-window-mpi-interface.cc` | all ranks; shown to implement `SequentialOrder` |
| `NullMessageSimulatorImpl` | `null-message-simulator-impl.cc`, `null-message-mpi-interface.cc`, `remote-channel-bundle*.cc` | all ranks; shown to implement `SequentialOrder` |
| `DistributedSimulatorMC`, `NullMessageMC` | - | topologies for TLC |
| `MmWaveHarq` | `mmwave-flex-tti-mac-scheduler.cc`, `mmwave-enb-mac.cc`, `mmwave-ue-mac.cc`, `mmwave-spectrum-phy.cc` | HARQ of one user and direction |
| `CommonLemmas` | - | lemmas about sequences, lists, sums, minima and event keys that several proofs use |
| `DefaultSimulatorProofs`, `RealtimeSimulatorProofs`, `RlcUmProofs`, `RlcAmProofs`, `DistributedSimulatorProofs`, `NullMessageProofs` | - | theorems about the module each is named after |
| `TimeoutProofs` | - | theorems about what waits for a time: `Timers` and `MmWaveHarq` |

Composition: `DefaultSimulatorImpl` and `RealtimeSimulatorImpl` hold the
*abstract* event list (a set, from which `Earliest` is taken); the concrete
lists are shown separately, in `EventLists`, to refine `Scheduler`, whose client contract (next
uid, time stamp not before the last event removed, Remove only of what is there)
is in turn what `ListAheadOfClock` and `ExpiredIffNotPending` say of the
simulators. `Timer` and `Watchdog` run on what `EventAgenda` promises, cut down
to their own events; `Timers` runs one of each side by side. `RlcAm` and `RlcUm`
compose a sending with a receiving entity through the MAC, and share
`RlcReassembly`. The MPI modules compose ranks through MPI's messages and
collective operations, which are external and modelled from how they are used.

**DefaultSimulatorImpl.** The variables are the members. `pc` is where the main
thread is; user code runs outside Run and Destroy and inside the events
(`InUserCode`), where it may make any sequence of calls before it returns
(`HandlerReturns`). `ProcessOneEvent` is the code up to `Invoke`, which, for a
cancelled event, returns at once and, for the event of `Stop(delay)`, is
`Simulator::Stop`. The hand-over is split where a thread can come in: the flag
is read without the mutex, the swap happens under it. The flag read is a data
race; the reader may see the old value, which is why `ProcessEventsWithContext`
may pass over a list that is not empty (`PassOver`). Once swapped, the events
belong to the main thread alone, so swap and insertion are one step. An event
is its key (`ts`, `uid`) with two fields the code does not have: `ord`, its
place in the order of insertion, and `stop`. History variables are `ord`, `ids`
and `invoked`.

**RealtimeSimulatorImpl.** The mutex sections are single steps, the waits are
not: Synchronize is entered, sleeps and spins in steps of its own, between which
workers insert and signal and `Tick` moves the wall clock. `SleepWait` returns
the value of the condition at its end; `DoSynchronize` treats that as the code
does. `m_condition` has no initial value in the code: `Init` allows both.
`TimeStepToNanosecond` and `NanosecondToTimeStep` are integer divisions.

**Event lists.** A list is a value and its operations are operators on it, in
the module named after its class; `EventLists` has the list in use as its state
and dispatches the calls of the interface to it, as the virtual functions of
`Scheduler` do. `SetScheduler` moves the pending events, in whatever order the
old list gives them, into a new list. The heap is the vector without its dummy; `BottomUp` and
`TopDown` are recursive operators. The calendar keeps buckets as sequences in
both orders the code supports (`Reverse`), the sample-based width and the
resizes included. The search over a year of buckets is written as the first day
with an event due, with the direct search as the fallback.

**Timer, Watchdog.** One timer, its calls in any order, and the simulated clock.
A call the code answers with NS_FATAL_ERROR (Schedule of a running timer, Suspend
of one that is not, destruction of a running timer under CHECK_ON_DESTROY) ends
the program and is not an action.

**RLC.** An SDU is a number cut into `SduUnits` units, the smallest pieces a
transmission opportunity can take; headers, tags and byte counts disappear into
them. `txon`, `txed`, `retx`, `retxSeg` and `rxon` are the buffers of
`LteRlcAm`, `vr` the receiving state variables. Each entry point is one action:
`DoTransmitPdcpPdu`, `DoNotifyTxOpportunity` (with its branches: STATUS PDU,
retransmission, new PDU, nothing), `DoReceivePdu` for data and for STATUS PDUs,
and the expiry of each timer. The MAC is external: `report` and `status.report`
say that it was told of something to send, an opportunity of any size in
`Grants` may follow; PDUs on their way may be lost, and one HARQ process may
hold a PDU up until the next one has passed. A sequence number is its value, and
comparisons are distances from the modulus base, as in `SequenceNumber10`.
The two directions of a bearer differ in nothing but the peer, so one is
modelled, with the STATUS PDUs that go back.

**MPI simulators.** A rank's event list is the sequence in which its events will
be processed. `pc` is where `Run` of a rank is; a handler (`"handler"`) may
schedule and send as often as the bound allows before it returns. In the granted
time window simulator a round of synchronisation is three steps: receiving what
has arrived (`ReceiveMessage`, any number), entering the all-gather with the
rank's counts (`Contribute`), and leaving it together (`Allgather`). In the null
message simulator a channel is a queue of messages with their guarantees;
cancelled null message events stay in the list, as in the code, and a device is
busy until its transmission has ended, so that two packets on one channel are
ordered.

**HARQ.** `SchedTrigger` is one slot at the eNB: the feedback received is handed
over, timers are refreshed, feedback is walked over (release, retransmission,
put off, dropped when no symbol is left), and a new block may take the first free
process. `EndRxData` is the receiver's decision on one block and its feedback,
which for the downlink is sent twice. Blocks are numbers; what other users leave
of a slot is any number in `FreeSymbols`.

## 3. What is model-checked

| Run | Question | Result |
|---|---|---|
| `default_simulator` | With user code in every event and a worker at every step: do list, flags, counters and ids stay consistent, is the agenda implemented, does Run return, and does every event get its turn? | holds |
| `event_lists` | Are heap, list and calendar, and a change between them with events pending, the ordered set? (heap: until an event is removed from its middle) Does every call, Remove of any pending event included, put in or take out exactly its event? | holds |
| `heap_scheduler_order` | ... and does the heap return the earliest event after Remove? | **violated** |
| `realtime_simulator` | With other threads inserting and stopping, and the clock moving, at every step: no event early, none in the past, no wake-up lost; is a due event taken, does Stop end Run whatever wait the main thread is in? | holds |
| `timers` | One event per timer, fired after exactly the running time asked for; a watchdog triggers exactly at the latest end its Pings asked for | holds |
| `rlc_am` | Is acknowledged mode a reliable FIFO channel, is nothing let go before the peer has it, do its buffers, timers and states fit together, and does everything accepted arrive? | holds |
| `rlc_um` | Are SDUs handed up whole, in order and at most once, is nothing lost that is only overtaken, nothing stranded in either buffer? | holds |
| `distributed_simulator` | Granted time windows over three ranks: sequential order, nothing left behind, all return? | holds |
| `null_message` | Null messages over three ranks: guarantees, sequential order, all return? | holds |
| `null_message_handler` | ... and if a handler sends over parallel channels? | **violated** |
| `mmwave_harq` | Always a free process, no answer taken for that to another block, every process released? | holds |
| `mmwave_harq_feedback` | Is a block answered once? | **violated** |

The violated runs state what a comment or the documentation of the repository
says and show a behaviour of the code that differs; `findings` in
`PROJECT.json` quotes both sides. In short:

1. `HeapScheduler::Remove` only sifts down. When the last element comes from
   another subtree and is earlier than its new parent, the heap order is lost
   and events come out of order.
2. `NullMessageMpiInterface::SendPacket` computes the guarantee of a packet while
   the handler that sends it still runs. A second packet from the same handler
   over a parallel channel of smaller delay arrives before that guarantee.
3. `MmWaveSpectrumPhy::EndRxData` answers a downlink block twice, so one NACK
   takes two retransmissions and the second answer may meet the next block.

### Configurations outside the list of runs

These end in the violation of their property and can be run by hand
(`tlc -config X.cfg M`). They document the limits of what the runs above show.

| Configuration (module) | Property | What happens |
|---|---|---|
| `DefaultSimulatorUidWrap` (`DefaultSimulatorImpl`) | `FifoAmongEqualTimes` | `m_uid` is 32 bits wide; when it wraps, the FIFO order of `simulator.h` is lost |
| `DefaultSimulatorStopTime` (`DefaultSimulatorImpl`) | `NoEventAtStopTime` | `Stop(delay)` is an event like any other: what was entered before it for the same time still runs, although `simulator.h` says it does not |
| `RealtimeSimulatorRerun` (`RealtimeSimulatorImpl`) | `ListAheadOfClock` | `DoSetOrigin` ignores the simulation time, so a second Run starts real time at zero again and worker events land before the current time |
| `TimerCheckPolicy` (`Timer`) | `SuspendedIsQuiet` | `Suspend` under the default CHECK_ON_DESTROY leaves the event in the list |
| `TimerResume` (`Timer`) | `DestroyedIsQuiet` | `Resume` overwrites a pending event that Schedule put there while the timer was suspended |
| `MmWaveHarqDefaults` (`MmWaveHarq`) | `AlwaysAFreeProcess` | a timeout of as many slots as there are processes, as the defaults have it, leaves no process free when no answer comes |
| `RlcAmStall` (`RlcAm`) | `NeverWaitsForSdu` | t-PollRetransmit expires while a PDU is to be sent again, so nothing is moved (`lte-rlc-am.cc:2940`); a STATUS PDU acknowledges that PDU, and with others not acknowledged nothing polls until the layer above hands in an SDU |
| `RlcAmSegments` (`RlcAm`) | `WholePduIsPlaced` | a whole PDU is thrown away if segments of it came before |
| `RlcAmStatusOvertakes` (`RlcAm`) | `AckedIsReceived` | a STATUS PDU that was overtaken by a newer one acknowledges numbers of the next window |
| `RlcUmWrap` (`RlcUm`) | `NothingOutsideWindow` | after the sequence number wraps, PDUs outside the window stay in the buffer: the map is walked in key order, and the number VR(UR) is looked for with does not wrap |

Smaller observations made while modelling, for which there is no
configuration:

- `SleepWait` returns true when it was signalled and false at its timeout, the
  opposite of its comment (the caller survives, because a false result only makes
  it compute the wait again); with an empty list the realtime Run waits on a
  condition that is neither initialised nor reset, and may spin; with
  `StepsPerNs > 1` the wait is cut to whole nanoseconds, and `ListAheadOfClock`
  no longer holds.
- RLC AM: `ExpireReorderingTimer` requests a STATUS PDU and `DoReceivePdu` one
  during its prohibition without reporting it to the MAC; the peer's poll timer
  is what gets it sent. When the last segment of a retransmission that was cut is
  lost, that timer may have been stopped; `OutstandingIsWatched` and
  `AcceptedIsDelivered` hold only for opportunities that are big enough for
  every retransmission (`bigEnough`), and say so. Even then the bearer may wait
  for the next SDU with PDUs not acknowledged (`WaitsForSdu`, `RlcAmStall`), as
  3GPP TS 36.322 5.2.2.3 has it too; `AcceptedIsDelivered` leaves that case out,
  and `OutstandingIsWatched` says that the next PDU then polls and that the window
  has room for it. An SDU that does not fit into
  the transmission buffer is dropped silently.
- Null messages: a rank that returns from Run sends no more, so ranks told to
  stop at different times may block for ever; `SchedulerTune` times the delay is
  rounded to the nearest time step and may become 0.
- HARQ: feedback behind the point where the symbols of a slot run out is dropped
  (a comment speaks of buffering blocks not retransmitted); the timeout makes up
  for it. The list of RLC PDUs of a process is not cleared on timeout. Uplink
  feedback for a user no longer known is logged and then looked up all the same.

### Bounds, and why they are enough

- `DefaultSimulator`: delays {0, 1} with 3 events (the state space grows with
  the set of ids that can be cancelled or removed): equal times, later times, an
  event entered for the time that is being processed, and a batch of two handed
  over while a third is pending. `UidMod = 7` makes the counter reach its end,
  without reusing a uid.
- Event lists: 6 events at times {0, 3, 8}, so that the number of buckets doubles
  and halves, an event lies more than a year ahead and the heap has a third
  level; the heap alone is run with 7, which its violation needs.
- Realtime: 2 events, 4 ns after the origin, a step of 2 ns, so that the clock
  moves within a step; one jiffy of spinning, so that both waits are taken;
  `Epoch = 9` keeps "real time since the epoch", which a worker sees before the
  origin is set, apart from real time since the start. `StopEndsRun` leaves out
  waits that would last beyond the instance's clock.
- Timers: times up to 7 and 4 events for the timer, 5 pings and times up to 9 for
  the watchdog.
- RLC AM: two SDUs of three units with opportunities of one and four units, so
  that a PDU is a piece of an SDU, a whole one, or the end of one and the
  beginning of the next; window 2 and modulus 4, so that the window fills and
  the numbers wrap; two PDUs on their way, so that one overtakes the other; one
  loss and one retransmission cut into segments. `MaxLate = 1`: t-PollRetransmit
  is longer than the round trip but for one PDU that is still on its way. STATUS
  PDUs stay in order (`StatusOvertakes = FALSE`); the configuration above shows
  why.
- RLC UM: three SDUs of two units, modulus 8 and window 4, four PDUs on their
  way, any number of losses, opportunities that are too small included. Fewer
  PDUs than the modulus are sent, so that no number wraps; see `RlcUmWrap`.
- Granted time windows: three ranks in a row, channels with delays 1 and 2, so
  that look-aheads differ; a bound (`BoundLookAhead`) below the delays or none;
  each rank schedules or sends once, and any subset of them is told to stop.
- Null messages: the same row; every rank stops at time 3, messages of a channel
  arrive in batches of any size. `SchedulerTune` is 100, and every rank has a
  neighbour (one without receives nothing and every time is safe for it); the
  proofs cover any of both. The violation needs two ranks with two channels.
- HARQ: 4 processes and a timeout of 3, one more process than the timeout has
  slots, which `AlwaysAFreeProcess` needs and the defaults miss by one; 5 blocks, so that processes are used again, a round trip
  of 2 slots, redundancy version 1 as the last one (3 in the code), and slots
  that leave room for one or both of a retransmission and a new block.

`CHECK_DEADLOCK FALSE` stands where the model ends because a bound (clock,
number of events, calls, SDUs) is used up. `DefaultSimulatorImpl`, which only
stops when the simulator is disposed of, and `MmWaveHarq`, whose slots never end,
are checked for deadlock.

### Fairness

- `DefaultSimulatorImpl`: weak fairness of the main thread's own steps,
  including the return of user code: the operating system schedules the one
  thread that runs the simulation, and an event handler that never returns is
  outside what the simulator promises. Workers and user calls are not fair; no
  property relies on them.
- `RealtimeSimulatorImpl` adds that time passes (`Tick`).
- `Timers`: the simulator's clock and events, which is what `default_simulator`
  shows of it.
- `RlcAm`, `RlcUm`: each timer expires; the MAC gives an opportunity for what was
  reported to it (for UM, one of more than the header's size, infinitely often);
  a PDU that is not lost arrives. Written as `[]<>~guard \/ []<><<A>>_vars`,
  which is weak fairness with the enabling condition spelled out. Losses are not
  fair, and the SDUs handed in are not either.
- `DistributedSimulatorImpl`: every rank keeps running, MPI_Allgather completes
  when all have entered it, and a packet that was sent is found by some round of
  receiving (strong fairness of `ReceiveMessage`: a rank is in such a round only
  now and then; MPI delivers in the end). `NullMessageSimulatorImpl`: every rank
  keeps running, which includes that a blocking receive returns when a message
  is there.
- `MmWaveHarq`: slots go on.

## 4. What is proved

TLAPS proves the theorems below for every value of the constants the modules
assume something of: any number of ranks, events, SDUs or processes, any delays,
any interleaving. The proofs are in modules of their own, laid out
the same way: type correctness, the inductive invariant with one lemma per
conjunct or action, the theorems. `PROJECT.json` lists them under `theorems`.
Assumptions beyond those of the modules are named operators that the theorem
states; each says below what fails without it.

| Module | Theorems | Assumption |
|---|---|---|
| `DefaultSimulatorProofs` | `TypeCorrect`, `ListStaysAheadOfClock`, `HandoverStaysFlagged`, `ExpiredMeansNotPending`, `ExpiryIsFinal`, `UnscheduledIsCount`, `AgendaIsImplemented` | `NoWrap` |
| `RealtimeSimulatorProofs` | `TypeCorrect`, `WakeupsAreNotLost`, `NoEventIsEarly`; `ListStaysAhead` | none; `WholeNanoseconds`, `OneRun` |
| `TimeoutProofs` | `NoEventStrays`, `CallsAreOnTime`, `TriggersAtLatestEnd` | `NoScheduleSuspended` |
| `TimeoutProofs` | `HarqTypeCorrect`, `BlockFindsProcess`; `FeedbackStaysCurrent` | none; `TimeToAnswer` |
| `RlcUmProofs` | `UmTypeCorrect`; `HeldBackStaysWatched`, `SdusArriveInOrder`, `ReorderingIsHarmless` | none; `NoWrap` |
| `RlcAmProofs` | `AmTypeCorrect`, `FirstUnackedStaysKept`, `OutstandingStaysWatched`, `TransitionStaysPossible`, `NothingIsLetGo`, `AmImplementsChannel` | `~StatusOvertakes` |
| `DistributedSimulatorProofs` | `DistTypeCorrect`, `EndIsComplete`, `RanksKeepTheOrder` | none |
| `NullMessageProofs` | `NullMessageTypeCorrect`; `GuaranteesAreKept`, `NullMessageRanksKeepTheOrder` | none; `SingleChannels` |
| `CommonLemmas` | `LessIsStrictOrder`, `EarliestIsEarliest` | none |

**Event keys.** `operator<` is a strict order, and a set of keys that is not
empty has an earliest one, which `Earliest` returns (so its CHOOSE is never
void).

**Default simulator.** Under `NoWrap` (fewer events are created than the uid
counter has values: 2^32 - 4 in the code; `DefaultSimulatorUidWrap.cfg` shows
that it cannot be dropped) the list never holds an event before the current one;
the unsynchronised flag never hides an event; `IsExpired` is false exactly for
events in the list that are not cancelled; an id that has expired stays expired
and its event is not called again; `m_unscheduledEvents` is the number of events
in the list. They follow from

    IInv == TypeOK /\ CounterInv /\ ListInv /\ NamesInv /\ DestroyInv /\ GoneInv
              /\ HandoverIsFlagged

None of the properties is inductive alone. `ListAheadOfClock` needs uids of new
events to exceed the current uid (`CounterInv`, `ListInv`), which is where
`NoWrap` comes in; `ExpiredIffNotPending` needs that an id names one event
(`NamesInv`), that an event that left the list looks expired (`GoneInv`), which
in turn needs that ProcessOneEvent takes the earliest event, and that the destroy
list has no duplicates (`DestroyInv`). `UnscheduledIsCount` adds that the list is
finite and counted (`CountInv`); the step that matters takes over what workers
handed over, which must be as many different events as the counter is raised by
(`HandedOverCount`). `AgendaIsImplemented` is the refinement of `EventAgenda`:
each action is shown to be an action of the agenda or a stutter, those of the
main thread that take the earliest event being the ones that need `IInv`. The
agenda keeps the delays handed over and not yet taken in (`handed`, mapped to
`m_eventsWithContext`). A worker's call is its `HandOver`, and `SwapIn` its
`TakeIn`, which enters one event for each of them, its delay after the time
then, in order; Schedule on the main thread is `Enter`, of one event. So no step
can lose a part of a batch or enter an event nobody asked for; only Destroy
drops what is left. When a batch is taken in is not part of the refinement:
`PassOver` may leave it, and Run may return before it; `HandoverIsFlagged` says
that the flag does not hide it.

**Realtime simulator.** While the main thread waits outside the mutex the list
is not empty (`HasSeenEvent`). `WaitInv` adds that it waits until the nanosecond
of some event in the list at the latest and takes one only when one is due
(`AimsAtEvent`): with a set condition or a due wait for every insertion in
between, no wake-up is lost and the event taken is never early, in any number of
Runs and at any resolution. That the list lies ahead of the clock holds for one
Run (`RealtimeSimulatorRerun.cfg`) and steps of whole nanoseconds, as with the
default resolution: real time, which workers schedule by, never falls behind the
simulation clock (`ClockInv`). With finer steps it is false: `NsPerStep = 1`,
`StepsPerNs = 2` lets TLC find an event taken when its nanosecond has come and a
worker's event inserted before it.

**Timer and Watchdog.** `NoEventStrays` needs that events in the list have ids of
their own (`QueueInv`); `CallsAreOnTime` that the pending event, or what
`Suspend` put aside, is due when the rest of the delay has run (`RestInv`);
`TriggersAtLatestEnd` that `m_end` is the latest end asked for or has passed
(`WatchdogInv`). The timer's client does not call Schedule on a suspended timer
(`NoScheduleSuspended`); Schedule does not check it, and `TimerResume.cfg` shows
the stray event.

**RLC UM.** Whatever is lost or overtakes, the counters stay sequence numbers.
Under `NoWrap` (fewer units are handed in than there are sequence numbers, so no
more PDUs than that are sent; `RlcUmWrap.cfg` shows PDUs stranded when they are)
a PDU held back is inside the window and behind a gap that t-Reordering runs for.
The invariant `UmInv` states the window without its modulus: VR(UR) <= VR(UH) <=
VR(UR) + Window, everything held back lies strictly between the two, and the
timer runs exactly when they differ, with VR(UX) in between (`WindowIs`,
`TimerIs`). It holds because the PDUs on their way are numbered one after the
other, at most the first of them overtaken, and VR(UH) is not more than one ahead
(`QueueIs`): so a PDU arrives from just behind VR(UH) or from beyond it, and one
from beyond wraps neither. What the two walks over the map leave in it is
`OutsideTakesOut`, `IntervalTakesOut`, `FirstMissingFound` and `GapFound`.

What is handed up are SDUs, each whole, in the order they were handed in and none
twice (`SdusArriveInOrder`). The invariant `OrderInv` adds a witness, `sent`: the
PDU that each number stands for. Put one behind the other, these PDUs and the
buffer TxOpportunities are cut from are the units of the SDUs in order
(`StreamIs`: `Follows` from each unit to the next, `Chain` within a PDU);
what is on its way or held back is a copy of the PDU of its number (`QueuedIs`,
`HeldIs`); and what was read ends with the PDU before the one expected, whose
last SDU, if it is not complete, is the segment kept (`ReadIs`), while the number
expected is not beyond VR(UR). Both walks read in increasing order, from VR(UR)
on (`OutsideReads`, `IntervalReads`), so a PDU that is read lies behind all that
were, and `ReassembleAndDeliver` keeps the segment only if its rest is what comes
next (`PduIsRead`).

PDUs that only overtake one another cost nothing (`ReorderingIsHarmless`). A
second witness, `count`, says how many SDUs the stream has completed before each
PDU; these add up to the SDUs taken over when the PDUs and what waits to be sent
are put together (`StreamCounts`). As long as nothing was lost or given up,
VR(UR) is the number of the first PDU still on its way, and if that one has been
overtaken, the one behind it is held back and VR(UH) is right after it
(`NothingMissing`). So a PDU that arrives is the next, has overtaken just one, or
is the one overtaken (`Arrives`); none of these is taken for one received before
(`InTimeIsPlaced`), all PDUs before VR(UR) are read one after the other, and what
was handed up is `count` of VR(UR) (`AllRead`, `PlaceReadsAll`). At the end
nothing is on its way and nothing waits, and that is the number of all.

**RLC AM.** Whatever data PDUs are lost, overtaken, sent again or cut into
segments, for any window, SDU size and opportunities, acknowledged mode is a
first-in first-out channel (`AmImplementsChannel`). STATUS PDUs keep their order
(`~StatusOvertakes`; `RlcAmStatusOvertakes.cfg` shows what one that was overtaken
does), and so do data PDUs a whole window apart (`DataOvertakes`, part of the
model). None of the properties is inductive: each depends on what both ends know
of each other. The invariant `AmInv` has three layers.

*Counters behind the numbers.* PDUs are counted from 0 on, and sequence numbers
are counters modulo the modulus (`No`): a = VT(A), s = VT(S), r = VR(R), and so on,
with a <= r <= h <= s <= a + Window (`SenderHas`, `ReceiverHas`). Because of these
bounds the distances the code computes modulo 2 * Window are differences of
counters (`DistanceOfNumbers`), and a number on its way stands for one PDU only
(`OtherNumber`).

*Who knows what.* `sent` is the PDU each counter stands for. A PDU in the sender's
buffers is that PDU (`SenderIs`), one in the reception buffer is that PDU or its
first segments (`ReceiverIs`), and what is on its way is a copy or a segment of it
(`DataIs`). Each STATUS PDU on its way names PDUs by counters `low`, `ack` and
`nack` (`AcksAre`); what it believes received the receiver has, and what an
earlier one believes a later one does not doubt (`BeliefsAre`), for which STATUS
PDUs must keep their order. So a PDU that neither buffer of the sender holds is one
the receiver has (`Gone`, `NothingIsLetGo`), and the first that is not
acknowledged is never among them (`FirstUnackedStaysKept`). `Watch` is why somebody
moves: t-PollRetransmit runs for the last PDU, or it has expired and the next PDU
polls, or there are units the window has room for, or some PDU to be sent again
has none behind it that waits for an acknowledgement, so that it polls when it is
the last; and an expired timer with a full window has the first PDU to be sent
again.

*The stream of units.* The PDUs sent are successive stretches of the units of the
SDUs taken over, and the transmission buffer is the rest (`PlacesAre`); what the
receiver has handed up, and the segment it keeps, is exactly what lies before PDU r
(`ReadIs`). A PDU that is read is therefore the next stretch, `Begins` where the
last one ended (`TransitionStaysPossible`), and each SDU that comes out is the next
one taken over, which is a step of `RlcChannel`; every other step changes neither
side of it.

**Granted time windows.** For any number of ranks and channels, parallel ones
included, with any bound: when a rank finds the simulation finished, all have
finished and nothing is on its way (`EndIsComplete`: packets on their way are
those sent and not received, `CountsInv`, and what ranks contributed to the
all-gather still holds, `GatherInv`); and the ranks together implement
`SequentialOrder` (`RanksKeepTheOrder`). The latter needs that all windows begin
at the same time, before which no rank has an event left, that no rank runs
beyond its own window and that packets on their way arrive at its end or later
(`ListsInv`, `WindowInv`).

**Null messages.** With at most one channel between two ranks (`SingleChannels`;
`null_message_handler` shows that parallel ones break it), for any topology,
delays, transmission times and order of the bundles: no packet arrives before a
guarantee given earlier, and the ranks together implement `SequentialOrder`. The
invariant says what a guarantee is about. `A[r][n]`, a witness of the proof, is
the highest guarantee r has received from n. Every guarantee given, received or
on its way, (1) holds for the events in the sender's list that may still send
(`Sound`; while the device is busy that is only the end of the transmission),
(2) holds for the handler that runs (`Promised`), and (3) holds for what the
sender may do because of packets that have yet to reach it, since those keep to
the guarantees it has itself been given (`Reach`). No rank runs ahead of the
guarantees it has received, and packets keep to those sent before them.

**HARQ.** Taken processes were taken one a slot, so their timers differ
(`TakenApart`). Hence, for any number of processes and any timeout, a new block
finds a free process unless each of them holds a block taken in a slot of its own
and short of its timeout (`BlockFindsProcess`), for which the timeout must be at
least as many slots as there are processes. The code does not exclude that. *Its
defaults, `NumHarqProcess` 20 and `HarqDlTimeout` 20
(`mmwave-phy-mac-common.cc:71` and `:76`), allow it by one slot*:
`MmWaveHarqDefaults.cfg`, with 3 and 3, lets TLC run
into the assertion of `mmwave-flex-tti-mac-scheduler.cc:1476` when no answer
comes. No answer is taken for that to another block if the last one arrives
before the timeout (`TimeToAnswer`): what is on the air in the uplink is about
the block its process holds and its latest transmission, and the timer says how
long it has been on its way (`OnTheWayInv`). `FeedbackIsCurrent` says so of the
uplink, as long as no feedback was put off; the downlink's doubled answer is
`mmwave_harq_feedback`.

Type invariants are proved and therefore in no run. TLC has checked the
inductive invariants on the bounds of the runs before they were proved, except
for conjuncts that ask for a witness it would have to search for (`OrderInv` of
RLC UM, `count` in `LossInv`, `AmInv`, `A` of the null messages).

Only model-checked:

- liveness, which the prover cannot express, like ENABLED;
- the concrete event lists (`PeekIsEarliest`, `ImplementsScheduler`), whose
  recursive operators and induction over data are out of its reach.

## 5. What is not modelled

In the modelled components:

- execution contexts (`m_currentContext`): carried along, never tested;
- reference counts and memory;
- a simulator created anew after Destroy, with EventIds from before; Stop before
  Run; a wall clock that is set back;
- Destroy, ScheduleDestroy, Remove and Cancel of the realtime and the MPI
  simulators, whose code is that of the default one; their SetScheduler;
- `PriorityQueueScheduler`, a std::priority_queue with a linear Remove;
- transparent mode and the low latency variant of the RLC, the CoDel queue in
  front of AM, byte counts, and the buffers forwarded over X2 in a handover
  (`Reassemble`, `RlcPdusToRlcSdus`);
- the choice of symbols, MCS and flows by the scheduler, buffer status reports,
  random access, users that come and go; combining of soft bits
  (`MmWaveHarqPhy`), which only changes the probability of an error.

Components left out are listed in `PROJECT.json` with the reason: numerical code
(channel, propagation, mobility, random numbers), configuration and tracing, the
upstream protocol models that this repository does not change, and the
dual-connectivity RRC, which is the next to be modelled.

## 6. Plan

Done, in this order: event order and event lists; default simulator with its
abstract agenda; proofs of its invariants; realtime simulator; Timer and
Watchdog; RLC AM and UM; the MPI simulators; HARQ.

Then the proofs, in this order: default simulator, Timer and Watchdog, realtime
simulator, HARQ, granted time windows, null messages, RLC UM, RLC AM.

Next, in order of importance:

1. `McHandover`: the dual-connectivity RRC and X2 procedures with the
   coordinator's decisions racing a radio link failure, and the forwarding of
   RLC buffers; one serving cell, no lost or duplicated bearer data.
2. `TrickleTimer`; a restart of the simulator with stale EventIds.
