------------------------ MODULE DefaultSimulatorImpl -------------------------
(***************************************************************************)
(* ns3::DefaultSimulatorImpl (core/model/default-simulator-impl.cc): the   *)
(* event loop of ns-3.  One main thread runs the simulation; the other     *)
(* threads may call ScheduleWithContext, which hands an event over through *)
(* a list protected by a mutex and a flag that the main thread reads       *)
(* without it.                                                             *)
(*                                                                         *)
(* The event list m_events is the ordered set of module Scheduler, which   *)
(* the concrete event lists are checked against.  An event is its key, ts  *)
(* and uid, with two fields the code does not have: ord, the number of uid *)
(* increments before it was inserted, which is the uid of a counter that   *)
(* never wraps, and stop, which tells the events made by Stop(delay) from  *)
(* those that run the user's code.  An EventId is the record of its event. *)
(***************************************************************************)
EXTENDS EventKeys, Sequences, FiniteSets

CONSTANTS
  Delays,      \* the delays user code asks for
  MaxEvents,   \* bound: number of events user code and the workers create
  UidMod       \* m_uid is a counter modulo UidMod (2^32 in the code)

\* EventId::UID
INVALID == 0
DESTROY == 2
VALID == 4

ASSUME DefaultSimulatorAssumption ==
  Delays \subseteq Nat /\ MaxEvents \in Nat /\ UidMod \in Nat /\ UidMod > VALID

VARIABLES
  m_events,                  \* the event list: a set of events
  m_eventsWithContext,       \* delays of the events workers handed over, oldest first
  m_eventsWithContextEmpty,  \* the flag read without the mutex
  m_destroyEvents,           \* the events for Destroy, oldest first
  m_stop,
  m_uid,
  m_currentUid,
  m_currentTs,
  m_unscheduledEvents,
  m_eventCount,
  cancelled,                 \* EventImpl::m_cancel: the ords of cancelled events
  pc,                        \* where the main thread is
  ord,                       \* history: m_uid if it never wrapped
  ids,                       \* history: the EventIds returned to user code
  invoked                    \* history: the ords of the events whose Notify was called

listVars == <<m_events, m_uid, m_unscheduledEvents, ord>>
handoverVars == <<m_eventsWithContext, m_eventsWithContextEmpty>>
currentVars == <<m_currentUid, m_currentTs, m_eventCount>>
vars == <<listVars, handoverVars, m_destroyEvents, m_stop, currentVars, cancelled, pc,
          ids, invoked>>

PCs == {"idle", "runPec", "loop", "handler", "pec", "destroy", "destroyHandler", "disposed"}

Event(ts, uid, o, stop) == [ts |-> ts, uid |-> uid, ord |-> o, stop |-> stop]

\* User code runs outside Run and Destroy and inside the events they call.
InUserCode == pc \in {"idle", "handler", "destroyHandler"}

\* Room for one more event under the bound MaxEvents.
MayCreate == ord + Len(m_eventsWithContext) < VALID + MaxEvents

------------------------------------------------------------------------------

Init ==
  /\ m_events = {}
  /\ m_eventsWithContext = << >>
  /\ m_eventsWithContextEmpty = TRUE
  /\ m_destroyEvents = << >>
  /\ m_stop = FALSE
  /\ m_uid = VALID
  /\ m_currentUid = INVALID
  /\ m_currentTs = 0
  /\ m_unscheduledEvents = 0
  /\ m_eventCount = 0
  /\ cancelled = {}
  /\ pc = "idle"
  /\ ord = VALID
  /\ ids = {}
  /\ invoked = {}

\* What Schedule and ScheduleWithContext do with the event list.
InsertEvent(delay, stop) ==
  /\ m_events' = m_events \cup {Event(m_currentTs + delay, m_uid, ord, stop)}
  /\ m_uid' = (m_uid + 1) % UidMod
  /\ ord' = ord + 1
  /\ m_unscheduledEvents' = m_unscheduledEvents + 1

\* Schedule and ScheduleNow, and Stop(delay), which schedules Simulator::Stop.
Schedule(delay, stop) ==
  /\ InUserCode
  /\ MayCreate
  /\ InsertEvent(delay, stop)
  /\ ids' = ids \cup {Event(m_currentTs + delay, m_uid, ord, stop)}
  /\ UNCHANGED <<handoverVars, m_destroyEvents, m_stop, currentVars, cancelled, pc, invoked>>

\* ScheduleWithContext called on the main thread: no EventId is returned.
ScheduleWithContextMain(delay) ==
  /\ InUserCode
  /\ MayCreate
  /\ InsertEvent(delay, FALSE)
  /\ UNCHANGED <<handoverVars, m_destroyEvents, m_stop, currentVars, cancelled, pc,
                 ids, invoked>>

\* A slip: the worker does not reset the flag.
MutWorkerNoFlag(delay) ==
  /\ pc # "disposed"
  /\ MayCreate
  /\ m_eventsWithContext' = Append(m_eventsWithContext, delay)
  /\ UNCHANGED <<m_eventsWithContextEmpty, listVars, m_destroyEvents, m_stop, currentVars,
                 cancelled, pc, ids, invoked>>

\* ScheduleWithContext called by another thread, at any time.
ScheduleWithContextWorker(delay) ==
  /\ pc # "disposed"
  /\ MayCreate
  /\ m_eventsWithContext' = Append(m_eventsWithContext, delay)
  /\ m_eventsWithContextEmpty' = FALSE
  /\ UNCHANGED <<listVars, m_destroyEvents, m_stop, currentVars, cancelled, pc, ids, invoked>>

ScheduleDestroy ==
  /\ InUserCode
  /\ MayCreate
  /\ LET id == Event(m_currentTs, DESTROY, ord, FALSE) IN
       /\ m_destroyEvents' = Append(m_destroyEvents, id)
       /\ ids' = ids \cup {id}
  /\ m_uid' = (m_uid + 1) % UidMod
  /\ ord' = ord + 1
  /\ UNCHANGED <<m_events, m_unscheduledEvents, handoverVars, m_stop, currentVars,
                 cancelled, pc, invoked>>

InDestroyEvents(id) == \E i \in 1 .. Len(m_destroyEvents) : m_destroyEvents[i] = id

\* A slip: an event with the current time stamp counts as expired.
MutIsExpiredByTs(id) ==
  IF id.uid = DESTROY
  THEN id.ord \in cancelled \/ ~InDestroyEvents(id)
  ELSE id.ts <= m_currentTs \/ id.ord \in cancelled

IsExpired(id) ==
  IF id.uid = DESTROY
  THEN id.ord \in cancelled \/ ~InDestroyEvents(id)
  ELSE \/ id.ts < m_currentTs
       \/ id.ts = m_currentTs /\ id.uid <= m_currentUid
       \/ id.ord \in cancelled

\* std::list::erase of the i-th element.
Without(s, i) == SubSeq(s, 1, i - 1) \o SubSeq(s, i + 1, Len(s))

\* Remove takes a destroy event off its list without cancelling it.
RemoveDestroyEvent(id) ==
  /\ InUserCode
  /\ id.uid = DESTROY
  /\ \E i \in 1 .. Len(m_destroyEvents) :
       /\ m_destroyEvents[i] = id
       /\ m_destroyEvents' = Without(m_destroyEvents, i)
  /\ UNCHANGED <<listVars, handoverVars, m_stop, currentVars, cancelled, pc, ids, invoked>>

\* A slip: Remove takes the event off the list but does not count it off.
MutRemoveNoCount(id) ==
  /\ InUserCode
  /\ id.uid # DESTROY
  /\ ~IsExpired(id)
  /\ m_events' = m_events \ {id}
  /\ cancelled' = cancelled \cup {id.ord}
  /\ UNCHANGED <<m_unscheduledEvents, m_uid, ord, handoverVars, m_destroyEvents, m_stop,
                 currentVars, pc, ids, invoked>>

RemoveEvent(id) ==
  /\ InUserCode
  /\ id.uid # DESTROY
  /\ ~IsExpired(id)
  /\ m_events' = m_events \ {id}
  /\ cancelled' = cancelled \cup {id.ord}
  /\ m_unscheduledEvents' = m_unscheduledEvents - 1
  /\ UNCHANGED <<m_uid, ord, handoverVars, m_destroyEvents, m_stop, currentVars, pc,
                 ids, invoked>>

Cancel(id) ==
  /\ InUserCode
  /\ ~IsExpired(id)
  /\ cancelled' = cancelled \cup {id.ord}
  /\ UNCHANGED <<listVars, handoverVars, m_destroyEvents, m_stop, currentVars, pc, ids, invoked>>

Stop ==
  /\ InUserCode
  /\ m_stop' = TRUE
  /\ UNCHANGED <<listVars, handoverVars, m_destroyEvents, currentVars, cancelled, pc,
                 ids, invoked>>

------------------------------------------------------------------------------
(***************************************************************************)
(* ProcessEventsWithContext.  The flag is read without the mutex while a   *)
(* worker may be writing FALSE: the read returns the flag or the TRUE this *)
(* thread stored last, so the list may be passed over although it is not   *)
(* empty.  Once the lists are swapped under the mutex only this thread     *)
(* looks at the events, so the swap and the insertions are one step.       *)
(***************************************************************************)
PassOver == UNCHANGED <<listVars, handoverVars>>

HandedOver ==
  {Event(m_currentTs + m_eventsWithContext[i], (m_uid + (i - 1)) % UidMod, ord + (i - 1), FALSE) :
     i \in 1 .. Len(m_eventsWithContext)}

\* A slip: the time stamp of a handed over event is taken as absolute.
MutSwapInAbsolute ==
  /\ ~m_eventsWithContextEmpty
  /\ m_eventsWithContext' = << >>
  /\ m_eventsWithContextEmpty' = TRUE
  /\ m_events' = m_events \cup
       {Event(m_eventsWithContext[i], (m_uid + (i - 1)) % UidMod, ord + (i - 1), FALSE) :
          i \in 1 .. Len(m_eventsWithContext)}
  /\ m_uid' = (m_uid + Len(m_eventsWithContext)) % UidMod
  /\ ord' = ord + Len(m_eventsWithContext)
  /\ m_unscheduledEvents' = m_unscheduledEvents + Len(m_eventsWithContext)

\* A slip: only the first event of a batch is inserted, the list is emptied.
MutSwapInFirstOnly ==
  /\ ~m_eventsWithContextEmpty
  /\ m_eventsWithContext' = << >>
  /\ m_eventsWithContextEmpty' = TRUE
  /\ m_events' = m_events \cup
       {Event(m_currentTs + m_eventsWithContext[1], m_uid, ord, FALSE)}
  /\ m_uid' = (m_uid + 1) % UidMod
  /\ ord' = ord + 1
  /\ m_unscheduledEvents' = m_unscheduledEvents + 1

SwapIn ==
  /\ ~m_eventsWithContextEmpty
  /\ m_eventsWithContext' = << >>
  /\ m_eventsWithContextEmpty' = TRUE
  /\ m_events' = m_events \cup HandedOver
  /\ m_uid' = (m_uid + Len(m_eventsWithContext)) % UidMod
  /\ ord' = ord + Len(m_eventsWithContext)
  /\ m_unscheduledEvents' = m_unscheduledEvents + Len(m_eventsWithContext)

ProcessEventsWithContext == PassOver \/ SwapIn

------------------------------------------------------------------------------

Run ==
  /\ pc = "idle"
  /\ pc' = "runPec"
  /\ UNCHANGED <<listVars, handoverVars, m_destroyEvents, m_stop, currentVars, cancelled,
                 ids, invoked>>

\* The first ProcessEventsWithContext of Run, then m_stop = false.
RunProcessEventsWithContext ==
  /\ pc = "runPec"
  /\ ProcessEventsWithContext
  /\ m_stop' = FALSE
  /\ pc' = "loop"
  /\ UNCHANGED <<m_destroyEvents, currentVars, cancelled, ids, invoked>>

\* A slip: the cancelled flag is not looked at.
MutProcessOneEventCancelled ==
  /\ pc = "loop"
  /\ m_events # {} /\ ~m_stop
  /\ LET next == Earliest(m_events) IN
       /\ m_events' = m_events \ {next}
       /\ m_currentTs' = next.ts
       /\ m_currentUid' = next.uid
       /\ invoked' = invoked \cup {next.ord}
       /\ m_stop' = next.stop
       /\ pc' = IF ~next.stop THEN "handler" ELSE "pec"
  /\ m_unscheduledEvents' = m_unscheduledEvents - 1
  /\ m_eventCount' = m_eventCount + 1
  /\ UNCHANGED <<m_uid, ord, handoverVars, m_destroyEvents, cancelled, ids>>

\* One turn of Run's loop, up to the call of the event.  EventImpl::Invoke
\* calls Notify unless the event was cancelled; Notify of a Stop(delay) event
\* is Simulator::Stop, any other Notify is user code.
ProcessOneEvent ==
  /\ pc = "loop"
  /\ m_events # {} /\ ~m_stop
  /\ LET next == Earliest(m_events)
         notify == next.ord \notin cancelled
     IN
       /\ m_events' = m_events \ {next}
       /\ m_currentTs' = next.ts
       /\ m_currentUid' = next.uid
       /\ invoked' = IF notify THEN invoked \cup {next.ord} ELSE invoked
       /\ m_stop' = (notify /\ next.stop)
       /\ pc' = IF notify /\ ~next.stop THEN "handler" ELSE "pec"
  /\ m_unscheduledEvents' = m_unscheduledEvents - 1
  /\ m_eventCount' = m_eventCount + 1
  /\ UNCHANGED <<m_uid, ord, handoverVars, m_destroyEvents, cancelled, ids>>

\* The event's code returns to Invoke, or to Destroy's loop.
HandlerReturns ==
  /\ pc \in {"handler", "destroyHandler"}
  /\ pc' = IF pc = "handler" THEN "pec" ELSE "destroy"
  /\ UNCHANGED <<listVars, handoverVars, m_destroyEvents, m_stop, currentVars, cancelled,
                 ids, invoked>>

\* A slip: the main thread waits until a worker hands something over.
MutAfterEventWaits ==
  /\ pc = "pec"
  /\ ProcessEventsWithContext
  /\ pc' = IF m_eventsWithContextEmpty THEN "pec" ELSE "loop"
  /\ UNCHANGED <<m_destroyEvents, m_stop, currentVars, cancelled, ids, invoked>>

\* The ProcessEventsWithContext that ends ProcessOneEvent.
AfterEventProcessEventsWithContext ==
  /\ pc = "pec"
  /\ ProcessEventsWithContext
  /\ pc' = "loop"
  /\ UNCHANGED <<m_destroyEvents, m_stop, currentVars, cancelled, ids, invoked>>

\* A slip: Run returns while one event is left.
MutRunReturnsEarly ==
  /\ pc = "loop"
  /\ Cardinality(m_events) <= 1 \/ m_stop
  /\ pc' = "idle"
  /\ UNCHANGED <<listVars, handoverVars, m_destroyEvents, m_stop, currentVars, cancelled,
                 ids, invoked>>

RunReturns ==
  /\ pc = "loop"
  /\ m_events = {} \/ m_stop
  /\ pc' = "idle"
  /\ UNCHANGED <<listVars, handoverVars, m_destroyEvents, m_stop, currentVars, cancelled,
                 ids, invoked>>

Destroy ==
  /\ pc = "idle"
  /\ pc' = "destroy"
  /\ UNCHANGED <<listVars, handoverVars, m_destroyEvents, m_stop, currentVars, cancelled,
                 ids, invoked>>

DestroyOneEvent ==
  /\ pc = "destroy"
  /\ m_destroyEvents # << >>
  /\ LET ev == Head(m_destroyEvents)
         notify == ev.ord \notin cancelled
     IN
       /\ m_destroyEvents' = Tail(m_destroyEvents)
       /\ invoked' = IF notify THEN invoked \cup {ev.ord} ELSE invoked
       /\ pc' = IF notify THEN "destroyHandler" ELSE "destroy"
  /\ UNCHANGED <<listVars, handoverVars, m_stop, currentVars, cancelled, ids>>

\* Simulator::Destroy drops the simulator: DoDispose takes over what workers
\* handed over and then drops the whole event list without calling any event.
DoDispose ==
  /\ pc = "destroy"
  /\ m_destroyEvents = << >>
  /\ m_events' = {}
  /\ \/ UNCHANGED <<m_uid, ord, m_unscheduledEvents, handoverVars>>
     \/ /\ ~m_eventsWithContextEmpty
        /\ m_eventsWithContext' = << >>
        /\ m_eventsWithContextEmpty' = TRUE
        /\ m_uid' = (m_uid + Len(m_eventsWithContext)) % UidMod
        /\ ord' = ord + Len(m_eventsWithContext)
        /\ m_unscheduledEvents' = m_unscheduledEvents + Len(m_eventsWithContext)
  /\ pc' = "disposed"
  /\ UNCHANGED <<m_destroyEvents, m_stop, currentVars, cancelled, ids, invoked>>

\* The simulator object is gone: nothing more happens.
Disposed == pc = "disposed" /\ UNCHANGED vars

UserStep ==
  \/ \E delay \in Delays, stop \in BOOLEAN : Schedule(delay, stop)
  \/ \E delay \in Delays : ScheduleWithContextMain(delay)
  \/ ScheduleDestroy
  \/ \E id \in ids : RemoveDestroyEvent(id) \/ RemoveEvent(id) \/ Cancel(id)
  \/ Stop

\* What the main thread does on its own once Run or Destroy is called, user
\* code returning included.
MainStep ==
  \/ RunProcessEventsWithContext
  \/ ProcessOneEvent
  \/ HandlerReturns
  \/ AfterEventProcessEventsWithContext
  \/ RunReturns
  \/ DestroyOneEvent
  \/ DoDispose

WorkerStep == \E delay \in Delays : ScheduleWithContextWorker(delay)

Next == UserStep \/ WorkerStep \/ MainStep \/ Run \/ Destroy \/ Disposed

Spec == Init /\ [][Next]_vars

FairSpec == Spec /\ WF_vars(MainStep)

------------------------------------------------------------------------------

EventIds == [ts : Nat, uid : Nat, ord : Nat, stop : BOOLEAN]

\* The members keep their C++ types, m_uid its width.
TypeOK ==
  /\ m_events \subseteq EventIds
  /\ m_eventsWithContext \in Seq(Nat)
  /\ m_eventsWithContextEmpty \in BOOLEAN
  /\ m_destroyEvents \in Seq(EventIds)
  /\ m_stop \in BOOLEAN
  /\ m_uid \in 0 .. UidMod - 1
  /\ m_currentUid \in Nat
  /\ m_currentTs \in Nat
  /\ m_unscheduledEvents \in Int
  /\ m_eventCount \in Nat
  /\ cancelled \subseteq Nat
  /\ pc \in PCs
  /\ ord \in Nat
  /\ ids \subseteq EventIds
  /\ invoked \subseteq Nat

CurrentKey == [ts |-> m_currentTs, uid |-> m_currentUid]

\* Every event in the list comes after the current one, whatever the user's
\* code, the removals and the late arrivals from other threads: the assertion
\* next.key.m_ts >= m_currentTs in ProcessOneEvent can never fail, and no two
\* events share a uid.
ListAheadOfClock ==
  /\ \A e \in m_events : Less(CurrentKey, e)
  /\ \A e, f \in m_events : e.uid = f.uid => e = f

\* m_unscheduledEvents counts the events in the list, so that the consistency
\* test at the end of Run (no event left means nothing unscheduled) passes.
UnscheduledCounts ==
  pc # "disposed" => m_unscheduledEvents = Cardinality(m_events)

\* An event a worker handed over is never hidden behind a flag that says the
\* list is empty, also when the worker runs between the main thread's read of
\* the flag and its swap of the lists.
HandoverIsFlagged ==
  m_eventsWithContext # << >> => ~m_eventsWithContextEmpty

Pending(id) == id \in m_events \/ InDestroyEvents(id)

\* IsExpired looks only at the clock, the current uid and the cancel flag, not
\* at the event list; still it is false exactly for the events that are in the
\* list and will be called.  Remove and Cancel depend on it: Remove of an
\* event that is not in the list is undefined in every Scheduler.
ExpiredIffNotPending ==
  pc # "disposed" =>
    \A id \in ids : IsExpired(id) <=> (~Pending(id) \/ id.ord \in cancelled)

\* Once an id has expired (fired, cancelled or removed) it stays expired and
\* its event is not called again, in this Run, in a later Run or by Destroy.
ExpiredIsFinal ==
  [][\A id \in ids :
       IsExpired(id) /\ pc # "disposed" =>
         /\ IsExpired(id)'
         /\ id.ord \in invoked' => id.ord \in invoked]_vars

Agenda == INSTANCE EventAgenda WITH
            clock <- m_currentTs,
            agenda <- {[ts |-> e.ts, ord |-> e.ord] : e \in m_events},
            handed <- m_eventsWithContext,
            last <- [i \in 1 .. Len(m_destroyEvents) |-> m_destroyEvents[i].ord],
            entered <- ord,
            fired <- invoked,
            closed <- (pc = "disposed")

\* The simulator implements the agenda of EventAgenda: events are called in
\* the order of their times and first in, first out at the same time, none
\* twice and none after it was cancelled or removed.  With workers handing
\* events over at any moment, each call of the main thread enters one event,
\* and taking in a batch enters exactly the events handed over since the last
\* one, each its delay after the time then, in the order of the calls.
ImplementsAgenda == Agenda!Spec

InRun == pc \in {"runPec", "loop", "handler", "pec"}

\* Run returns once user code and workers stop creating events, whether or
\* not it was stopped.
RunReturnsEventually == InRun ~> ~InRun

\* While Run goes on and is not stopped, every event in the list gets its turn.
PendingGetsItsTurn ==
  \A o \in VALID .. VALID + MaxEvents - 1 :
    (\E e \in m_events : e.ord = o) /\ InRun
      ~> (~\E e \in m_events : e.ord = o) \/ m_stop

------------------------------------------------------------------------------
(* Documented behaviour the code does not keep. *)

\* simulator.h:59: events with the same expiration time "are scheduled in FIFO
\* order: the first event inserted in the scheduling queue is scheduled to
\* expire first".  The order is that of the 32-bit m_uid, which wraps.
FifoAmongEqualTimes ==
  [][m_eventCount' # m_eventCount =>
       \A e \in m_events \ m_events', f \in m_events' : e.ts = f.ts => e.ord < f.ord]_vars

\* simulator.h:165: Stop(delay) forces Run to return "when the expiration time
\* of the next event to be processed is greater than or equal to the stop
\* time".  The stop is an event in the list like any other, so the events
\* entered before it for the very same time still run.
NoEventAtStopTime ==
  [][m_eventCount' # m_eventCount =>
       \A e \in m_events \ m_events', s \in m_events :
         ~e.stop /\ e.ord \in invoked' /\ s.stop /\ s.ord \notin cancelled
           => e.ts < s.ts]_vars

==============================================================================
