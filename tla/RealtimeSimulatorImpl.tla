------------------------ MODULE RealtimeSimulatorImpl ------------------------
(***************************************************************************)
(* ns3::RealtimeSimulatorImpl with its WallClockSynchronizer               *)
(* (core/model/realtime-simulator-impl.cc, wall-clock-synchronizer.cc):    *)
(* the event loop that lets real time pass between events.  The main       *)
(* thread waits, outside the mutex, for the time of the event it saw at    *)
(* the head of the list; other threads insert events under the mutex and   *)
(* signal the wait.                                                        *)
(*                                                                         *)
(* Real time is the variable wall, in nanoseconds; it advances at any      *)
(* moment, in an event too.  Time stamps are in steps of the resolution,   *)
(* one step being NsPerStep / StepsPerNs nanoseconds.  The mutex sections  *)
(* are single steps; the waits of the synchronizer are not.                *)
(***************************************************************************)
EXTENDS EventKeys, FiniteSets

CONSTANTS
  Delays,        \* delays, in steps, that callers ask for
  MaxEvents,     \* bound: number of events created
  MaxRuns,       \* bound: number of calls of Run
  Epoch,         \* the wall clock's reading when the simulator is made
  MaxWall,       \* bound: the wall clock's last reading
  NsPerStep, StepsPerNs,  \* the time resolution; one of the two is 1
  Jiffy,         \* m_jiffy, in nanoseconds
  SpinJiffies,   \* the jiffies Synchronize spins instead of sleeping (3 in the code)
  IdleDelay,     \* how long Run waits when there is no event, in steps (1 s in the code)
  HardLimit      \* m_hardLimit, in steps

ASSUME RealtimeAssumption ==
  /\ Delays \subseteq Nat
  /\ {MaxEvents, MaxRuns, Epoch, MaxWall, SpinJiffies, IdleDelay, HardLimit} \subseteq Nat
  /\ {NsPerStep, StepsPerNs, Jiffy} \subseteq Nat \ {0}
  /\ 1 \in {NsPerStep, StepsPerNs}

\* EventId::UID
INVALID == 0
VALID == 4

VARIABLES
  m_events, m_uid, m_unscheduledEvents,
  m_currentTs, m_currentUid,
  m_stop, m_running,
  m_synchronizationMode,
  cancelled,              \* EventImpl::m_cancel: the uids of cancelled events
  m_realtimeOriginNano,   \* WallClockSynchronizer's
  m_condition,            \* WallClockSynchronizer's, never initialised
  wall,                   \* std::chrono::system_clock, in nanoseconds
  pc,                     \* where the main thread is
  nsCurrent, nsDelay,     \* the arguments of the Synchronize under way
  nsWake,                 \* when its SleepWait times out
  ids,                    \* history: the EventIds returned to user code
  runs                    \* history: number of calls of Run

listVars == <<m_events, m_uid, m_unscheduledEvents>>
currentVars == <<m_currentTs, m_currentUid>>
waitVars == <<nsCurrent, nsDelay, nsWake>>
fixedVars == <<m_synchronizationMode, runs>>
vars == <<listVars, currentVars, m_stop, m_running, fixedVars, cancelled,
          m_realtimeOriginNano, m_condition, wall, pc, waitVars, ids>>

(***************************************************************************)
(* The main thread is outside Run (idle), in Run before the origin is set  *)
(* (starting), at the test of m_stop (loop), at the emptiness test (check),*)
(* about to compute a wait (wait), entering Synchronize, asleep or         *)
(* spinning in it for an event (sync, sleep, spin) or for want of one      *)
(* (idleSync, idleSleep, idleSpin), about to take the event at the head    *)
(* (take), in the event's code (event), or dead in NS_FATAL_ERROR (fatal). *)
(***************************************************************************)
PCs == {"idle", "starting", "loop", "check", "wait", "sync", "sleep", "spin", "idleSync",
        "idleSleep", "idleSpin", "take", "event", "fatal"}

\* A slip: the two units are mixed up.
MutTimeStepToNanosecond(ts) == (ts * StepsPerNs) \div NsPerStep

\* TimeStepToNanosecond and NanosecondToTimeStep: integer division drops what
\* the coarser unit cannot hold.
TimeStepToNanosecond(ts) == (ts * NsPerStep) \div StepsPerNs
NanosecondToTimeStep(ns) == (ns * StepsPerNs) \div NsPerStep

GetNormalizedRealtime == wall - m_realtimeOriginNano
GetCurrentRealtime == NanosecondToTimeStep(GetNormalizedRealtime)

InUserCode == pc \in {"idle", "event"}
MayCreate == m_uid < VALID + MaxEvents

------------------------------------------------------------------------------

Init ==
  /\ m_events = {} /\ m_uid = VALID /\ m_unscheduledEvents = 0
  /\ m_currentTs = 0 /\ m_currentUid = INVALID
  /\ m_stop = FALSE /\ m_running = FALSE
  /\ m_synchronizationMode \in {"SYNC_BEST_EFFORT", "SYNC_HARD_LIMIT"}
  /\ cancelled = {}
  /\ m_realtimeOriginNano = 0
  /\ m_condition \in BOOLEAN
  /\ wall = Epoch
  /\ pc = "idle"
  /\ nsCurrent = 0 /\ nsDelay = 0 /\ nsWake = 0
  /\ ids = {} /\ runs = 0

NewEvent(ts) == [ts |-> ts, uid |-> m_uid]

\* The mutex section of every Schedule call, the Signal to the synchronizer
\* included.
Insert(ts) ==
  /\ MayCreate
  /\ m_events' = m_events \cup {NewEvent(ts)}
  /\ m_uid' = m_uid + 1
  /\ m_unscheduledEvents' = m_unscheduledEvents + 1
  /\ m_condition' = TRUE

\* Schedule and ScheduleNow.
Schedule(delay) ==
  /\ InUserCode
  /\ Insert(m_currentTs + delay)
  /\ ids' = ids \cup {NewEvent(m_currentTs + delay)}
  /\ UNCHANGED <<currentVars, m_stop, m_running, fixedVars, cancelled, m_realtimeOriginNano,
                 wall, pc, waitVars>>

ScheduleWithContextMain(delay) ==
  /\ InUserCode
  /\ Insert(m_currentTs + delay)
  /\ UNCHANGED <<currentVars, m_stop, m_running, fixedVars, cancelled, m_realtimeOriginNano,
                 wall, pc, waitVars, ids>>

\* The time a delay counts from, for other threads and ScheduleRealtimeNow.
StartOfDelay == IF m_running THEN GetCurrentRealtime ELSE m_currentTs

\* ScheduleWithContext called by another thread, at any time; with no delay it
\* is ScheduleRealtimeNowWithContext, which any thread may call.
ScheduleWithContextWorker(delay) ==
  /\ pc # "fatal"
  /\ Insert(StartOfDelay + delay)
  /\ UNCHANGED <<currentVars, m_stop, m_running, fixedVars, cancelled, m_realtimeOriginNano,
                 wall, pc, waitVars, ids>>

\* Unlike the others it does not ask whether the simulator is running.
ScheduleRealtimeWithContext(delay) ==
  /\ pc # "fatal"
  /\ Insert(GetCurrentRealtime + delay)
  /\ UNCHANGED <<currentVars, m_stop, m_running, fixedVars, cancelled, m_realtimeOriginNano,
                 wall, pc, waitVars, ids>>

IsExpired(id) ==
  \/ id.ts < m_currentTs
  \/ id.ts = m_currentTs /\ id.uid <= m_currentUid
  \/ id.uid \in cancelled

RemoveEvent(id) ==
  /\ InUserCode
  /\ ~IsExpired(id)
  /\ m_events' = m_events \ {id}
  /\ m_unscheduledEvents' = m_unscheduledEvents - 1
  /\ cancelled' = cancelled \cup {id.uid}
  /\ UNCHANGED <<m_uid, currentVars, m_stop, m_running, fixedVars, m_realtimeOriginNano,
                 m_condition, wall, pc, waitVars, ids>>

Cancel(id) ==
  /\ InUserCode
  /\ ~IsExpired(id)
  /\ cancelled' = cancelled \cup {id.uid}
  /\ UNCHANGED <<listVars, currentVars, m_stop, m_running, fixedVars, m_realtimeOriginNano,
                 m_condition, wall, pc, waitVars, ids>>

\* Stop and the event Stop(delay) schedules.  It neither asks which thread calls
\* nor signals the synchronizer: another thread may stop a wait under way.
Stop ==
  /\ pc # "fatal"
  /\ m_stop' = TRUE
  /\ UNCHANGED <<listVars, currentVars, m_running, fixedVars, cancelled, m_realtimeOriginNano,
                 m_condition, wall, pc, waitVars, ids>>

------------------------------------------------------------------------------
(* WallClockSynchronizer::DoSynchronize, as parts of the steps below. *)

\* DriftCorrect takes off the delay what has passed since nsCurrent was read.
DriftCorrect ==
  LET drift == GetNormalizedRealtime - nsCurrent IN
  IF drift < 0 THEN nsDelay ELSE IF drift <= nsDelay THEN nsDelay - drift ELSE 0

\* DoSynchronize sleeps if it has enough jiffies to wait, else it spins.
DoSynchronize(sleeping, spinning) ==
  LET numberJiffies == DriftCorrect \div Jiffy IN
  IF numberJiffies > SpinJiffies
  THEN pc' = sleeping /\ nsWake' = wall + (numberJiffies - SpinJiffies) * Jiffy
  ELSE pc' = spinning /\ UNCHANGED nsWake

\* A slip: the sleep has no timeout.
MutSleepWaitNoTimeout(spinning, returnFalse) ==
  /\ m_condition
  /\ pc' = spinning

\* SleepWait returns the value of m_condition once it is TRUE or at the
\* timeout; TRUE lets Synchronize go on to SpinWait, FALSE ends it with FALSE.
SleepWait(spinning, returnFalse) ==
  /\ m_condition \/ wall >= nsWake
  /\ pc' = IF m_condition THEN spinning ELSE returnFalse

\* A slip: a signal ends the wait as if the time had come.
MutSpinWaitSignalIsTime(returnTrue, returnFalse) ==
  /\ GetNormalizedRealtime >= nsCurrent + nsDelay \/ m_condition
  /\ pc' = returnTrue

\* The test of the drift and SpinWait: both return TRUE when the time has come;
\* before that SpinWait returns FALSE on a signal.
SpinWait(returnTrue, returnFalse) ==
  \/ GetNormalizedRealtime >= nsCurrent + nsDelay /\ pc' = returnTrue
  \/ GetNormalizedRealtime < nsCurrent + nsDelay /\ m_condition /\ pc' = returnFalse

------------------------------------------------------------------------------

\* Run up to SetOrigin: the other threads already see m_running.
Run ==
  /\ pc = "idle"
  /\ runs < MaxRuns
  /\ runs' = runs + 1
  /\ m_stop' = FALSE
  /\ m_running' = TRUE
  /\ pc' = "starting"
  /\ UNCHANGED <<listVars, currentVars, m_synchronizationMode, cancelled,
                 m_realtimeOriginNano, m_condition, wall, waitVars, ids>>

mainUnchanged == <<m_running, fixedVars, wall, ids>>

\* DoSetOrigin does not use its argument, the current simulation time.
SetOrigin ==
  /\ pc = "starting"
  /\ m_realtimeOriginNano' = wall
  /\ pc' = "loop"
  /\ UNCHANGED <<listVars, currentVars, m_stop, cancelled, m_condition, waitVars,
                 mainUnchanged>>

\* A slip: Run waits for the end of the events before it looks at m_stop.
MutTestStopWhenEmpty ==
  /\ pc = "loop"
  /\ IF m_stop /\ m_events = {} THEN pc' = "idle" /\ m_running' = FALSE
                               ELSE pc' = "check" /\ UNCHANGED m_running
  /\ UNCHANGED <<listVars, currentVars, m_stop, fixedVars, cancelled, m_realtimeOriginNano,
                 m_condition, wall, waitVars, ids>>

TestStop ==
  /\ pc = "loop"
  /\ IF m_stop THEN pc' = "idle" /\ m_running' = FALSE
               ELSE pc' = "check" /\ UNCHANGED m_running
  /\ UNCHANGED <<listVars, currentVars, m_stop, fixedVars, cancelled, m_realtimeOriginNano,
                 m_condition, wall, waitVars, ids>>

\* Under the mutex: is there an event?  If not, wait for one, with the
\* condition as it happens to be.
CheckEvents ==
  /\ pc = "check"
  /\ IF m_events # {}
     THEN pc' = "wait" /\ UNCHANGED <<nsCurrent, nsDelay>>
     ELSE /\ pc' = "idleSync"
          /\ nsCurrent' = TimeStepToNanosecond(GetCurrentRealtime)
          /\ nsDelay' = TimeStepToNanosecond(IdleDelay)
  /\ UNCHANGED <<listVars, currentVars, m_stop, cancelled, m_realtimeOriginNano, m_condition,
                 nsWake, mainUnchanged>>

\* Synchronize when there was no event; what it returns is not looked at.
IdleWait ==
  /\ \/ pc = "idleSync" /\ DoSynchronize("idleSleep", "idleSpin")
     \/ pc = "idleSleep" /\ SleepWait("idleSpin", "loop") /\ UNCHANGED nsWake
     \/ pc = "idleSpin" /\ SpinWait("loop", "loop") /\ UNCHANGED nsWake
  /\ UNCHANGED <<listVars, currentVars, m_stop, cancelled, m_realtimeOriginNano, m_condition,
                 nsCurrent, nsDelay, mainUnchanged>>

\* The mutex section that begins each turn of the waiting loop.
ComputeWait ==
  /\ pc = "wait"
  /\ LET tsNow == GetCurrentRealtime
         tsNext == Earliest(m_events).ts
         tsDelay == IF tsNext <= tsNow THEN 0 ELSE tsNext - tsNow
     IN
       /\ nsCurrent' = TimeStepToNanosecond(tsNow)
       /\ nsDelay' = TimeStepToNanosecond(tsDelay)
  /\ m_condition' = FALSE
  /\ pc' = "sync"
  /\ UNCHANGED <<listVars, currentVars, m_stop, cancelled, m_realtimeOriginNano, nsWake,
                 mainUnchanged>>

\* A slip: the condition is reset after the mutex is released, which wipes out
\* a signal given in between.
MutWaitForEventResets ==
  /\ \/ pc = "sync" /\ DoSynchronize("sleep", "spin") /\ m_condition' = FALSE
     \/ pc = "sleep" /\ SleepWait("spin", "wait") /\ UNCHANGED <<nsWake, m_condition>>
     \/ pc = "spin" /\ SpinWait("take", "wait") /\ UNCHANGED <<nsWake, m_condition>>
  /\ UNCHANGED <<listVars, currentVars, m_stop, cancelled, m_realtimeOriginNano,
                 nsCurrent, nsDelay, mainUnchanged>>

\* The rest of the loop: Synchronize returns TRUE when the time has come, and
\* FALSE when the wait must be computed again.
WaitForEvent ==
  /\ \/ pc = "sync" /\ DoSynchronize("sleep", "spin")
     \/ pc = "sleep" /\ SleepWait("spin", "wait") /\ UNCHANGED nsWake
     \/ pc = "spin" /\ SpinWait("take", "wait") /\ UNCHANGED nsWake
  /\ UNCHANGED <<listVars, currentVars, m_stop, cancelled, m_realtimeOriginNano, m_condition,
                 nsCurrent, nsDelay, mainUnchanged>>

HardLimitExceeded(ts) ==
  LET tsFinal == GetCurrentRealtime
      tsJitter == IF tsFinal >= ts THEN tsFinal - ts ELSE ts - tsFinal
  IN m_synchronizationMode = "SYNC_HARD_LIMIT" /\ tsJitter > HardLimit

\* The second mutex section of ProcessOneEvent: whatever event is now at the
\* head is taken.  Invoke calls the event's code unless it was cancelled.
TakeEvent ==
  /\ pc = "take"
  /\ LET next == Earliest(m_events) IN
       /\ m_events' = m_events \ {next}
       /\ m_currentTs' = next.ts
       /\ m_currentUid' = next.uid
       /\ pc' = IF HardLimitExceeded(next.ts) THEN "fatal"
                ELSE IF next.uid \in cancelled THEN "loop" ELSE "event"
  /\ m_unscheduledEvents' = m_unscheduledEvents - 1
  /\ UNCHANGED <<m_uid, m_stop, cancelled, m_realtimeOriginNano, m_condition, waitVars,
                 mainUnchanged>>

EventReturns ==
  /\ pc = "event"
  /\ pc' = "loop"
  /\ UNCHANGED <<listVars, currentVars, m_stop, cancelled, m_realtimeOriginNano, m_condition,
                 waitVars, mainUnchanged>>

Tick ==
  /\ wall < MaxWall
  /\ wall' = wall + 1
  /\ UNCHANGED <<listVars, currentVars, m_stop, m_running, fixedVars, cancelled,
                 m_realtimeOriginNano, m_condition, pc, waitVars, ids>>

UserStep ==
  \/ \E delay \in Delays : Schedule(delay) \/ ScheduleWithContextMain(delay)
  \/ \E id \in ids : RemoveEvent(id) \/ Cancel(id)

WorkerStep ==
  \/ \E delay \in Delays : ScheduleWithContextWorker(delay) \/ ScheduleRealtimeWithContext(delay)
  \/ Stop

MainStep ==
  \/ SetOrigin \/ TestStop \/ CheckEvents \/ IdleWait
  \/ ComputeWait \/ WaitForEvent \/ TakeEvent \/ EventReturns

Next == UserStep \/ WorkerStep \/ Run \/ MainStep \/ Tick

Spec == Init /\ [][Next]_vars

\* The operating system runs the main thread and lets time pass.
FairSpec == Spec /\ WF_vars(MainStep) /\ WF_vars(Tick)

------------------------------------------------------------------------------

EventIds == [ts : Nat, uid : Nat]

\* The members keep their types; wall is never behind the origin.
TypeOK ==
  /\ m_events \subseteq EventIds
  /\ m_uid \in Nat
  /\ m_unscheduledEvents \in Int
  /\ m_currentTs \in Nat
  /\ m_currentUid \in Nat
  /\ m_stop \in BOOLEAN
  /\ m_running \in BOOLEAN
  /\ m_synchronizationMode \in {"SYNC_BEST_EFFORT", "SYNC_HARD_LIMIT"}
  /\ cancelled \subseteq Nat
  /\ wall \in Nat
  /\ m_realtimeOriginNano \in 0 .. wall
  /\ m_condition \in BOOLEAN
  /\ pc \in PCs
  /\ nsCurrent \in Nat
  /\ nsDelay \in Nat
  /\ nsWake \in Nat
  /\ ids \subseteq EventIds
  /\ runs \in Nat

CurrentKey == [ts |-> m_currentTs, uid |-> m_currentUid]

\* Whichever thread inserts an event, and whenever, the event lies ahead of the
\* one executed last: the assertions ts >= m_currentTs in ScheduleWithContext
\* and next.key.m_ts >= m_currentTs in ProcessOneEvent hold.  It is real time
\* that gives the worker its time stamp, so this depends on the waits.
ListAheadOfClock == \A e \in m_events : Less(CurrentKey, e)

\* No event starts before its time: whatever the signals, the sleeps that
\* return early and the events put in front of the one waited for.
NeverEarly == pc = "event" => GetNormalizedRealtime >= TimeStepToNanosecond(m_currentTs)

\* A wait that is too long for the head of the list has been signalled: an
\* insertion between the computation of the wait and its start is not lost.
NoLostWakeup ==
  /\ pc \in {"sync", "sleep", "spin"} =>
       \/ m_condition
       \/ GetNormalizedRealtime >= nsCurrent + nsDelay
       \/ \A e \in m_events : TimeStepToNanosecond(e.ts) >= nsCurrent + nsDelay
  /\ pc \in {"idleSync", "idleSleep", "idleSpin"} => m_condition \/ m_events = {}

\* Run has set the origin of real time.
Pacing == m_running /\ pc # "starting"

\* An event that is due does not wait for ever while the simulator runs, in
\* whatever sleep or spin the main thread was when the event came in.
DueEventRuns ==
  \A u \in VALID .. VALID + MaxEvents - 1 :
    (Pacing /\ \E e \in m_events : e.uid = u /\ GetCurrentRealtime >= e.ts)
      ~> (~m_running \/ pc = "fatal" \/ ~\E e \in m_events : e.uid = u)

Waiting == pc \in {"sync", "sleep", "spin", "idleSync", "idleSleep", "idleSpin"}

\* Stop ends Run, whichever thread calls it and whatever the main thread waits
\* for: Stop wakes nobody up, so Run returns when the wait under way is over.
\* (Waits that would outlast the clock of the instance are left out.)
StopEndsRun ==
  (/\ m_running /\ m_stop
   /\ \/ pc \in {"starting", "loop", "take", "event"}
      \/ Waiting /\ m_realtimeOriginNano + nsCurrent + nsDelay <= MaxWall)
  ~> (~m_running \/ pc = "fatal")

==============================================================================
