-------------------------------- MODULE Timer --------------------------------
(***************************************************************************)
(* ns3::Timer (core/model/timer.cc): a delay and a function, on top of     *)
(* Simulator::Schedule.  The simulator is what EventAgenda promises, cut   *)
(* down to the events of one timer: they come up in the order of their     *)
(* times, and those that were cancelled come up without a call.            *)
(* Schedule() is Schedule(delay) with the delay that SetDelay stored.      *)
(***************************************************************************)
EXTENDS Integers, FiniteSets

CONSTANTS
  Policies,           \* DestroyPolicy values to try
  Delays,             \* delays given to Schedule
  MaxTime,            \* bound: the simulation ends at this time
  MaxSchedules,       \* bound: number of events the timer creates
  ScheduleSuspended   \* may the client call Schedule on a suspended timer?

ASSUME TimerAssumption ==
  /\ Policies \subseteq {"CANCEL_ON_DESTROY", "REMOVE_ON_DESTROY", "CHECK_ON_DESTROY"}
  /\ Delays \subseteq Nat /\ MaxTime \in Nat /\ MaxSchedules \in Nat
  /\ ScheduleSuspended \in BOOLEAN

VARIABLES
  policy, suspended,  \* the two parts of m_flags
  m_event,            \* the id of the event scheduled last, 0 if none
  m_delayLeft,
  alive,              \* FALSE once the timer is destroyed
  now,                \* Simulator::Now
  queue,              \* the timer's events in the event list
  cancelled,          \* ids of the cancelled ones
  count,              \* number of events created
  asked, ran,         \* history: the delay asked for, and the time run of it
  calls,              \* history: number of calls of the timer's function
  leftInList          \* history: Suspend left the event of a suspended timer in the list

timerVars == <<policy, suspended, m_event, m_delayLeft, alive>>
timerState == <<timerVars, now, queue, cancelled, count, asked, ran, calls, leftInList>>

TimerInit ==
  /\ policy \in Policies
  /\ suspended = FALSE
  /\ m_event = 0
  /\ m_delayLeft = 0
  /\ alive = TRUE
  /\ now = 0
  /\ queue = {}
  /\ cancelled = {}
  /\ count = 0
  /\ asked = 0 /\ ran = 0
  /\ calls = 0
  /\ leftInList = FALSE

\* EventId::IsPending of m_event.
IsPending == m_event \notin cancelled /\ \E e \in queue : e.id = m_event

IsRunning == ~suspended /\ IsPending

\* TimerImpl::Schedule: a new event, kept in m_event.
ScheduleEvent(delay) ==
  /\ count < MaxSchedules
  /\ now + delay <= MaxTime
  /\ count' = count + 1
  /\ m_event' = count + 1
  /\ queue' = queue \cup {[ts |-> now + delay, id |-> count + 1]}

\* EventId::Cancel and EventId::Remove of m_event.
CancelEvent ==
  /\ cancelled' = IF IsPending THEN cancelled \cup {m_event} ELSE cancelled
  /\ UNCHANGED queue

RemoveEvent ==
  /\ cancelled' = IF IsPending THEN cancelled \cup {m_event} ELSE cancelled
  /\ queue' = IF IsPending THEN {e \in queue : e.id # m_event} ELSE queue

\* Scheduling a timer whose event is pending is a fatal error.
Schedule(delay) ==
  /\ alive
  /\ suspended => ScheduleSuspended
  /\ ~IsPending
  /\ ScheduleEvent(delay)
  /\ asked' = delay /\ ran' = 0
  /\ UNCHANGED <<policy, suspended, m_delayLeft, alive, now, cancelled, calls, leftInList>>

Cancel ==
  /\ alive
  /\ CancelEvent
  /\ UNCHANGED <<timerVars, now, count, asked, ran, calls, leftInList>>

RemoveTimer ==
  /\ alive
  /\ RemoveEvent
  /\ UNCHANGED <<timerVars, now, count, asked, ran, calls, leftInList>>

DelayLeft == (CHOOSE e \in queue : e.id = m_event).ts - now

\* What the policy does with the event; CHECK_ON_DESTROY does nothing.
ApplyPolicy ==
  \/ policy = "CANCEL_ON_DESTROY" /\ CancelEvent
  \/ policy = "REMOVE_ON_DESTROY" /\ RemoveEvent
  \/ policy = "CHECK_ON_DESTROY" /\ UNCHANGED <<cancelled, queue>>

\* A slip: the time left is not saved.
MutSuspendForgets ==
  /\ alive
  /\ IsRunning
  /\ ApplyPolicy
  /\ suspended' = TRUE
  /\ leftInList' = (leftInList \/ policy = "CHECK_ON_DESTROY")
  /\ UNCHANGED <<policy, m_event, m_delayLeft, alive, now, count, asked, ran, calls>>

Suspend ==
  /\ alive
  /\ IsRunning
  /\ m_delayLeft' = DelayLeft
  /\ ApplyPolicy
  /\ suspended' = TRUE
  /\ leftInList' = (leftInList \/ policy = "CHECK_ON_DESTROY")
  /\ UNCHANGED <<policy, m_event, alive, now, count, asked, ran, calls>>

Resume ==
  /\ alive
  /\ suspended
  /\ ScheduleEvent(m_delayLeft)
  /\ suspended' = FALSE
  /\ UNCHANGED <<policy, m_delayLeft, alive, now, cancelled, asked, ran, calls, leftInList>>

\* A slip: the policy is not applied.
MutDestroyNoPolicy ==
  /\ alive
  /\ policy = "CHECK_ON_DESTROY" => ~IsPending
  /\ alive' = FALSE
  /\ UNCHANGED <<policy, suspended, m_event, m_delayLeft, now, queue, cancelled, count, asked,
                 ran, calls, leftInList>>

\* ~Timer.  With CHECK_ON_DESTROY a pending event is a fatal error.
Destroy ==
  /\ alive
  /\ policy = "CHECK_ON_DESTROY" => ~IsPending
  /\ ApplyPolicy
  /\ alive' = FALSE
  /\ UNCHANGED <<policy, suspended, m_event, m_delayLeft, now, count, asked, ran, calls, leftInList>>

\* The simulator takes the next event that has come up.
Expire ==
  /\ \E e \in queue :
       /\ e.ts = now
       /\ \A f \in queue : f.ts > now \/ f.id >= e.id
       /\ queue' = queue \ {e}
       /\ calls' = IF e.id \in cancelled THEN calls ELSE calls + 1
  /\ UNCHANGED <<timerVars, now, cancelled, count, asked, ran, leftInList>>

\* Time passes when no event is left for the current time.
Advance ==
  /\ now < MaxTime
  /\ \A e \in queue : e.ts > now
  /\ now' = now + 1
  /\ ran' = IF IsRunning THEN ran + 1 ELSE ran
  /\ UNCHANGED <<timerVars, queue, cancelled, count, asked, calls, leftInList>>

TimerNext ==
  \/ \E delay \in Delays : Schedule(delay)
  \/ Cancel \/ RemoveTimer \/ Suspend \/ Resume \/ Destroy
  \/ Expire \/ Advance

TimerSpec == TimerInit /\ [][TimerNext]_timerState

------------------------------------------------------------------------------

\* The function is called only for a timer that is neither suspended nor
\* destroyed, and when the timer has run for exactly the delay asked for,
\* however often it was suspended and resumed in between; save where the
\* default policy made Suspend leave the event in the list.
CalledOnTime ==
  [][calls' # calls /\ ~leftInList => alive /\ ~suspended /\ ran = asked]_timerState

\* No event that will call the function escapes the timer's m_event: Cancel,
\* Remove and the destructor reach every call that is still to come.
NoStrayEvent ==
  ~leftInList =>
    \A e \in queue : e.id \in cancelled \/ (e.id = m_event /\ alive /\ ~suspended)

------------------------------------------------------------------------------
(* Documented behaviour the code does not keep. *)

\* timer.h: Suspend is to "Pause the timer and save the amount of time left".
\* With the default policy the event stays in the list.
SuspendedIsQuiet == [][calls' # calls => ~suspended]_timerState

\* timer.h: the policy "cancels the event from the destructor of the Timer".
\* Resume overwrites m_event without the test that Schedule makes, so the
\* event of a Schedule on a suspended timer is out of the destructor's reach.
DestroyedIsQuiet ==
  [][calls' # calls => (alive \/ policy # "CANCEL_ON_DESTROY")]_timerState

==============================================================================
