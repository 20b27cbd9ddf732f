----------------------------- MODULE TimeoutProofs ----------------------------
(***************************************************************************)
(* Proofs about what waits for a time to come: Timer and Watchdog, for any *)
(* delays, destroy policies and numbers of calls, as long as no client     *)
(* calls Schedule on a suspended timer; and hybrid ARQ, whose processes    *)
(* expire, for any number of processes, transmissions of a block, slots of *)
(* delay and block sizes.  The two parts share no variable; Init, Next and *)
(* Spec are those of hybrid ARQ.                                           *)
(***************************************************************************)
EXTENDS MmWaveHarq, Timers, CommonLemmas

------------------------------------------------------------------------------
(* Timer and Watchdog *)

\* The client of a timer looks before it calls Schedule on a suspended one:
\* Schedule itself does not, see TimerResume.cfg.
NoScheduleSuspended == ~ScheduleSuspended

TimerTypeOK ==
  /\ policy \in {"CANCEL_ON_DESTROY", "REMOVE_ON_DESTROY", "CHECK_ON_DESTROY"}
  /\ suspended \in BOOLEAN /\ alive \in BOOLEAN /\ leftInList \in BOOLEAN
  /\ m_event \in Nat /\ m_delayLeft \in Nat /\ now \in Nat /\ count \in Nat
  /\ asked \in Nat /\ ran \in Nat /\ calls \in Nat
  /\ queue \subseteq [ts : Nat, id : Nat] /\ cancelled \subseteq Nat

\* The events in the list lie ahead, each with an id of its own.
QueueInv ==
  /\ \A e \in queue : now <= e.ts /\ 1 <= e.id /\ e.id <= count
  /\ \A e, f \in queue : e.id = f.id => e = f
  /\ \A id \in cancelled : id <= count

\* The event that will call the function is due when the rest of the delay has
\* run; while the timer is suspended the rest is kept in m_delayLeft.
RestInv ==
  ~leftInList =>
    /\ \A e \in queue : e.id \notin cancelled => e.ts + ran = now + asked
    /\ suspended => m_delayLeft + ran = asked

\* The part of the state that is the watchdog's: the latest end is that of a
\* Ping since the function was last triggered, or has passed.
WatchdogInv ==
  /\ m_end \in Nat /\ ends \subseteq Nat
  /\ \A t \in ends : t <= m_end
  /\ IF ends = {} THEN m_end <= now ELSE m_end \in ends

\* A behaviour is that of one client; the other stays as it was made.
ClientInv ==
  /\ client \in {"Timer", "Watchdog"}
  /\ client = "Watchdog" => queue = {} /\ ~suspended
  /\ client = "Timer" => ends = {} /\ m_end = 0

TimerInv == TimerTypeOK /\ QueueInv /\ NoStrayEvent /\ RestInv
TimersInv == TimerInv /\ WatchdogInv /\ ClientInv

------------------------------------------------------------------------------
(* The timer. *)

\* TimerImpl::Schedule adds the only event that will call the function, due
\* when what is left of the delay has run.
LEMMA ScheduleEventKeeps ==
  ASSUME TimerInv, NEW delay \in Nat, ScheduleEvent(delay),
         alive, suspended' = FALSE,
         UNCHANGED <<alive, policy, now, cancelled, calls, leftInList, m_delayLeft>>,
         asked' \in Nat, ran' \in Nat,
         ~leftInList => asked' = delay + ran' /\ \A e \in queue : e.id \in cancelled
  PROVE  TimerInv'
<1> DEFINE new == [ts |-> now + delay, id |-> count + 1]
<1>0. TimerTypeOK /\ QueueInv /\ NoStrayEvent /\ RestInv
  BY DEF TimerInv
<1>1. /\ queue' = queue \cup {new} /\ m_event' = count + 1 /\ count' = count + 1
      /\ new \in [ts : Nat, id : Nat] /\ new.ts = now + delay /\ new.id = count + 1
      /\ \A e \in queue : e.ts \in Nat /\ e.id \in Nat
  BY <1>0 DEF ScheduleEvent, TimerTypeOK
<1> HIDE DEF new
<1>2. TimerTypeOK'
  BY <1>0, <1>1 DEF TimerTypeOK
<1>3. QueueInv'
  BY <1>0, <1>1 DEF QueueInv, TimerTypeOK
<1>4. NoStrayEvent'
  BY <1>0, <1>1 DEF NoStrayEvent
<1>5. RestInv'
  <2>1. ASSUME ~leftInList, NEW e \in queue', e.id \notin cancelled
        PROVE  e.ts + ran' = now + asked'
    <3>1. e = new
      BY <1>1, <2>1
    <3> QED
      BY <1>0, <1>1, <2>1, <3>1 DEF TimerTypeOK
  <2> QED
    BY <2>1 DEF RestInv
<1> QED
  BY <1>2, <1>3, <1>4, <1>5 DEF TimerInv

\* Cancel and Remove of m_event, and what a destroy policy does with it: no
\* other event is touched, and m_event calls no more.
LEMMA TakenBack ==
  ASSUME TimerInv, CancelEvent \/ RemoveEvent
  PROVE  /\ queue' \subseteq queue
         /\ cancelled \subseteq cancelled'
         /\ cancelled' \subseteq cancelled \cup {m_event}
         /\ cancelled' \subseteq Nat
         /\ \A id \in cancelled' : id <= count
         /\ ~leftInList => \A e \in queue' : e.id \in cancelled'
<1>0. TimerTypeOK /\ QueueInv /\ NoStrayEvent
  BY DEF TimerInv
<1>1. IsPending => m_event <= count
  BY <1>0 DEF IsPending, QueueInv
<1>2. /\ queue' \subseteq queue /\ cancelled \subseteq cancelled'
      /\ cancelled' \subseteq cancelled \cup {m_event} /\ cancelled' \subseteq Nat
  BY <1>0 DEF CancelEvent, RemoveEvent, TimerTypeOK
<1>3. \A id \in cancelled' : id <= count
  BY <1>0, <1>1 DEF CancelEvent, RemoveEvent, QueueInv
<1>4. ASSUME ~leftInList, NEW e \in queue' PROVE e.id \in cancelled'
  <2>1. e.id \in cancelled \/ e.id = m_event
    BY <1>0, <1>2, <1>4 DEF NoStrayEvent
  <2>2. CASE IsPending
    BY <1>2, <2>1, <2>2 DEF CancelEvent, RemoveEvent
  <2>3. CASE ~IsPending
    BY <1>2, <2>1, <2>3 DEF IsPending
  <2> QED
    BY <2>2, <2>3
<1> QED
  BY <1>2, <1>3, <1>4

\* A step that takes m_event back, or leaves the list as it is because there is
\* nothing in it that calls, keeps the invariant; Suspend saves what is left.
LEMMA TakenBackKeeps ==
  ASSUME TimerInv,
         queue' \subseteq queue, cancelled \subseteq cancelled',
         cancelled' \subseteq Nat, \A id \in cancelled' : id <= count,
         ~leftInList' => ~leftInList /\ \A e \in queue' : e.id \in cancelled',
         suspended' \in BOOLEAN, alive' \in BOOLEAN, leftInList' \in BOOLEAN,
         m_delayLeft' \in Nat, ~leftInList' /\ suspended' => m_delayLeft' + ran = asked,
         UNCHANGED <<policy, m_event, now, count, asked, ran, calls>>
  PROVE  TimerInv'
BY DEF TimerInv, TimerTypeOK, QueueInv, NoStrayEvent, RestInv

\* The time left is that of the event Suspend found pending.
LEMMA DelayLeftIsRest ==
  ASSUME TimerInv, IsPending
  PROVE  /\ DelayLeft \in Nat
         /\ ~leftInList => DelayLeft + ran = asked
<1> DEFINE event == CHOOSE e \in queue : e.id = m_event
<1>1. event \in queue /\ event.id = m_event
  BY DEF IsPending
<1>2. DelayLeft = event.ts - now
  BY DEF DelayLeft
<1> HIDE DEF event
<1>3. event.ts \in Nat /\ now \in Nat /\ ran \in Nat /\ asked \in Nat
  BY <1>1 DEF TimerInv, TimerTypeOK
<1> QED
  BY <1>1, <1>2, <1>3 DEF TimerInv, TimerTypeOK, QueueInv, RestInv, IsPending

\* Nothing in the list will call the function of a timer that is not pending.
LEMMA NotPendingIsQuiet ==
  ASSUME TimerInv, suspended \/ ~IsPending, ~leftInList
  PROVE  \A e \in queue : e.id \in cancelled
BY DEF TimerInv, NoStrayEvent, IsPending

LEMMA ScheduleKeeps ==
  ASSUME NoScheduleSuspended, TimerInv, NEW delay \in Delays, Schedule(delay)
  PROVE  TimerInv'
<1>1. delay \in Nat
  BY TimerAssumption DEF TimerAssumption
<1>2. ~leftInList => \A e \in queue : e.id \in cancelled
  BY NotPendingIsQuiet DEF Schedule
<1>3. suspended' = FALSE
  BY DEF Schedule, NoScheduleSuspended, TimerInv, TimerTypeOK
<1>4. /\ ScheduleEvent(delay) /\ alive /\ asked' = delay /\ ran' = 0
      /\ UNCHANGED <<alive, policy, now, cancelled, calls, leftInList, m_delayLeft>>
  BY DEF Schedule
<1>5. asked' \in Nat /\ ran' \in Nat /\ asked' = delay + ran'
  BY <1>1, <1>4
<1> QED
  BY <1>1, <1>2, <1>3, <1>4, <1>5, ScheduleEventKeeps

LEMMA CancelOrRemoveKeeps ==
  ASSUME TimerInv, Cancel \/ RemoveTimer
  PROVE  TimerInv'
<1>1. CancelEvent \/ RemoveEvent
  BY DEF Cancel, RemoveTimer
<1>2. UNCHANGED <<timerVars, now, count, asked, ran, calls, leftInList>>
  BY DEF Cancel, RemoveTimer
<1> QED
  BY <1>1, <1>2, TakenBack, TakenBackKeeps DEF timerVars, TimerInv, TimerTypeOK, RestInv

LEMMA SuspendKeeps ==
  ASSUME TimerInv, Suspend
  PROVE  TimerInv'
<1>0. /\ IsPending /\ suspended' = TRUE /\ m_delayLeft' = DelayLeft
      /\ leftInList' = (leftInList \/ policy = "CHECK_ON_DESTROY")
      /\ UNCHANGED <<policy, m_event, alive, now, count, asked, ran, calls>>
      /\ TimerTypeOK /\ QueueInv
  BY DEF Suspend, IsRunning, TimerInv
<1>1. CASE policy = "CHECK_ON_DESTROY"
  <2>1. UNCHANGED <<cancelled, queue>> /\ leftInList' = TRUE
    BY <1>0, <1>1 DEF Suspend, ApplyPolicy
  <2> QED
    BY <1>0, <2>1, DelayLeftIsRest, TakenBackKeeps DEF TimerTypeOK, QueueInv
<1>2. CASE policy # "CHECK_ON_DESTROY"
  <2>1. CancelEvent \/ RemoveEvent
    BY <1>2 DEF Suspend, ApplyPolicy
  <2>2. leftInList' = leftInList
    BY <1>0, <1>2 DEF TimerTypeOK
  <2> QED
    BY <1>0, <2>1, <2>2, DelayLeftIsRest, TakenBack, TakenBackKeeps DEF TimerTypeOK
<1> QED
  BY <1>1, <1>2

LEMMA ResumeKeeps ==
  ASSUME TimerInv, Resume
  PROVE  TimerInv'
<1>0. TimerTypeOK /\ QueueInv /\ NoStrayEvent /\ RestInv
  BY DEF TimerInv
<1>1. /\ ScheduleEvent(m_delayLeft) /\ alive /\ suspended' = FALSE
      /\ UNCHANGED <<alive, policy, now, cancelled, calls, leftInList, m_delayLeft, asked, ran>>
  BY DEF Resume
<1>2. m_delayLeft \in Nat /\ asked' \in Nat /\ ran' \in Nat
  BY <1>0, <1>1 DEF TimerTypeOK
<1>3. ~leftInList => asked' = m_delayLeft + ran'
  BY <1>0, <1>1 DEF Resume, RestInv
<1>4. ~leftInList => \A e \in queue : e.id \in cancelled
  BY NotPendingIsQuiet DEF Resume
<1> QED
  BY <1>1, <1>2, <1>3, <1>4, ScheduleEventKeeps

LEMMA DestroyKeeps ==
  ASSUME TimerInv, Destroy
  PROVE  TimerInv'
<1>0. /\ TimerTypeOK /\ QueueInv /\ RestInv
      /\ UNCHANGED <<policy, suspended, m_event, m_delayLeft, now, count, asked, ran, calls,
                     leftInList>>
      /\ alive' = FALSE
  BY DEF Destroy, TimerInv
<1>1. CASE policy = "CHECK_ON_DESTROY"
  <2>1. UNCHANGED <<cancelled, queue>> /\ ~IsPending
    BY <1>1 DEF Destroy, ApplyPolicy
  <2> QED
    BY <1>0, <2>1, NotPendingIsQuiet, TakenBackKeeps DEF TimerTypeOK, QueueInv, RestInv
<1>2. CASE policy # "CHECK_ON_DESTROY"
  <2>1. CancelEvent \/ RemoveEvent
    BY <1>2 DEF Destroy, ApplyPolicy
  <2> QED
    BY <1>0, <2>1, TakenBack, TakenBackKeeps DEF TimerTypeOK, RestInv
<1> QED
  BY <1>1, <1>2

\* The event that comes up leaves the list; if it calls, it is the one the
\* timer knows, and the delay has run.
LEMMA ExpireKeeps ==
  ASSUME TimerInv, Expire
  PROVE  /\ TimerInv'
         /\ calls' # calls /\ ~leftInList => alive /\ ~suspended /\ ran = asked
<1> PICK e \in queue :
      /\ e.ts = now
      /\ queue' = queue \ {e}
      /\ calls' = IF e.id \in cancelled THEN calls ELSE calls + 1
  BY DEF Expire
<1>1. UNCHANGED <<timerVars, now, cancelled, count, asked, ran, leftInList>>
  BY DEF Expire
<1>2. TimerInv'
  BY <1>1 DEF timerVars, TimerInv, TimerTypeOK, QueueInv, NoStrayEvent, RestInv
<1>3. calls' # calls /\ ~leftInList => alive /\ ~suspended /\ ran = asked
  BY DEF TimerInv, TimerTypeOK, NoStrayEvent, RestInv
<1> QED
  BY <1>2, <1>3

LEMMA AdvanceKeeps ==
  ASSUME TimerInv, Advance
  PROVE  TimerInv'
<1>0. TimerTypeOK /\ QueueInv /\ NoStrayEvent /\ RestInv
  BY DEF TimerInv
<1>1. /\ UNCHANGED <<timerVars, queue, cancelled, count, asked, calls, leftInList>>
      /\ now' = now + 1 /\ ran' = (IF IsRunning THEN ran + 1 ELSE ran)
      /\ \A e \in queue : e.ts > now
  BY DEF Advance
<1>2. TimerTypeOK' /\ QueueInv' /\ NoStrayEvent'
  BY <1>0, <1>1 DEF timerVars, TimerTypeOK, QueueInv, NoStrayEvent
<1>3. ASSUME ~leftInList, NEW e \in queue, e.id \notin cancelled
      PROVE  e.ts + ran' = now' + asked
  <2>1. IsRunning
    BY <1>0, <1>3 DEF NoStrayEvent, IsRunning, IsPending
  <2> QED
    BY <1>0, <1>1, <1>3, <2>1 DEF RestInv, TimerTypeOK
<1>4. suspended => ran' = ran
  BY <1>1 DEF IsRunning
<1>5. RestInv'
  BY <1>0, <1>1, <1>3, <1>4 DEF timerVars, RestInv
<1> QED
  BY <1>2, <1>5 DEF TimerInv

\* What the timer's steps keep, and when they call the function.
LEMMA TimerNextKeeps ==
  ASSUME NoScheduleSuspended, TimerInv, TimerNext
  PROVE  /\ TimerInv'
         /\ calls' # calls /\ ~leftInList => alive /\ ~suspended /\ ran = asked
<1>1. ASSUME NEW delay \in Delays, Schedule(delay)
      PROVE  TimerInv' /\ calls' = calls
  BY <1>1, ScheduleKeeps DEF Schedule
<1>2. CASE Cancel \/ RemoveTimer
  BY <1>2, CancelOrRemoveKeeps DEF Cancel, RemoveTimer
<1>3. CASE Suspend
  BY <1>3, SuspendKeeps DEF Suspend
<1>4. CASE Resume
  BY <1>4, ResumeKeeps DEF Resume
<1>5. CASE Destroy
  BY <1>5, DestroyKeeps DEF Destroy
<1>6. CASE Expire
  BY <1>6, ExpireKeeps
<1>7. CASE Advance
  BY <1>7, AdvanceKeeps DEF Advance
<1> QED
  BY <1>1, <1>2, <1>3, <1>4, <1>5, <1>6, <1>7 DEF TimerNext

------------------------------------------------------------------------------
(* The watchdog. *)

\* A Ping can only put the end off; what is triggered is triggered at it.
LEMMA WatchdogNextKeeps ==
  ASSUME WatchdogInv, now \in Nat, W!Next
  PROVE  /\ WatchdogInv'
         /\ now' \in Nat
         /\ W!Triggered => ends # {} /\ now = m_end
<1> USE DEF WatchdogInv
<1>1. ASSUME NEW delay \in PingDelays, W!Ping(delay)
      PROVE  /\ WatchdogInv' /\ now' = now /\ ~W!Triggered
  <2> DEFINE end == now + delay
  <2>1. end \in Nat /\ now <= end
    BY PingAssumption DEF PingAssumption
  <2>2. ends' = ends \cup {end} /\ now' = now
    BY <1>1 DEF W!Ping
  <2>3. m_end' = IF m_end <= end THEN end ELSE m_end
    <3>1. m_end' = W!Max({m_end, end})
      BY <1>1 DEF W!Ping
    <3> HIDE DEF end
    <3> QED
      BY <2>1, <3>1 DEF W!Max
  <2> HIDE DEF end
  <2>4. WatchdogInv'
    BY <2>1, <2>2, <2>3
  <2> QED
    BY <2>2, <2>4 DEF W!Triggered
<1>2. ASSUME W!Expire
      PROVE  /\ WatchdogInv' /\ now' = now
             /\ W!Triggered => ends # {} /\ now = m_end
  BY <1>2 DEF W!Expire, W!Triggers, W!Triggered
<1>3. ASSUME W!Destroy
      PROVE  /\ WatchdogInv' /\ now' = now /\ ~W!Triggered
  BY <1>3 DEF W!Destroy, W!Triggered
<1>4. ASSUME W!Advance
      PROVE  /\ WatchdogInv' /\ now' \in Nat /\ ~W!Triggered
  <2>1. now' = now + 1 /\ m_end' = m_end /\ ends' = ends
    BY <1>4 DEF W!Advance
  <2>2. now' \in Nat
    BY <2>1
  <2>3. ends = {} => m_end <= now + 1
    OBVIOUS
  <2>4. ~W!Triggered
    BY <2>1 DEF W!Triggered
  <2> QED
    BY <2>1, <2>2, <2>3, <2>4
<1> QED
  BY <1>1, <1>2, <1>3, <1>4 DEF W!Next

\* The end that holds is the latest of those asked for.
LEMMA EndIsLatest ==
  ASSUME WatchdogInv, ends # {}
  PROVE  m_end = W!Max(ends)
<1>1. /\ m_end \in ends /\ ends \subseteq Nat /\ \A t \in ends : t <= m_end
  BY DEF WatchdogInv
<1>2. \A x \in ends : (\A y \in ends : x >= y) => x = m_end
  BY <1>1
<1> QED
  BY <1>1, <1>2 DEF W!Max

------------------------------------------------------------------------------
(* Both. *)

LEMMA InitTimersInv == TimersInit => TimersInv
<1> SUFFICES ASSUME TimersInit PROVE TimersInv
  OBVIOUS
<1> USE DEF TimersInit, TimerInit, W!Init
<1>1. TimerTypeOK
  <2>1. policy \in {"CANCEL_ON_DESTROY", "REMOVE_ON_DESTROY", "CHECK_ON_DESTROY"}
    BY TimerAssumption DEF TimerAssumption
  <2>2. suspended \in BOOLEAN /\ alive \in BOOLEAN /\ leftInList \in BOOLEAN
    BY Zenon
  <2> QED
    BY <2>1, <2>2 DEF TimerTypeOK
<1>2. QueueInv /\ NoStrayEvent /\ RestInv
  BY DEF QueueInv, NoStrayEvent, RestInv
<1>3. WatchdogInv /\ ClientInv
  BY DEF WatchdogInv, ClientInv
<1> QED
  BY <1>1, <1>2, <1>3 DEF TimersInv, TimerInv

LEMMA TimerStepKeeps ==
  ASSUME NoScheduleSuspended, TimersInv, TimerStep
  PROVE  /\ TimersInv'
         /\ calls' # calls /\ ~leftInList => alive /\ ~suspended /\ ran = asked
         /\ ~W!Triggered
<1>1. /\ client = "Timer" /\ client' = client /\ m_end' = m_end /\ ends' = ends
      /\ TimerInv /\ TimerNext /\ ends = {} /\ m_end = 0
  BY DEF TimerStep, watchdogVars, TimersInv, ClientInv
<1>2. /\ TimerInv'
      /\ calls' # calls /\ ~leftInList => alive /\ ~suspended /\ ran = asked
  BY <1>1, TimerNextKeeps
<1>3. now' \in Nat
  BY <1>2 DEF TimerInv, TimerTypeOK
<1> QED
  BY <1>1, <1>2, <1>3 DEF TimersInv, WatchdogInv, ClientInv, W!Triggered

LEMMA WatchdogStepKeeps ==
  ASSUME TimersInv, WatchdogStep
  PROVE  /\ TimersInv' /\ calls' = calls
         /\ W!Triggered => now = W!Max(ends)
<1>1. /\ client = "Watchdog" /\ W!Next
      /\ UNCHANGED <<client, policy, suspended, m_event, m_delayLeft, alive, queue, cancelled,
                      count, asked, ran, calls, leftInList>>
      /\ TimerInv /\ WatchdogInv /\ queue = {} /\ ~suspended
  BY DEF WatchdogStep, timerVars, TimersInv, ClientInv
<1>2. now \in Nat
  BY <1>1 DEF TimerInv, TimerTypeOK
<1>3. /\ WatchdogInv' /\ now' \in Nat
      /\ W!Triggered => ends # {} /\ now = m_end
  BY <1>1, <1>2, WatchdogNextKeeps
<1>4. TimerInv'
  BY <1>1, <1>3 DEF TimerInv, TimerTypeOK, QueueInv, NoStrayEvent, RestInv
<1>5. ClientInv'
  BY <1>1 DEF ClientInv
<1> QED
  BY <1>1, <1>3, <1>4, <1>5, EndIsLatest DEF TimersInv

\* What a step keeps, and what it may do.
LEMMA StepKeeps ==
  ASSUME NoScheduleSuspended, TimersInv, [TimersNext]_allVars
  PROVE  /\ TimersInv'
         /\ calls' # calls /\ ~leftInList => alive /\ ~suspended /\ ran = asked
         /\ W!Triggered => now = W!Max(ends)
<1>1. CASE TimerStep
  BY <1>1, TimerStepKeeps
<1>2. CASE WatchdogStep
  BY <1>2, WatchdogStepKeeps
<1>3. CASE UNCHANGED allVars
  BY <1>3 DEF allVars, timerState, timerVars, watchdogVars, TimersInv, TimerInv, TimerTypeOK, QueueInv,
     NoStrayEvent, RestInv, WatchdogInv, ClientInv, IsPending, W!Triggered
<1> QED
  BY <1>1, <1>2, <1>3 DEF TimersNext

LEMMA TimersInvariant ==
  ASSUME NoScheduleSuspended
  PROVE  TimersSpec => []TimersInv
<1>1. TimersInv /\ [TimersNext]_allVars => TimersInv'
  BY StepKeeps
<1> QED
  BY InitTimersInv, <1>1, PTL DEF TimersSpec

\* timer.cc: m_event always names the one event that will still call the
\* function, so Cancel, Remove and ~Timer reach it, for any delays and policies.
THEOREM NoEventStrays ==
  ASSUME NoScheduleSuspended
  PROVE  TimersSpec => []NoStrayEvent
<1>1. TimersInv => NoStrayEvent
  BY DEF TimersInv, TimerInv
<1> QED
  BY <1>1, TimersInvariant, PTL

\* timer.cc: however often a timer is suspended and resumed, its function is
\* called when the timer has run for exactly the delay asked for.
THEOREM CallsAreOnTime ==
  ASSUME NoScheduleSuspended
  PROVE  TimersSpec => CalledOnTime
<1>1. TimersInv /\ [TimersNext]_allVars
        => [calls' # calls /\ ~leftInList => alive /\ ~suspended /\ ran = asked]_timerState
  BY StepKeeps
<1> QED
  BY <1>1, TimersInvariant, PTL DEF TimersSpec, CalledOnTime

\* watchdog.cc: although no Ping moves the pending event, the function is
\* triggered exactly at the latest end asked for since its last call.
THEOREM TriggersAtLatestEnd ==
  ASSUME NoScheduleSuspended
  PROVE  TimersSpec => TriggeredAtLatestEnd
<1>1. TimersInv /\ [TimersNext]_allVars
        => [W!Triggered => now = W!Max(ends)]_(W!vars)
  BY StepKeeps
<1> QED
  BY <1>1, TimersInvariant, PTL DEF TimersSpec, TriggeredAtLatestEnd, W!TriggeredAtLatestEnd

------------------------------------------------------------------------------
(* Hybrid ARQ *)

Transmissions == [process : Processes, rv : Nat, tb : Nat]
Infos == [process : Processes, rv : Nat, tb : Nat, ack : BOOLEAN]
Dcis == [rv : Nat, numSym : Nat]
Walks == [status : [Processes -> Nat], dci : [Processes -> Dcis], free : Nat,
          untxed : Seq(Infos), retx : Seq(Transmissions), lost : BOOLEAN]

\* The members of the scheduler and of the sender's MAC keep their types, and
\* so does what is on the way.
HarqTypeOK ==
  /\ direction \in Directions
  /\ status \in [Processes -> Nat]
  /\ timer \in [Processes -> 0 .. HarqTimeout]
  /\ dci \in [Processes -> Dcis]
  /\ infoList \in Seq(Infos)
  /\ harqId \in Nat
  /\ packets \in [Processes -> Nat]
  /\ air \in Seq(Seq(Transmissions)) /\ Len(air) = RoundTrip
  /\ received \in Seq(Infos)
  /\ tbs \in Nat
  /\ squeezed \in BOOLEAN

------------------------------------------------------------------------------
(* The walk over the feedback. *)

\* One feedback keeps the types.
LEMMA ProcessHarqInfoType ==
  ASSUME packets \in [Processes -> Nat], NEW w \in Walks, NEW info \in Infos
  PROVE  ProcessHarqInfo(w, info) \in Walks
<1> DEFINE p == info.process
<1>0. p \in Processes
  BY DEF Infos
<1>1. CASE w.free = 0
  BY <1>1 DEF ProcessHarqInfo, Walks
<1>2. Release(w, p) \in Walks
  BY <1>0 DEF Release, Walks
<1>3. CASE w.free # 0 /\ (info.ack \/ w.status[p] = 0 \/ w.dci[p].rv = MaxRv)
  BY <1>2, <1>3 DEF ProcessHarqInfo
<1>4. CASE /\ w.free # 0 /\ ~(info.ack \/ w.status[p] = 0 \/ w.dci[p].rv = MaxRv)
           /\ w.dci[p].numSym <= w.free
  <2>1. w.free - w.dci[p].numSym \in Nat
    BY <1>0, <1>4 DEF Walks, Dcis
  <2>2. [process |-> p, rv |-> w.dci[p].rv + 1, tb |-> packets[p]] \in Transmissions
    BY <1>0 DEF Walks, Dcis, Transmissions
  <2>3. Sent(w.retx, [process |-> p, rv |-> w.dci[p].rv + 1, tb |-> packets[p]])
          \in Seq(Transmissions)
    BY <2>2 DEF Sent, Walks
  <2>4. [w.status EXCEPT ![p] = @ + 1] \in [Processes -> Nat]
    BY <1>0 DEF Walks
  <2>5. [w.dci EXCEPT ![p].rv = @ + 1] \in [Processes -> Dcis]
    <3>1. w.dci \in [Processes -> Dcis] /\ w.dci[p] \in Dcis
      BY <1>0 DEF Walks
    <3>2. [w.dci[p] EXCEPT !.rv = @ + 1] \in Dcis
      BY <3>1 DEF Dcis
    <3> QED
      BY <1>0, <3>1, <3>2
  <2>6. Retransmit(w, p) \in Walks
    BY <1>0, <2>1, <2>3, <2>4, <2>5 DEF Retransmit, Walks
  <2> QED
    BY <1>4, <2>6 DEF ProcessHarqInfo
<1>5. CASE /\ w.free # 0 /\ ~(info.ack \/ w.status[p] = 0 \/ w.dci[p].rv = MaxRv)
           /\ ~(w.dci[p].numSym <= w.free)
  <2>1. Append(w.untxed, info) \in Seq(Infos)
    BY DEF Walks
  <2> QED
    BY <1>5, <2>1 DEF ProcessHarqInfo, Walks
<1> QED
  BY <1>1, <1>3, <1>4, <1>5

\* What the walk comes to, if with each feedback a property leads to the next.
LEMMA WalkOverFeedback ==
  ASSUME packets \in [Processes -> Nat], NEW base \in Walks, NEW infos \in Seq(Infos),
         NEW Good, base \in Good[0],
         \A k \in Nat : \A w \in Walks :
           k < Len(infos) /\ w \in Good[k] => ProcessHarqInfo(w, infos[k + 1]) \in Good[k + 1]
  PROVE  /\ FoldLeft(ProcessHarqInfo, base, infos) \in Walks
         /\ FoldLeft(ProcessHarqInfo, base, infos) \in Good[Len(infos)]
<1> DEFINE n == Len(infos)
           step == [x \in (1 .. n) \X Walks |-> ProcessHarqInfo(x[2], infos[x[1]])]
           choice == [T \in SUBSET (1 .. n) |-> Max(T)]
           rec(f) == [T \in SUBSET (1 .. n) |->
                        IF T = {} THEN base
                        ELSE LET x == Max(T) IN ProcessHarqInfo(f[T \ {x}], infos[x])]
           fold == CHOOSE f : f = rec(f)
           Typed == [k \in Nat |-> {w \in Walks : w \in Good[k]}]
<1>1. n \in Nat /\ DOMAIN infos = 1 .. n /\ \A k \in 1 .. n : infos[k] \in Infos
  BY LenProperties
<1>2. FoldLeft(ProcessHarqInfo, base, infos) = fold[1 .. n]
  BY <1>1 DEF FoldLeft, MapThenFoldSet
<1>3. fold = rec(fold)
  <2>1. step \in [(1 .. n) \X Walks -> Walks]
    BY <1>1, ProcessHarqInfoType
  <2>2. IsFiniteSet(1 .. n)
    BY <1>1, FS_Interval
  <2>3. \A T \in SUBSET (1 .. n) : T # {} => choice[T] = Max(T) /\ choice[T] \in T
    BY <1>1, MaxOfPositions
  <2>4. PICK it \in [SUBSET (1 .. n) -> Walks] :
          IsRecursive(it, SUBSET (1 .. n), base, step, choice)
    <3> HIDE DEF step, choice, n
    <3> QED
      BY <2>1, <2>2, <2>3, SetRecursion
  <2>5. ASSUME NEW T \in SUBSET (1 .. n), T # {}
        PROVE  step[<<choice[T], it[T \ {choice[T]}]>>]
                 = ProcessHarqInfo(it[T \ {Max(T)}], infos[Max(T)])
    BY <2>3, <2>5
  <2>6. \A T \in SUBSET (1 .. n) : it[T] = rec(it)[T]
    BY <2>4, <2>5 DEF IsRecursive
  <2>7. it = rec(it)
    BY <2>6
  <2> QED
    BY <2>7
<1>4. fold[{}] = base
  BY <1>3
<1>5. ASSUME NEW k \in Nat, k < n
      PROVE  fold[1 .. k + 1] = ProcessHarqInfo(fold[1 .. k], infos[k + 1])
  <2>1. 1 .. k + 1 \in SUBSET (1 .. n) /\ 1 .. k + 1 # {}
    BY <1>1, <1>5
  <2> DEFINE T == 1 .. k + 1
  <2> HIDE DEF fold
  <2>2. fold[T] = ProcessHarqInfo(fold[T \ {Max(T)}], infos[Max(T)])
    BY <1>3, <2>1
  <2> QED
    BY <2>2, MaxOfPrefix
<1> HIDE DEF fold, rec, step, choice
<1>6. fold[1 .. n] \in Typed[n]
  <2>1. fold[{}] \in Typed[0]
    BY <1>4
  <2>2. ASSUME NEW k \in Nat, k < n, fold[1 .. k] \in Typed[k]
        PROVE  fold[1 .. k + 1] \in Typed[k + 1]
    <3>1. fold[1 .. k] \in Walks /\ fold[1 .. k] \in Good[k]
      BY <2>2
    <3>2. infos[k + 1] \in Infos
      BY <1>1, <2>2
    <3>3. /\ ProcessHarqInfo(fold[1 .. k], infos[k + 1]) \in Walks
          /\ ProcessHarqInfo(fold[1 .. k], infos[k + 1]) \in Good[k + 1]
      BY <2>2, <3>1, <3>2, ProcessHarqInfoType
    <3> QED
      BY <1>5, <2>2, <3>3
  <2> HIDE DEF Typed, n
  <2> QED
    BY <1>1, <2>1, <2>2, PrefixInduction
<1> QED
  BY <1>1, <1>2, <1>6

------------------------------------------------------------------------------
(* Type correctness. *)

\* The scheduler's constants, and the processes as a finite set.
LEMMA HarqConstants ==
  /\ NumHarqProcess \in Nat /\ NumHarqProcess # 0 /\ HarqTimeout \in Nat
  /\ MaxRv \in Nat /\ RoundTrip \in Nat /\ RoundTrip # 0
  /\ FreeSymbols \subseteq Nat /\ Sizes \subseteq Nat
  /\ Processes \subseteq Nat
  /\ IsFiniteSet(Processes) /\ Cardinality(Processes) = NumHarqProcess
<1>1. /\ NumHarqProcess \in Nat /\ NumHarqProcess # 0 /\ HarqTimeout \in Nat
      /\ MaxRv \in Nat /\ RoundTrip \in Nat /\ RoundTrip # 0
      /\ FreeSymbols \subseteq Nat /\ Sizes \subseteq Nat
  BY HarqAssumption
<1>2. NumHarqProcess - 1 \in Int /\ ~(0 > NumHarqProcess - 1)
      /\ (NumHarqProcess - 1) - 0 + 1 = NumHarqProcess
  BY <1>1
<1>3. IsFiniteSet(Processes) /\ Cardinality(Processes) = NumHarqProcess
  BY <1>2, FS_Interval DEF Processes
<1>4. Processes \subseteq Nat
  BY <1>1 DEF Processes
<1> QED
  BY <1>1, <1>3, <1>4

\* RefreshHarqProcesses at work: a process that is still taken after it has not
\* expired.
LEMMA RefreshType ==
  ASSUME HarqTypeOK
  PROVE  /\ Refreshed \in [Processes -> Nat]
         /\ RefreshedTimer \in [Processes -> 0 .. HarqTimeout]
         /\ \A p \in Processes : Refreshed[p] # 0 =>
              /\ timer[p] < HarqTimeout /\ RefreshedTimer[p] = timer[p] + 1
              /\ Refreshed[p] = status[p]
         /\ \A p \in Processes : timer[p] < HarqTimeout => Refreshed[p] = status[p]
BY HarqConstants DEF HarqTypeOK, Refreshed, RefreshedTimer, Expired

LEMMA WalkType ==
  ASSUME HarqTypeOK, NEW free \in Nat
  PROVE  Walk(free) \in Walks
BY RefreshType DEF Walk, Walks, HarqTypeOK

\* What the walk over the feedback leaves behind, for the feedback handed over
\* and that put off in the slot before.
WalkEnd(free) == FoldLeft(ProcessHarqInfo, Walk(free), infoList \o received)

\* No feedback takes a free process.
LEMMA WalkTakesNone ==
  ASSUME HarqTypeOK, NEW free \in Nat
  PROVE  /\ WalkEnd(free) \in Walks
         /\ \A p \in Processes : Refreshed[p] = 0 => WalkEnd(free).status[p] = 0
<1> DEFINE infos == infoList \o received
           Good == [k \in Nat |-> {w \in Walks :
                      \A p \in Processes : Refreshed[p] = 0 => w.status[p] = 0}]
<1>1. infos \in Seq(Infos) /\ packets \in [Processes -> Nat]
  BY DEF HarqTypeOK
<1>2. Walk(free) \in Walks /\ Walk(free) \in Good[0]
  BY WalkType DEF Walk
<1>3. ASSUME NEW k \in Nat, NEW w \in Walks, k < Len(infos), w \in Good[k]
      PROVE  ProcessHarqInfo(w, infos[k + 1]) \in Good[k + 1]
  <2> DEFINE info == infos[k + 1]  next == ProcessHarqInfo(w, info)
  <2>1. info \in Infos
    BY <1>1, <1>3, ElementOfSeq
  <2> HIDE DEF info
  <2>2. next \in Walks
    BY <1>1, <2>1, ProcessHarqInfoType
  <2>3. \A p \in Processes : w.status[p] = 0 => next.status[p] = 0
    BY <2>1 DEF ProcessHarqInfo, Release, Retransmit, Infos, Walks
  <2> QED
    BY <1>3, <2>2, <2>3 DEF info
<1>4. WalkEnd(free) \in Walks /\ WalkEnd(free) \in Good[Len(infos)]
  <2> HIDE DEF Good
  <2> QED
    BY <1>1, <1>2, <1>3, WalkOverFeedback DEF WalkEnd
<1>5. Len(infos) \in Nat
  BY <1>1, LenProperties
<1> HIDE DEF infos
<1> QED
  BY <1>4, <1>5

\* UpdateHarqProcessId returns a free process or NumHarqProcess.
LEMMA FreeProcess ==
  ASSUME NEW w
  PROVE  LET p == UpdateHarqProcessId(w)
             available == {q \in Processes : w.status[q] = 0}
         IN  IF available = {} THEN p = NumHarqProcess ELSE p \in available
<1> DEFINE available == {q \in Processes : w.status[q] = 0}
<1>1. available # {} => \E p \in available : \A q \in available : p <= q
  BY HarqConstants, LeastNumber
<1> HIDE DEF available
<1>2. available # {} =>
        (CHOOSE p \in available : \A q \in available : p <= q) \in available
  BY <1>1
<1> USE DEF available
<1> QED
  BY <1>2 DEF UpdateHarqProcessId

LEMMA InitHarqType == Init => HarqTypeOK
<1> SUFFICES ASSUME Init PROVE HarqTypeOK
  OBVIOUS
<1>1. air \in Seq(Seq(Transmissions)) /\ Len(air) = RoundTrip
  <2>1. air = [s \in 1 .. RoundTrip |-> <<>>] /\ <<>> \in Seq(Transmissions)
    BY DEF Init
  <2> QED
    BY <2>1, HarqConstants, IsASeq
<1>2. squeezed \in BOOLEAN
  BY Zenon DEF Init
<1> QED
  BY <1>1, <1>2, HarqConstants DEF Init, HarqTypeOK, NoTb, Dcis

\* The oldest slot of the air and the others.
LEMMA AirType ==
  ASSUME HarqTypeOK
  PROVE  /\ air # <<>> /\ Head(air) = air[1]
         /\ \A s \in 1 .. RoundTrip : air[s] \in Seq(Transmissions)
         /\ \A new \in Seq(Transmissions) :
              /\ Append(Tail(air), new) \in Seq(Seq(Transmissions))
              /\ Len(Append(Tail(air), new)) = RoundTrip
              /\ Append(Tail(air), new)[RoundTrip] = new
              /\ \A s \in 1 .. RoundTrip - 1 : Append(Tail(air), new)[s] = air[s + 1]
<1>1. air \in Seq(Seq(Transmissions)) /\ Len(air) = RoundTrip /\ RoundTrip \in Nat /\ RoundTrip # 0
  BY HarqConstants DEF HarqTypeOK
<1>2. air # <<>> /\ Head(air) = air[1]
  BY <1>1
<1>3. \A s \in 1 .. RoundTrip : air[s] \in Seq(Transmissions)
  BY <1>1, ElementOfSeq
<1>4. /\ Tail(air) \in Seq(Seq(Transmissions)) /\ Len(Tail(air)) = RoundTrip - 1
      /\ \A s \in 1 .. RoundTrip - 1 : Tail(air)[s] = air[s + 1]
  BY <1>1, <1>2, HeadTailProperties
<1> DEFINE rest == Tail(air)
<1> HIDE DEF rest
<1>5. ASSUME NEW new \in Seq(Transmissions)
      PROVE  /\ Append(rest, new) \in Seq(Seq(Transmissions))
             /\ Len(Append(rest, new)) = RoundTrip
             /\ Append(rest, new)[RoundTrip] = new
             /\ \A s \in 1 .. RoundTrip - 1 : Append(rest, new)[s] = rest[s]
  <2>1. rest \in Seq(Seq(Transmissions)) /\ Len(rest) = RoundTrip - 1
    BY <1>4 DEF rest
  <2> QED
    BY <1>1, <2>1, AppendProperties
<1> QED
  BY <1>2, <1>3, <1>4, <1>5 DEF rest

\* What the receiver answers.
LEMMA FeedbackType ==
  ASSUME HarqTypeOK, NEW corrupted \in BOOLEAN, EndRxData(corrupted)
  PROVE  LET t == Head(Head(air))
         IN  /\ t \in Transmissions /\ t = air[1][1] /\ air[1] # <<>>
             /\ Feedback(t, ~corrupted) \in Seq(Infos)
<1> DEFINE t == Head(Head(air))
<1>1. air[1] \in Seq(Transmissions) /\ air[1] # <<>> /\ Head(air) = air[1]
  BY AirType, HarqConstants DEF EndRxData
<1>2. t \in Transmissions /\ t = air[1][1]
  BY <1>1
<1> HIDE DEF t
<1>3. [process |-> t.process, rv |-> t.rv, tb |-> t.tb, ack |-> ~corrupted] \in Infos
  BY <1>2 DEF Transmissions, Infos
<1>4. Feedback(t, ~corrupted) \in Seq(Infos)
  BY <1>3 DEF Feedback
<1> QED
  BY <1>1, <1>2, <1>4 DEF t

LEMMA EndRxDataType ==
  ASSUME HarqTypeOK, NEW corrupted \in BOOLEAN, EndRxData(corrupted)
  PROVE  HarqTypeOK'
<1> DEFINE t == Head(Head(air))
<1>1. t \in Transmissions /\ air[1] # <<>> /\ Feedback(t, ~corrupted) \in Seq(Infos)
  BY FeedbackType
<1>2. air[1] \in Seq(Transmissions) /\ 1 \in 1 .. RoundTrip
  BY AirType, HarqConstants
<1>3. air' \in Seq(Seq(Transmissions)) /\ Len(air') = RoundTrip
  <2>1. Tail(air[1]) \in Seq(Transmissions)
    BY <1>1, <1>2
  <2>2. air' = [air EXCEPT ![1] = Tail(air[1])]
    BY DEF EndRxData
  <2> QED
    BY <1>2, <2>1, <2>2, ExceptSeq DEF HarqTypeOK
<1>4. received' \in Seq(Infos)
  BY <1>1 DEF EndRxData, HarqTypeOK
<1>5. packets' \in [Processes -> Nat]
  BY <1>1 DEF EndRxData, HarqTypeOK, NoTb
<1> QED
  BY <1>3, <1>4, <1>5 DEF EndRxData, HarqTypeOK

\* A transmission on the air or not.
LEMMA SentType ==
  ASSUME NEW seq \in Seq(Transmissions), NEW t \in Transmissions
  PROVE  Sent(seq, t) \in Seq(Transmissions)
BY DEF Sent

\* The trigger without a new block and with one.
LEMMA NoNewTbType ==
  ASSUME HarqTypeOK, NEW w \in Walks, NoNewTb(w), UNCHANGED direction,
         infoList' = w.untxed, received' = <<>>, squeezed' \in BOOLEAN
  PROVE  HarqTypeOK'
<1>1. w.retx \in Seq(Transmissions) /\ w.untxed \in Seq(Infos)
  BY DEF Walks
<1>2. air' \in Seq(Seq(Transmissions)) /\ Len(air') = RoundTrip
  BY <1>1, AirType DEF NoNewTb
<1>3. status' \in [Processes -> Nat] /\ dci' \in [Processes -> Dcis]
      /\ timer' \in [Processes -> 0 .. HarqTimeout]
  BY RefreshType DEF NoNewTb, Walks
<1> QED
  BY <1>1, <1>2, <1>3 DEF NoNewTb, HarqTypeOK

LEMMA NewTbType ==
  ASSUME HarqTypeOK, NEW w \in Walks, NEW numSym \in Sizes, NEW used \in BOOLEAN,
         NewTb(w, numSym, used), UNCHANGED direction,
         infoList' = w.untxed, received' = <<>>, squeezed' \in BOOLEAN
  PROVE  HarqTypeOK'
<1> DEFINE p == UpdateHarqProcessId(w)
           tb == IF used THEN tbs + 1 ELSE NoTb
           t == [process |-> p, rv |-> 0, tb |-> tb]
<1>0. tb \in Nat
  BY DEF HarqTypeOK, NoTb
<1>1. w.retx \in Seq(Transmissions) /\ w.untxed \in Seq(Infos)
      /\ w.status \in [Processes -> Nat] /\ w.dci \in [Processes -> Dcis]
  BY DEF Walks
<1>2. RefreshedTimer \in [Processes -> 0 .. HarqTimeout] /\ 0 \in 0 .. HarqTimeout
  BY RefreshType, HarqConstants
<1>3. p \in Nat
  BY FreeProcess, HarqConstants
<1>4. CASE p \in Processes
  <2>1. t \in Transmissions /\ [rv |-> 0, numSym |-> numSym] \in Dcis
    BY <1>0, <1>4, HarqConstants DEF Transmissions, Dcis
  <2>2. Sent(w.retx, t) \in Seq(Transmissions)
    BY <1>1, <2>1, SentType
  <2>3. air' = Append(Tail(air), Sent(w.retx, t))
    BY <1>4 DEF NewTb
  <2>4. air' \in Seq(Seq(Transmissions)) /\ Len(air') = RoundTrip
    BY <2>2, <2>3, AirType
  <2>5. /\ status' = [w.status EXCEPT ![p] = 1]
        /\ dci' = [w.dci EXCEPT ![p] = [rv |-> 0, numSym |-> numSym]]
        /\ timer' = [RefreshedTimer EXCEPT ![p] = 0]
        /\ packets' = [packets EXCEPT ![p] = tb]
        /\ harqId' = p /\ tbs' = tbs + 1
    BY <1>4 DEF NewTb, RestartedTimer
  <2> HIDE DEF p, tb, t
  <2>6. /\ status' \in [Processes -> Nat] /\ dci' \in [Processes -> Dcis]
        /\ timer' \in [Processes -> 0 .. HarqTimeout]
    BY <1>1, <1>2, <2>1, <2>5
  <2>7. packets' \in [Processes -> Nat]
    BY <1>0, <2>5 DEF HarqTypeOK
  <2>9. harqId' \in Nat /\ tbs' \in Nat
    BY <1>3, <2>5 DEF HarqTypeOK
  <2>8. direction' \in Directions /\ infoList' \in Seq(Infos) /\ received' \in Seq(Infos)
    BY <1>1 DEF HarqTypeOK
  <2> QED
    BY <2>4, <2>6, <2>7, <2>8, <2>9, Zenon DEF HarqTypeOK
<1>5. CASE p \notin Processes
  <2>1. /\ status' = w.status /\ dci' = w.dci /\ timer' = RefreshedTimer
        /\ air' = Append(Tail(air), w.retx) /\ packets' = packets
        /\ harqId' = p /\ tbs' = tbs + 1
    BY <1>5 DEF NewTb
  <2>2. air' \in Seq(Seq(Transmissions)) /\ Len(air') = RoundTrip
    BY <1>1, <2>1, AirType
  <2> HIDE DEF p
  <2> QED
    BY <1>1, <1>2, <1>3, <2>1, <2>2 DEF HarqTypeOK
<1> QED
  BY <1>4, <1>5

\* What a trigger does, with the end of the walk named.
LEMMA TriggerByWalk ==
  ASSUME HarqTypeOK, NEW free \in FreeSymbols, SchedTrigger(free)
  PROVE  /\ WalkEnd(free) \in Walks
         /\ infoList' = WalkEnd(free).untxed
         /\ squeezed' \in BOOLEAN
         /\ ~squeezed' => ~squeezed /\ ~WalkEnd(free).lost /\ WalkEnd(free).untxed = <<>>
         /\ \/ NoNewTb(WalkEnd(free))
            \/ \E numSym \in Sizes, used \in BOOLEAN : NewTb(WalkEnd(free), numSym, used)
         /\ received' = <<>> /\ UNCHANGED direction /\ Head(air) = <<>>
<1>1. free \in Nat
  BY HarqConstants
<1>2. WalkEnd(free) \in Walks
  BY <1>1, WalkTakesNone
<1>3. squeezed' = (squeezed \/ WalkEnd(free).lost \/ WalkEnd(free).untxed # <<>>)
  BY DEF SchedTrigger, WalkEnd
<1>4. squeezed' \in BOOLEAN
  BY <1>3, Zenon
<1>5. ~squeezed' => ~squeezed /\ ~WalkEnd(free).lost /\ WalkEnd(free).untxed = <<>>
  BY <1>3, Zenon
<1>6. infoList' = WalkEnd(free).untxed /\ received' = <<>> /\ UNCHANGED direction
      /\ Head(air) = <<>>
  BY Zenon DEF SchedTrigger, WalkEnd
<1>7. \/ NoNewTb(WalkEnd(free))
      \/ \E numSym \in Sizes, used \in BOOLEAN : NewTb(WalkEnd(free), numSym, used)
  BY Zenon DEF SchedTrigger, WalkEnd
<1> QED
  BY <1>2, <1>4, <1>5, <1>6, <1>7, Zenon

LEMMA StepHarqType ==
  ASSUME HarqTypeOK, [Next]_vars
  PROVE  HarqTypeOK'
<1>1. ASSUME NEW free \in FreeSymbols, SchedTrigger(free)
      PROVE  HarqTypeOK'
  BY <1>1, TriggerByWalk, NoNewTbType, NewTbType
<1>2. CASE UNCHANGED vars
  BY <1>2 DEF vars, HarqTypeOK
<1> QED
  BY <1>1, <1>2, EndRxDataType DEF Next

\* Every member keeps its type, whatever is answered and left to the user.
THEOREM HarqTypeCorrect == Spec => []HarqTypeOK
BY InitHarqType, StepHarqType, PTL DEF Spec

------------------------------------------------------------------------------
(* A free process. *)

\* One new block a slot: taken processes were taken in different slots, and
\* their timers count the slots since.
TakenApart ==
  \A p, q \in Processes : p # q /\ status[p] # 0 /\ status[q] # 0 => timer[p] # timer[q]

\* No process is free or could be: each holds a block taken in a slot of its
\* own, none of them so long ago that its timeout has come.
EveryProcessWaits ==
  /\ \A p \in Processes : status[p] # 0 /\ timer[p] \in 1 .. HarqTimeout
  /\ TakenApart

\* Those still taken after RefreshHarqProcesses were taken in different slots,
\* no fewer than one and no more than HarqTimeout ago.
LEMMA RefreshedApart ==
  ASSUME HarqTypeOK, TakenApart
  PROVE  /\ \A p \in Processes : Refreshed[p] # 0 => RefreshedTimer[p] \in 1 .. HarqTimeout
         /\ \A p, q \in Processes :
              p # q /\ Refreshed[p] # 0 /\ Refreshed[q] # 0 => RefreshedTimer[p] # RefreshedTimer[q]
<1>1. \A p \in Processes : timer[p] \in 0 .. HarqTimeout
  BY DEF HarqTypeOK
<1> QED
  BY <1>1, RefreshType, HarqConstants DEF TakenApart

\* Which takes as many slots as there are processes.
LEMMA WaitingTakesSlots ==
  ASSUME NEW slots \in [Processes -> 1 .. HarqTimeout],
         \A p, q \in Processes : p # q => slots[p] # slots[q]
  PROVE  NumHarqProcess <= HarqTimeout
<1> SUFFICES ASSUME HarqTimeout < NumHarqProcess PROVE FALSE
  BY HarqConstants
<1>1. IsFiniteSet(1 .. HarqTimeout) /\ Cardinality(1 .. HarqTimeout) = HarqTimeout
  BY FS_Interval, HarqConstants
<1>2. PICK p, q \in Processes : p # q /\ slots[p] = slots[q]
  BY <1>1, HarqConstants, FS_PigeonHole
<1> QED
  BY <1>2

LEMMA InitProcess == Init => TakenApart
BY DEF Init, TakenApart

\* A slot with or without a new block, which finds a process or finds all taken.
LEMMA TriggerFindsProcess ==
  ASSUME HarqTypeOK, TakenApart, NEW free \in FreeSymbols, SchedTrigger(free)
  PROVE  /\ TakenApart'
         /\ tbs' # tbs => AlwaysAFreeProcess' \/ EveryProcessWaits'
<1> DEFINE w == WalkEnd(free)
           p == UpdateHarqProcessId(w)
<1>1. /\ w \in Walks /\ w.status \in [Processes -> Nat]
      /\ \A q \in Processes : Refreshed[q] = 0 => w.status[q] = 0
  BY HarqConstants, WalkTakesNone DEF Walks
<1>2. /\ RefreshedTimer \in [Processes -> 0 .. HarqTimeout]
      /\ \A q \in Processes : w.status[q] # 0 => RefreshedTimer[q] \in 1 .. HarqTimeout
      /\ \A q, r \in Processes :
           q # r /\ w.status[q] # 0 /\ w.status[r] # 0 => RefreshedTimer[q] # RefreshedTimer[r]
  BY <1>1, RefreshType, RefreshedApart
<1>3. CASE NoNewTb(w)
  BY <1>2, <1>3 DEF NoNewTb, TakenApart
<1>4. ASSUME NEW numSym \in Sizes, NEW used \in BOOLEAN, NewTb(w, numSym, used)
      PROVE  TakenApart' /\ (AlwaysAFreeProcess' \/ EveryProcessWaits')
  <2>1. CASE p \in Processes
    <3>1. /\ status' = [w.status EXCEPT ![p] = 1] /\ harqId' = p
          /\ timer' = [RefreshedTimer EXCEPT ![p] = 0]
      BY <1>4, <2>1 DEF NewTb, RestartedTimer
    <3> HIDE DEF p, w
    <3>2. TakenApart'
      BY <1>1, <1>2, <2>1, <3>1 DEF TakenApart
    <3> QED
      BY <2>1, <3>1, <3>2 DEF AlwaysAFreeProcess
  <2>2. CASE p \notin Processes
    <3>1. status' = w.status /\ timer' = RefreshedTimer
      BY <1>4, <2>2 DEF NewTb
    <3>2. \A q \in Processes : w.status[q] # 0
      BY <2>2, FreeProcess
    <3> HIDE DEF p, w
    <3> QED
      BY <1>2, <3>1, <3>2 DEF TakenApart, EveryProcessWaits
  <2> QED
    BY <2>1, <2>2
<1>5. NoNewTb(w) => tbs' = tbs
  BY DEF NoNewTb
<1> QED
  BY <1>3, <1>4, <1>5, TriggerByWalk

\* mmwave-flex-tti-mac-scheduler.cc:1476 and 1617 (uplink) assert that a new
\* block finds a free process.  For any number of processes and any timeout it
\* does, unless every process holds a block that was taken in a slot of its own
\* and has not reached its timeout, whatever was answered, doubled or put off.
\* With more processes than slots to the timeout that cannot be; with the
\* default values, 20 and 20, it is how the assertion fails.
THEOREM BlockFindsProcess ==
  Spec => [][tbs' # tbs => \/ AlwaysAFreeProcess'
                           \/ EveryProcessWaits' /\ NumHarqProcess <= HarqTimeout]_vars
<1> DEFINE Finds == tbs' # tbs => \/ AlwaysAFreeProcess'
                                  \/ EveryProcessWaits' /\ NumHarqProcess <= HarqTimeout
<1>1. EveryProcessWaits' => NumHarqProcess <= HarqTimeout
  <2> DEFINE slots == [p \in Processes |-> timer'[p]]
  <2> SUFFICES ASSUME EveryProcessWaits' PROVE NumHarqProcess <= HarqTimeout
    OBVIOUS
  <2>1. /\ slots \in [Processes -> 1 .. HarqTimeout]
        /\ \A p, q \in Processes : p # q => slots[p] # slots[q]
    BY DEF EveryProcessWaits, TakenApart
  <2> QED
    BY <2>1, WaitingTakesSlots
<1>2. ASSUME HarqTypeOK, TakenApart, [Next]_vars
      PROVE  TakenApart' /\ [Finds]_vars
  <2>1. ASSUME NEW corrupted \in BOOLEAN, EndRxData(corrupted)
        PROVE  TakenApart' /\ tbs' = tbs
    BY <1>2, <2>1 DEF EndRxData, TakenApart
  <2>2. CASE UNCHANGED vars
    BY <1>2, <2>2 DEF vars, TakenApart
  <2> QED
    BY <1>1, <1>2, <2>1, <2>2, TriggerFindsProcess DEF Next
<1>3. Spec => []TakenApart
  BY <1>2, InitProcess, HarqTypeCorrect, PTL DEF Spec
<1> QED
  BY <1>2, <1>3, HarqTypeCorrect, PTL DEF Spec

------------------------------------------------------------------------------
(* The answers of the uplink. *)

\* Slots from the first transmission of a block to its retransmission number rv.
SlotsTo(rv) == rv * RoundTrip

\* The last answer to a block is there by the slot in which its process expires.
TimeToAnswer == SlotsTo(MaxRv) + RoundTrip <= HarqTimeout + 1

LEMMA SlotsToRv ==
  /\ \A rv \in Nat : SlotsTo(rv) \in Nat
  /\ \A rv \in Nat : SlotsTo(rv + 1) = SlotsTo(rv) + RoundTrip
  /\ \A rv \in Nat : rv <= MaxRv => SlotsTo(rv) <= SlotsTo(MaxRv)
  /\ SlotsTo(0) = 0
<1>1. RoundTrip \in Nat /\ MaxRv \in Nat
  BY HarqConstants
<1>2. \A a, b \in Nat : a * b \in Nat /\ (a + 1) * b = a * b + b /\ 0 * b = 0
  BY Z3
<1>3. \A a, b, c \in Nat : a <= b => a * c <= b * c
  BY Z3
<1> QED
  BY <1>1, <1>2, <1>3 DEF SlotsTo

\* What is in slot s of the air is about the block its process holds and its
\* latest transmission, and the timer tells how long it has been on its way.
Current(t, s) ==
  /\ status[t.process] = t.rv + 1 /\ t.rv <= MaxRv
  /\ dci[t.process].rv = t.rv
  /\ packets[t.process] = t.tb
  /\ timer[t.process] = SlotsTo(t.rv) + RoundTrip - s

DistinctProcesses(seq) == \A i, j \in DOMAIN seq : seq[i].process = seq[j].process => i = j

\* What has been received is what was in the oldest slot.
OnTheWayInv ==
  /\ infoList = <<>>
  /\ \A s \in 1 .. RoundTrip : DistinctProcesses(air[s])
  /\ \A s \in 1 .. RoundTrip : \A i \in DOMAIN air[s] : Current(air[s][i], s)
  /\ DistinctProcesses(received)
  /\ \A i \in DOMAIN received : Current(received[i], 1)
  /\ \A i \in DOMAIN air[1], j \in DOMAIN received : air[1][i].process # received[j].process

UplinkInv == direction = "UL" /\ ~squeezed => OnTheWayInv

\* What the walk may have come to after k answers: the processes that were not
\* answered are as they were, the retransmissions are those of processes that
\* were.
RetransmissionCurrent(w, r, k) ==
  /\ \E j \in 1 .. k : received[j].process = r.process
  /\ w.status[r.process] = r.rv + 1 /\ r.rv <= MaxRv
  /\ w.dci[r.process].rv = r.rv
  /\ packets[r.process] = r.tb
  /\ RefreshedTimer[r.process] = SlotsTo(r.rv)

WalkCurrent(w, k) ==
  /\ \A p \in Processes : (\A j \in 1 .. k : received[j].process # p) =>
       w.status[p] = Refreshed[p] /\ w.dci[p] = dci[p]
  /\ \A i \in DOMAIN w.retx : RetransmissionCurrent(w, w.retx[i], k)
  /\ DistinctProcesses(w.retx)

LEMMA ReleaseKeepsWalk ==
  ASSUME HarqTypeOK, OnTheWayInv, NEW k \in Nat, k + 1 <= Len(received), NEW w \in Walks,
         WalkCurrent(w, k)
  PROVE  WalkCurrent(Release(w, received[k + 1].process), k + 1)
<1> DEFINE p == received[k + 1].process  next == Release(w, p)
<1>1. received \in Seq(Infos) /\ DOMAIN received = 1 .. Len(received) /\ Len(received) \in Nat
  BY LenProperties DEF HarqTypeOK
<1>2. p \in Processes
  <2>1. k + 1 \in 1 .. Len(received)
    BY <1>1
  <2>2. received[k + 1] \in Infos
    BY <1>1, <2>1, ElementOfSeq
  <2> QED
    BY <2>2 DEF Infos
<1>3. \A j \in 1 .. k : received[j].process # p
  BY <1>1 DEF OnTheWayInv, DistinctProcesses
<1> HIDE DEF p
<1>4. /\ next.retx = w.retx /\ next.dci = w.dci
      /\ \A q \in Processes : q # p => next.status[q] = w.status[q]
  BY <1>2 DEF Release, Walks
<1>5. \A i \in DOMAIN w.retx : w.retx[i].process \in Processes
  <2>1. w.retx \in Seq(Transmissions) /\ DOMAIN w.retx = 1 .. Len(w.retx)
    BY LenProperties DEF Walks
  <2>2. \A i \in DOMAIN w.retx : w.retx[i] \in Transmissions
    BY <2>1, ElementOfSeq
  <2> QED
    BY <2>2 DEF Transmissions
<1> HIDE DEF next
<1>6. ASSUME NEW i \in DOMAIN next.retx
      PROVE  RetransmissionCurrent(next, next.retx[i], k + 1)
  BY <1>3, <1>4, <1>5, <1>6 DEF WalkCurrent, RetransmissionCurrent
<1>7. ASSUME NEW q \in Processes, \A j \in 1 .. k + 1 : received[j].process # q
      PROVE  next.status[q] = Refreshed[q] /\ next.dci[q] = dci[q]
  <2>1. q # p
    BY <1>7 DEF p
  <2>2. \A j \in 1 .. k : received[j].process # q
    BY <1>7
  <2> QED
    BY <1>4, <2>1, <2>2 DEF WalkCurrent
<1>8. DistinctProcesses(next.retx)
  BY <1>4 DEF WalkCurrent
<1>9. WalkCurrent(next, k + 1)
  BY <1>6, <1>7, <1>8 DEF WalkCurrent
<1> QED
  BY <1>9 DEF next, p

LEMMA RetransmitKeepsWalk ==
  ASSUME HarqTypeOK, OnTheWayInv, NEW k \in Nat, k + 1 <= Len(received), NEW w \in Walks,
         WalkCurrent(w, k),
         w.status[received[k + 1].process] # 0,
         w.dci[received[k + 1].process].rv # MaxRv
  PROVE  WalkCurrent(Retransmit(w, received[k + 1].process), k + 1)
<1> DEFINE info == received[k + 1]  p == info.process  next == Retransmit(w, p)
           t == [process |-> p, rv |-> w.dci[p].rv + 1, tb |-> packets[p]]
<1>1. received \in Seq(Infos) /\ DOMAIN received = 1 .. Len(received) /\ Len(received) \in Nat
  BY LenProperties DEF HarqTypeOK
<1>2. k + 1 \in 1 .. Len(received) /\ info \in Infos
  <2>1. k + 1 \in 1 .. Len(received)
    BY <1>1
  <2> QED
    BY <1>1, <2>1, ElementOfSeq
<1>3. p \in Processes /\ info.rv \in Nat
  BY <1>2 DEF Infos
<1>4. \A j \in 1 .. k : received[j].process # p
  BY <1>1 DEF OnTheWayInv, DistinctProcesses
<1>5. Current(info, 1)
  BY <1>1, <1>2 DEF OnTheWayInv
<1> HIDE DEF info
<1>6. w.status[p] = Refreshed[p] /\ w.dci[p] = dci[p]
  BY <1>3, <1>4 DEF WalkCurrent
<1>7. /\ status[p] = info.rv + 1 /\ info.rv <= MaxRv
      /\ dci[p].rv = info.rv
      /\ timer[p] = SlotsTo(info.rv) + RoundTrip - 1
  BY <1>5 DEF Current
<1>8. w.status[p] = info.rv + 1 /\ w.dci[p].rv = info.rv /\ info.rv + 1 <= MaxRv
      /\ RefreshedTimer[p] = SlotsTo(info.rv + 1)
  <2>1. w.status[p] = info.rv + 1 /\ RefreshedTimer[p] = timer[p] + 1
    BY <1>3, <1>6, <1>7, RefreshType DEF info, p
  <2>2. w.dci[p].rv = info.rv /\ info.rv # MaxRv
    BY <1>6, <1>7 DEF info, p
  <2>3. SlotsTo(info.rv) \in Nat /\ RoundTrip \in Nat /\ MaxRv \in Nat
        /\ SlotsTo(info.rv + 1) = SlotsTo(info.rv) + RoundTrip
    BY <1>3, SlotsToRv, HarqConstants
  <2>4. (SlotsTo(info.rv) + RoundTrip - 1) + 1 = SlotsTo(info.rv) + RoundTrip
    BY <2>3
  <2>5. RefreshedTimer[p] = SlotsTo(info.rv + 1)
    BY <1>7, <2>1, <2>3, <2>4
  <2>6. info.rv + 1 <= MaxRv
    BY <1>3, <1>7, <2>2, <2>3
  <2> QED
    BY <2>1, <2>2, <2>5, <2>6
<1>9. w.retx \in Seq(Transmissions) /\ DOMAIN w.retx = 1 .. Len(w.retx) /\ Len(w.retx) \in Nat
  BY LenProperties DEF Walks
<1>10. \A i \in DOMAIN w.retx : w.retx[i].process \in Processes /\ w.retx[i].process # p
  <2>1. \A i \in DOMAIN w.retx : w.retx[i] \in Transmissions
    BY <1>9, ElementOfSeq
  <2>2. \A i \in DOMAIN w.retx : w.retx[i].process # p
    BY <1>4 DEF WalkCurrent, RetransmissionCurrent
  <2> QED
    BY <2>1, <2>2 DEF Transmissions
<1>11. /\ next.status = [w.status EXCEPT ![p] = @ + 1]
       /\ next.dci = [w.dci EXCEPT ![p].rv = @ + 1]
       /\ next.retx = Sent(w.retx, t)
  BY DEF Retransmit, Walks
<1>12. /\ next.status[p] = info.rv + 2 /\ next.dci[p].rv = info.rv + 1
       /\ \A q \in Processes : q # p => next.status[q] = w.status[q] /\ next.dci[q] = w.dci[q]
  <2>1. w.status \in [Processes -> Nat] /\ w.dci \in [Processes -> Dcis]
    BY DEF Walks
  <2>2. next.status[p] = info.rv + 2
    BY <1>3, <1>8, <1>11, <2>1
  <2>3. next.dci[p].rv = info.rv + 1
    <3>1. w.dci[p] \in Dcis
      BY <1>3, <2>1
    <3>2. [w.dci[p] EXCEPT !.rv = @ + 1].rv = w.dci[p].rv + 1
      BY <3>1 DEF Dcis
    <3>3. next.dci[p] = [w.dci[p] EXCEPT !.rv = @ + 1]
      BY <1>3, <1>11, <2>1
    <3> QED
      BY <1>8, <3>2, <3>3
  <2> QED
    BY <1>11, <2>1, <2>2, <2>3
<1>13. t.process = p /\ t.rv = info.rv + 1 /\ t.tb = packets[p] /\ t \in Transmissions
  BY <1>3, <1>8 DEF HarqTypeOK, Transmissions
<1> HIDE DEF next, t, p
<1>14. \A i \in DOMAIN w.retx : RetransmissionCurrent(next, w.retx[i], k + 1)
  BY <1>10, <1>12 DEF WalkCurrent, RetransmissionCurrent
<1>15. RetransmissionCurrent(next, t, k + 1)
  <2>1. \E j \in 1 .. k + 1 : received[j].process = t.process
    BY <1>13 DEF p, info
  <2>2. next.status[t.process] = t.rv + 1
    BY <1>3, <1>12, <1>13
  <2>3. t.rv <= MaxRv /\ next.dci[t.process].rv = t.rv /\ packets[t.process] = t.tb
        /\ RefreshedTimer[t.process] = SlotsTo(t.rv)
    BY <1>8, <1>12, <1>13
  <2> QED
    BY <2>1, <2>2, <2>3 DEF RetransmissionCurrent
<1>16. /\ \A i \in DOMAIN next.retx : RetransmissionCurrent(next, next.retx[i], k + 1)
       /\ DistinctProcesses(next.retx)
  <2>1. CASE next.retx = w.retx
    BY <1>14, <2>1 DEF WalkCurrent
  <2>2. CASE next.retx = Append(w.retx, t)
    <3> DEFINE n == Len(w.retx)
    <3>1. /\ DOMAIN next.retx = 1 .. n + 1 /\ next.retx[n + 1] = t
          /\ \A i \in 1 .. n : next.retx[i] = w.retx[i]
      BY <1>9, <1>13, <2>2
    <3>2. DistinctProcesses(w.retx) /\ \A i \in 1 .. n : w.retx[i].process # t.process
      BY <1>9, <1>10, <1>13 DEF WalkCurrent
    <3>3. \A i \in 1 .. n + 1 : i = n + 1 \/ i \in 1 .. n
      BY <1>9
    <3>4. DOMAIN w.retx = 1 .. n
      BY <1>9
    <3> HIDE DEF n
    <3>5. \A i \in DOMAIN next.retx : RetransmissionCurrent(next, next.retx[i], k + 1)
      BY <1>14, <1>15, <3>1, <3>3, <3>4
    <3>6. DistinctProcesses(next.retx)
      BY <3>1, <3>2, <3>3, <3>4 DEF DistinctProcesses
    <3> QED
      BY <3>5, <3>6
  <2> QED
    BY <1>11, <2>1, <2>2 DEF Sent
<1>17. ASSUME NEW q \in Processes, \A j \in 1 .. k + 1 : received[j].process # q
       PROVE  next.status[q] = Refreshed[q] /\ next.dci[q] = dci[q]
  <2>1. q # p
    BY <1>17 DEF p, info
  <2>2. \A j \in 1 .. k : received[j].process # q
    BY <1>17
  <2> QED
    BY <1>12, <2>1, <2>2 DEF WalkCurrent
<1>18. WalkCurrent(next, k + 1)
  BY <1>16, <1>17 DEF WalkCurrent
<1> QED
  BY <1>18 DEF next, p, info

\* The whole walk, unless feedback is put off or dropped.
LEMMA WalkStaysCurrent ==
  ASSUME HarqTypeOK, OnTheWayInv, NEW free \in Nat
  PROVE  /\ WalkEnd(free) \in Walks
         /\ WalkEnd(free).lost \/ WalkEnd(free).untxed # <<>>
            \/ WalkCurrent(WalkEnd(free), Len(received))
<1> DEFINE Good == [k \in Nat |-> {w \in Walks : w.lost \/ w.untxed # <<>> \/ WalkCurrent(w, k)}]
<1>1. received \in Seq(Infos) /\ packets \in [Processes -> Nat] /\ Len(received) \in Nat
  BY LenProperties DEF HarqTypeOK
<1>2. infoList \o received = received
  BY <1>1 DEF OnTheWayInv
<1>3. Walk(free) \in Walks /\ Walk(free) \in Good[0]
  <2>1. WalkCurrent(Walk(free), 0)
    BY DEF WalkCurrent, Walk, DistinctProcesses
  <2> QED
    BY <2>1, WalkType
<1>4. ASSUME NEW k \in Nat, NEW w \in Walks, k < Len(received), w \in Good[k]
      PROVE  ProcessHarqInfo(w, received[k + 1]) \in Good[k + 1]
  <2> DEFINE info == received[k + 1]  next == ProcessHarqInfo(w, info)
  <2>1. info \in Infos /\ k + 1 <= Len(received)
    BY <1>1, <1>4, ElementOfSeq
  <2>2. next \in Walks
    BY <1>1, <2>1, ProcessHarqInfoType
  <2>3. w.lost \/ w.untxed # <<>> \/ WalkCurrent(w, k)
    BY <1>4
  <2>4. info.process \in Processes
    BY <2>1 DEF Infos
  <2>5. next.lost \/ next.untxed # <<>> \/ WalkCurrent(next, k + 1)
    <3>1. CASE w.free = 0
      BY <3>1 DEF ProcessHarqInfo, Walks
    <3>2. CASE /\ w.free # 0
               /\ info.ack \/ w.status[info.process] = 0 \/ w.dci[info.process].rv = MaxRv
      <4>1. next = Release(w, info.process)
        BY <3>2 DEF ProcessHarqInfo
      <4>2. next.lost = w.lost /\ next.untxed = w.untxed
        BY <4>1 DEF Release, Walks
      <4> HIDE DEF next
      <4>3. WalkCurrent(w, k) => WalkCurrent(next, k + 1)
        BY <2>1, <4>1, ReleaseKeepsWalk
      <4> QED
        BY <2>3, <4>2, <4>3, Zenon
    <3>3. CASE /\ w.free # 0
               /\ ~(info.ack \/ w.status[info.process] = 0 \/ w.dci[info.process].rv = MaxRv)
               /\ w.dci[info.process].numSym <= w.free
      <4>1. next = Retransmit(w, info.process)
        BY <3>3 DEF ProcessHarqInfo
      <4>2. next.lost = w.lost /\ next.untxed = w.untxed
        BY <4>1 DEF Retransmit, Walks
      <4> HIDE DEF next
      <4>3. w.status[info.process] # 0 /\ w.dci[info.process].rv # MaxRv
        BY <3>3
      <4>4. WalkCurrent(w, k) => WalkCurrent(next, k + 1)
        BY <2>1, <4>1, <4>3, RetransmitKeepsWalk
      <4> QED
        BY <2>3, <4>2, <4>4, Zenon
    <3>4. CASE /\ w.free # 0
               /\ ~(info.ack \/ w.status[info.process] = 0 \/ w.dci[info.process].rv = MaxRv)
               /\ ~(w.dci[info.process].numSym <= w.free)
      <4>1. next.untxed = Append(w.untxed, info)
        BY <3>4 DEF ProcessHarqInfo, Walks
      <4>2. w.untxed \in Seq(Infos)
        BY DEF Walks
      <4> HIDE DEF next, info
      <4> QED
        BY <2>1, <4>1, <4>2
    <3> QED
      BY <3>1, <3>2, <3>3, <3>4
  <2> QED
    BY <2>2, <2>5
<1>5. /\ FoldLeft(ProcessHarqInfo, Walk(free), received) \in Walks
      /\ FoldLeft(ProcessHarqInfo, Walk(free), received) \in Good[Len(received)]
  <2> HIDE DEF Good
  <2> QED
    BY <1>1, <1>3, <1>4, WalkOverFeedback
<1> QED
  BY <1>1, <1>2, <1>5 DEF WalkEnd

LEMMA EndRxDataKeepsUplink ==
  ASSUME HarqTypeOK, UplinkInv, NEW corrupted \in BOOLEAN, EndRxData(corrupted)
  PROVE  UplinkInv'
<1> SUFFICES ASSUME direction' = "UL", ~squeezed'
             PROVE  OnTheWayInv'
  BY DEF UplinkInv
<1> DEFINE t == Head(Head(air))
           info == [process |-> t.process, rv |-> t.rv, tb |-> t.tb, ack |-> ~corrupted]
           n == Len(received)
<1>1. OnTheWayInv /\ direction = "UL"
  BY DEF EndRxData, UplinkInv
<1>2. t = air[1][1] /\ t \in Transmissions /\ air[1] # <<>> /\ air[1] \in Seq(Transmissions)
      /\ 1 \in 1 .. RoundTrip
  BY FeedbackType, AirType, HarqConstants
<1>3. received \in Seq(Infos) /\ n \in Nat /\ DOMAIN received = 1 .. n
  BY LenProperties DEF HarqTypeOK
<1>4. info \in Infos
  BY <1>2 DEF Transmissions, Infos
<1>5. received' = Append(received, info) /\ packets' = packets
      /\ air' = [air EXCEPT ![1] = Tail(air[1])]
      /\ UNCHANGED <<status, timer, dci, infoList>>
  <2>1. Feedback(t, ~corrupted) = <<info>>
    BY <1>1 DEF Feedback
  <2>2. received' = received \o <<info>>
    BY <2>1 DEF EndRxData
  <2> HIDE DEF info
  <2>3. received' = Append(received, info)
    BY <1>3, <1>4, <2>2
  <2> QED
    BY <1>1, <2>3 DEF EndRxData
<1>6. info.process = t.process /\ info.rv = t.rv /\ info.tb = t.tb
  OBVIOUS
<1> HIDE DEF info, t
<1>8. /\ DOMAIN air[1] = 1 .. Len(air[1]) /\ Len(air[1]) \in Nat /\ Len(air[1]) >= 1
      /\ DOMAIN Tail(air[1]) = 1 .. Len(air[1]) - 1
      /\ \A i \in 1 .. Len(air[1]) - 1 : Tail(air[1])[i] = air[1][i + 1] /\ i + 1 \in DOMAIN air[1]
  BY <1>2
<1>9. /\ DOMAIN received' = 1 .. n + 1 /\ received'[n + 1] = info
      /\ \A i \in 1 .. n : received'[i] = received[i]
  BY <1>3, <1>4, <1>5
<1>10. /\ air'[1] = Tail(air[1])
       /\ \A s \in 1 .. RoundTrip : s # 1 => air'[s] = air[s]
  <2>1. 1 \in DOMAIN air /\ \A s \in 1 .. RoundTrip : s \in DOMAIN air
    BY <1>2, LenProperties DEF HarqTypeOK
  <2> QED
    BY <1>5, <2>1
<1>11. Current(t, 1) /\ Current(info, 1)
  <2>1. Current(t, 1)
    BY <1>1, <1>2, <1>8 DEF OnTheWayInv
  <2> QED
    BY <1>6, <2>1 DEF Current
<1>12. \A s \in 1 .. RoundTrip : DistinctProcesses(air'[s])
  <2>1. DistinctProcesses(air[1]) /\ \A s \in 1 .. RoundTrip : DistinctProcesses(air[s])
    BY <1>1, <1>2 DEF OnTheWayInv
  <2>2. DistinctProcesses(air'[1])
    <3> SUFFICES ASSUME NEW i \in 1 .. Len(air[1]) - 1, NEW j \in 1 .. Len(air[1]) - 1,
                        air[1][i + 1].process = air[1][j + 1].process
                 PROVE  i = j
      BY <1>8, <1>10 DEF DistinctProcesses
    <3>0. i + 1 \in DOMAIN air[1] /\ j + 1 \in DOMAIN air[1]
      BY <1>8
    <3>1. i + 1 = j + 1
      BY <2>1, <3>0 DEF DistinctProcesses
    <3> QED
      BY <1>8, <3>1
  <2> QED
    BY <1>10, <2>1, <2>2
<1>13. \A s \in 1 .. RoundTrip : \A i \in DOMAIN air'[s] : Current(air'[s][i], s)
  <2>1. \A s \in 1 .. RoundTrip : \A i \in DOMAIN air[s] : Current(air[s][i], s)
    BY <1>1 DEF OnTheWayInv
  <2>2. \A i \in DOMAIN air'[1] : Current(air'[1][i], 1)
    BY <1>2, <1>8, <1>10, <2>1
  <2> QED
    BY <1>10, <2>1, <2>2
<1>14. \A i \in 1 .. n : received[i].process # info.process
  BY <1>1, <1>2, <1>3, <1>6, <1>8 DEF OnTheWayInv
<1>15. \A i \in 1 .. n + 1 : i = n + 1 \/ i \in 1 .. n
  BY <1>3
<1>16. DistinctProcesses(received')
  BY <1>1, <1>3, <1>9, <1>14, <1>15 DEF OnTheWayInv, DistinctProcesses
<1>17. \A i \in DOMAIN received' : Current(received'[i], 1)
  BY <1>1, <1>3, <1>9, <1>11, <1>15 DEF OnTheWayInv
<1>18. \A i \in DOMAIN air'[1], j \in DOMAIN received' : air'[1][i].process # received'[j].process
  <2>1. \A i \in DOMAIN air'[1] : air'[1][i].process # info.process
    <3>1. 1 \in DOMAIN air[1] /\ \A i \in DOMAIN air'[1] : i + 1 # 1
      BY <1>8, <1>10
    <3> QED
      BY <1>1, <1>2, <1>6, <1>8, <1>10, <3>1 DEF OnTheWayInv, DistinctProcesses
  <2>2. \A i \in DOMAIN air'[1], j \in 1 .. n : air'[1][i].process # received[j].process
    BY <1>1, <1>3, <1>8, <1>10 DEF OnTheWayInv
  <2> QED
    BY <1>9, <1>15, <2>1, <2>2
<1>19. infoList' = <<>>
  BY <1>1, <1>5 DEF OnTheWayInv
<1> QED
  BY <1>5, <1>12, <1>13, <1>16, <1>17, <1>18, <1>19 DEF OnTheWayInv, Current

LEMMA TriggerKeepsUplink ==
  ASSUME TimeToAnswer, HarqTypeOK, UplinkInv, NEW free \in FreeSymbols, SchedTrigger(free)
  PROVE  UplinkInv'
<1> SUFFICES ASSUME direction' = "UL", ~squeezed'
             PROVE  OnTheWayInv'
  BY DEF UplinkInv
<1> DEFINE w == WalkEnd(free)
           np == UpdateHarqProcessId(w)
           Kept(t, s) == /\ t \in Transmissions /\ t.rv <= MaxRv
                         /\ w.status[t.process] = t.rv + 1 /\ w.dci[t.process].rv = t.rv
                         /\ packets[t.process] = t.tb
                         /\ RefreshedTimer[t.process] = SlotsTo(t.rv) + RoundTrip - s
<1>1. /\ w \in Walks /\ infoList' = <<>> /\ received' = <<>>
      /\ ~w.lost /\ w.untxed = <<>>
      /\ \/ NoNewTb(w)
         \/ \E numSym \in Sizes, used \in BOOLEAN : NewTb(w, numSym, used)
  BY TriggerByWalk
<1>2. direction = "UL" /\ ~squeezed
  BY TriggerByWalk
<1>3. OnTheWayInv
  BY <1>2 DEF UplinkInv
<1>4. free \in Nat
  BY HarqConstants
<1>5. WalkCurrent(w, Len(received))
  BY <1>1, <1>3, <1>4, WalkStaysCurrent
<1> HIDE DEF w
<1>6. /\ w.retx \in Seq(Transmissions) /\ DOMAIN w.retx = 1 .. Len(w.retx) /\ Len(w.retx) \in Nat
      /\ w.status \in [Processes -> Nat] /\ w.dci \in [Processes -> Dcis]
  BY <1>1, LenProperties DEF Walks
<1>7. np \in Processes => w.status[np] = 0
  <2>1. NumHarqProcess \notin Processes
    BY HarqConstants DEF Processes
  <2> QED
    BY <2>1, FreeProcess
\* What is still in the air is carried over.
<1>8. ASSUME NEW s \in 1 .. RoundTrip - 1, NEW i \in DOMAIN air[s + 1]
      PROVE  Kept(air[s + 1][i], s)
  <2> DEFINE t == air[s + 1][i]
  <2>1. s + 1 \in 1 .. RoundTrip /\ s + 1 # 1 /\ s \in Nat /\ s >= 1
    BY HarqConstants
  <2>2. t \in Transmissions
    BY <2>1, AirType, ElementOfSeq
  <2>3. Current(t, s + 1)
    BY <1>3, <2>1 DEF OnTheWayInv
  <2> HIDE DEF t
  <2>4. t.process \in Processes /\ t.rv \in Nat
    BY <2>2 DEF Transmissions
  <2>5. SlotsTo(t.rv) \in Nat /\ SlotsTo(t.rv) <= SlotsTo(MaxRv) /\ SlotsTo(MaxRv) \in Nat
        /\ RoundTrip \in Nat /\ HarqTimeout \in Nat
    BY <2>3, <2>4, SlotsToRv, HarqConstants DEF Current
  <2>6. timer[t.process] = SlotsTo(t.rv) + RoundTrip - (s + 1)
    BY <2>3 DEF Current
  <2>7. timer[t.process] < HarqTimeout
        /\ timer[t.process] + 1 = SlotsTo(t.rv) + RoundTrip - s
    BY <2>1, <2>5, <2>6 DEF TimeToAnswer
  <2>8. Refreshed[t.process] = t.rv + 1
    BY <2>3, <2>4, <2>7, RefreshType DEF Current
  <2>9. RefreshedTimer[t.process] = SlotsTo(t.rv) + RoundTrip - s
    BY <2>4, <2>7, <2>8, RefreshType
  <2>10. ASSUME NEW j \in DOMAIN received, received[j].process = t.process PROVE FALSE
    <3>1. Current(received[j], 1) /\ received[j] \in Infos
      BY <1>3, ElementOfSeq, LenProperties DEF OnTheWayInv, HarqTypeOK
    <3>2. received[j].rv \in Nat
      BY <3>1 DEF Infos
    <3>3. received[j].rv + 1 = t.rv + 1
      BY <2>3, <2>10, <3>1 DEF Current
    <3>4. received[j].rv = t.rv
      BY <2>4, <3>2, <3>3
    <3>5. timer[t.process] = SlotsTo(t.rv) + RoundTrip - 1
      BY <2>10, <3>1, <3>4 DEF Current
    <3> QED
      BY <2>1, <2>5, <2>6, <3>5
  <2>11. Len(received) \in Nat /\ DOMAIN received = 1 .. Len(received)
    BY LenProperties DEF HarqTypeOK
  <2>12. w.status[t.process] = Refreshed[t.process] /\ w.dci[t.process] = dci[t.process]
    BY <1>5, <2>4, <2>10, <2>11 DEF WalkCurrent
  <2>13. t.rv <= MaxRv /\ w.dci[t.process].rv = t.rv /\ packets[t.process] = t.tb
    BY <2>3, <2>12 DEF Current
  <2> QED
    BY <2>2, <2>8, <2>9, <2>12, <2>13 DEF t
\* So are the retransmissions.
<1>9. ASSUME NEW i \in DOMAIN w.retx
      PROVE  Kept(w.retx[i], RoundTrip)
  <2> DEFINE t == w.retx[i]
  <2>1. t \in Transmissions
    BY <1>6, ElementOfSeq
  <2>2. RetransmissionCurrent(w, t, Len(received))
    BY <1>5 DEF WalkCurrent
  <2> HIDE DEF t
  <2>3. t.rv \in Nat /\ SlotsTo(t.rv) \in Nat /\ RoundTrip \in Nat
    BY <2>1, SlotsToRv, HarqConstants DEF Transmissions
  <2>4. SlotsTo(t.rv) + RoundTrip - RoundTrip = SlotsTo(t.rv)
    BY <2>3
  <2> QED
    BY <2>1, <2>2, <2>4 DEF t, RetransmissionCurrent
<1>10. \A i, j \in DOMAIN w.retx : w.retx[i].process = w.retx[j].process => i = j
  BY <1>5 DEF WalkCurrent, DistinctProcesses
<1>11. \A s \in 1 .. RoundTrip : s = RoundTrip \/ (s \in 1 .. RoundTrip - 1 /\ s + 1 \in 1 .. RoundTrip)
  BY HarqConstants
<1>12. \A s \in 1 .. RoundTrip - 1 : DistinctProcesses(air[s + 1])
  BY <1>3, <1>11, HarqConstants DEF OnTheWayInv
<1> HIDE DEF Kept, np
\* No new block goes on the air.
<1>13. ASSUME air' = Append(Tail(air), w.retx),
              \A t : \A s \in 1 .. RoundTrip : Kept(t, s) => Current(t, s)'
       PROVE  OnTheWayInv'
  <2>1. /\ air'[RoundTrip] = w.retx
        /\ \A s \in 1 .. RoundTrip - 1 : air'[s] = air[s + 1]
    BY <1>6, <1>13, AirType
  <2>2. DistinctProcesses(w.retx)
    BY <1>10 DEF DistinctProcesses
  <2>3. \A s \in 1 .. RoundTrip : DistinctProcesses(air'[s])
    BY <1>11, <1>12, <2>1, <2>2
  <2>4. \A s \in 1 .. RoundTrip : \A i \in DOMAIN air'[s] : Kept(air'[s][i], s)
    BY <1>8, <1>9, <1>11, <2>1
  <2>5. (\A s \in 1 .. RoundTrip : \A i \in DOMAIN air[s] : Current(air[s][i], s))'
    BY <1>13, <2>4
  <2> QED
    BY <1>1, <2>3, <2>5 DEF OnTheWayInv, DistinctProcesses
<1>14. ASSUME NoNewTb(w)
       PROVE  OnTheWayInv'
  <2>1. /\ status' = w.status /\ dci' = w.dci /\ timer' = RefreshedTimer
        /\ packets' = packets /\ air' = Append(Tail(air), w.retx)
    BY <1>14 DEF NoNewTb
  <2>2. \A t : \A s \in 1 .. RoundTrip : Kept(t, s) => Current(t, s)'
    BY <2>1 DEF Kept, Current
  <2> QED
    BY <1>13, <2>1, <2>2
<1>15. ASSUME NEW numSym \in Sizes, NEW used \in BOOLEAN, NewTb(w, numSym, used)
       PROVE  OnTheWayInv'
  <2> DEFINE tb == IF used THEN tbs + 1 ELSE NoTb
  <2>1. CASE np \notin Processes
    <3>1. /\ status' = w.status /\ dci' = w.dci /\ timer' = RefreshedTimer
          /\ packets' = packets /\ air' = Append(Tail(air), w.retx)
      BY <1>15, <2>1 DEF NewTb, np
    <3>2. \A t : \A s \in 1 .. RoundTrip : Kept(t, s) => Current(t, s)'
      BY <3>1 DEF Kept, Current
    <3> QED
      BY <1>13, <3>1, <3>2
  <2>2. CASE np \in Processes
    <3>0. PICK new \in Transmissions : new = [process |-> np, rv |-> 0, tb |-> tb]
      <4>1. tb \in Nat
        BY DEF HarqTypeOK, NoTb
      <4> HIDE DEF tb
      <4>2. [process |-> np, rv |-> 0, tb |-> tb] \in Transmissions
        BY <2>2, <4>1 DEF Transmissions
      <4> QED
        BY <4>2
    <3>1. /\ status' = [w.status EXCEPT ![np] = 1]
          /\ dci' = [w.dci EXCEPT ![np] = [rv |-> 0, numSym |-> numSym]]
          /\ timer' = [RefreshedTimer EXCEPT ![np] = 0]
          /\ packets' = [packets EXCEPT ![np] = tb]
          /\ air' = Append(Tail(air), Sent(w.retx, new))
      BY <1>15, <2>2, <3>0 DEF NewTb, RestartedTimer, np
    <3>2. /\ RefreshedTimer \in [Processes -> 0 .. HarqTimeout]
          /\ packets \in [Processes -> Nat] /\ tb \in Nat
      BY RefreshType DEF HarqTypeOK, NoTb
    <3>3. new.process = np /\ new.rv = 0 /\ new.tb = tb /\ new \in Transmissions
      BY <3>0
    <3> HIDE DEF tb
    <3>4. ASSUME NEW t, NEW s \in 1 .. RoundTrip, Kept(t, s)
          PROVE  t.process # np /\ Current(t, s)'
      <4>1. t.process \in Processes /\ t.rv \in Nat /\ w.status[t.process] = t.rv + 1
        BY <3>4 DEF Kept, Transmissions
      <4>2. t.process # np
        BY <1>7, <4>1
      <4> QED
        BY <1>6, <3>1, <3>2, <3>4, <4>1, <4>2 DEF Kept, Current
    <3>5. Current(new, RoundTrip)'
      <4>1. 0 = SlotsTo(0) + RoundTrip - RoundTrip /\ 0 <= MaxRv
        BY SlotsToRv, HarqConstants
      <4> QED
        BY <1>6, <2>2, <3>1, <3>2, <3>3, <4>1 DEF Current
    <3>6. CASE new.tb = NoTb
      <4>1. air' = Append(Tail(air), w.retx)
        BY <3>1, <3>6 DEF Sent
      <4> QED
        BY <1>13, <3>4, <4>1
    <3>7. CASE new.tb # NoTb
      <4> DEFINE n == Len(w.retx)  sent == Append(w.retx, new)
      <4>1. /\ sent \in Seq(Transmissions)
            /\ DOMAIN sent = 1 .. n + 1 /\ sent[n + 1] = new
            /\ \A i \in 1 .. n : sent[i] = w.retx[i]
        BY <1>6, <3>3
      <4>2. \A i \in 1 .. n + 1 : i = n + 1 \/ i \in 1 .. n
        BY <1>6
      <4>3. air' = Append(Tail(air), sent)
        BY <3>1, <3>7 DEF Sent
      <4> HIDE DEF sent
      <4>4. air'[RoundTrip] = sent /\ \A s \in 1 .. RoundTrip - 1 : air'[s] = air[s + 1]
        BY <4>1, <4>3, AirType
      <4>5. \A i \in 1 .. n : Kept(w.retx[i], RoundTrip) /\ w.retx[i].process # np
        BY <1>6, <1>9, <3>4, HarqConstants
      <4>6. DistinctProcesses(sent)
        <5> HIDE DEF n
        <5> QED
          BY <1>6, <1>10, <3>3, <4>1, <4>2, <4>5 DEF DistinctProcesses, n
      <4>7. \A s \in 1 .. RoundTrip : DistinctProcesses(air'[s])
        BY <1>11, <1>12, <4>4, <4>6
      <4>8. (\A s \in 1 .. RoundTrip : \A i \in DOMAIN air[s] : Current(air[s][i], s))'
        <5>1. \A s \in 1 .. RoundTrip : \A i \in DOMAIN air'[s] :
                Kept(air'[s][i], s) \/ (s = RoundTrip /\ air'[s][i] = new)
          BY <1>8, <1>11, <4>1, <4>2, <4>4, <4>5
        <5> QED
          BY <3>4, <3>5, <5>1
      <4> QED
        BY <1>1, <4>7, <4>8 DEF OnTheWayInv, DistinctProcesses
    <3> QED
      BY <3>6, <3>7
  <2> QED
    BY <2>1, <2>2
<1> QED
  BY <1>1, <1>14, <1>15

\* mmwave-flex-tti-mac-scheduler.cc, the walk over m_ulHarqInfoReceived, and
\* MmWaveUeMac::DoReceiveControlMessage, which sends the block its process
\* holds: as long as no feedback had to be put off, no timeout and no new block
\* hands a process on while an answer to its block is on the way, whatever is
\* answered and however little of a slot is left, if the last answer comes in time.
THEOREM FeedbackStaysCurrent ==
  ASSUME TimeToAnswer
  PROVE  Spec => []FeedbackIsCurrent
<1>1. Init => UplinkInv
  <2> SUFFICES ASSUME Init PROVE OnTheWayInv
    BY DEF UplinkInv
  <2>1. infoList = <<>> /\ received = <<>> /\ \A s \in 1 .. RoundTrip : air[s] = <<>>
        /\ 1 \in 1 .. RoundTrip
    BY HarqConstants DEF Init
  <2> QED
    BY <2>1 DEF OnTheWayInv, DistinctProcesses
<1>2. ASSUME HarqTypeOK, UplinkInv, [Next]_vars
      PROVE  UplinkInv'
  <2>1. CASE UNCHANGED vars
    BY <1>2, <2>1 DEF vars, UplinkInv, OnTheWayInv, DistinctProcesses, Current
  <2> QED
    BY <1>2, <2>1, EndRxDataKeepsUplink, TriggerKeepsUplink DEF Next
<1>3. HarqTypeOK /\ UplinkInv => FeedbackIsCurrent
  <2> SUFFICES ASSUME HarqTypeOK, OnTheWayInv, NEW t \in OnTheWay
               PROVE  packets[t.process] = t.tb /\ status[t.process] = t.rv + 1
    BY DEF UplinkInv, FeedbackIsCurrent
  <2>1. \/ \E s \in 1 .. RoundTrip : \E i \in DOMAIN air[s] : t = air[s][i]
        \/ \E i \in DOMAIN received : t = received[i]
    <3>1. DOMAIN air = 1 .. RoundTrip
      BY LenProperties DEF HarqTypeOK
    <3>2. infoList = <<>>
      BY DEF OnTheWayInv
    <3> QED
      BY <3>1, <3>2 DEF OnTheWay, ToSet
  <2>2. Current(t, 1) \/ \E s \in 1 .. RoundTrip : Current(t, s)
    BY <2>1 DEF OnTheWayInv
  <2> QED
    BY <2>2 DEF Current
<1>4. Spec => []UplinkInv
  BY <1>1, <1>2, HarqTypeCorrect, PTL DEF Spec
<1> QED
  BY <1>3, <1>4, HarqTypeCorrect, PTL

==============================================================================
