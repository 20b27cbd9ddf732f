----------------------- MODULE RealtimeSimulatorProofs -----------------------
(***************************************************************************)
(* Proofs about the realtime simulator, for any delays, number of events,  *)
(* jiffy, wait of an idle simulator and interleaving of the main thread    *)
(* with the threads that insert events and with the passing of real time.  *)
(***************************************************************************)
EXTENDS RealtimeSimulatorImpl, CommonLemmas

------------------------------------------------------------------------------
(* The conversion between time steps and nanoseconds. *)

\* What integer division is.
LEMMA Division ==
  ASSUME NEW a \in Nat, NEW b \in Nat, b # 0
  PROVE  a \div b \in Nat /\ b * (a \div b) <= a /\ a < b * (a \div b) + b
BY Z3

LEMMA ProductInNat ==
  ASSUME NEW a \in Nat, NEW b \in Nat
  PROVE  a * b \in Nat
BY Z3

LEMMA ProductMonotone ==
  ASSUME NEW a \in Nat, NEW b \in Nat, NEW c \in Nat, a <= b
  PROVE  a * c <= b * c /\ c * a <= c * b
BY Z3

LEMMA DifferenceInNat ==
  ASSUME NEW a \in Nat, NEW b \in 0 .. a
  PROVE  a - b \in Nat
OBVIOUS

\* Of the two units one is a whole number of the other.
LEMMA Units ==
  /\ NsPerStep \in Nat /\ NsPerStep # 0
  /\ StepsPerNs \in Nat /\ StepsPerNs # 0
  /\ NsPerStep = 1 \/ StepsPerNs = 1
  /\ Jiffy \in Nat /\ Jiffy # 0
  /\ SpinJiffies \in Nat /\ IdleDelay \in Nat /\ Delays \subseteq Nat
BY RealtimeAssumption

\* With steps of whole nanoseconds the conversion is a product, with finer
\* steps a division.
LEMMA ConversionByUnit ==
  /\ StepsPerNs = 1 =>
       /\ \A ts \in Nat : TimeStepToNanosecond(ts) = ts * NsPerStep
       /\ \A ns \in Nat : NanosecondToTimeStep(ns) = ns \div NsPerStep
  /\ NsPerStep = 1 =>
       /\ \A ts \in Nat : TimeStepToNanosecond(ts) = ts \div StepsPerNs
       /\ \A ns \in Nat : NanosecondToTimeStep(ns) = ns * StepsPerNs
<1>1. \A a \in Nat : a * 1 = a /\ a \div 1 = a
  BY Z3
<1>2. \A a \in Nat : a * NsPerStep \in Nat /\ a * StepsPerNs \in Nat
  BY Units, ProductInNat
<1>3. \A a \in Nat : NsPerStep = 1 => a * NsPerStep = a
  BY <1>1
<1>4. \A a \in Nat : StepsPerNs = 1 => a * StepsPerNs = a
  BY <1>1
<1>5. StepsPerNs = 1 => \A a \in Nat : a \div StepsPerNs = a
  BY <1>1
<1>6. NsPerStep = 1 => \A a \in Nat : a \div NsPerStep = a
  BY <1>1
<1> QED
  BY <1>2, <1>3, <1>4, <1>5, <1>6, Zenon DEF TimeStepToNanosecond, NanosecondToTimeStep

LEMMA ConversionTypes ==
  /\ \A ts \in Nat : TimeStepToNanosecond(ts) \in Nat
  /\ \A ns \in Nat : NanosecondToTimeStep(ns) \in Nat
<1>1. \A a \in Nat : a \div StepsPerNs \in Nat /\ a \div NsPerStep \in Nat
  BY Units, Division
<1>2. \A a \in Nat : a * StepsPerNs \in Nat /\ a * NsPerStep \in Nat
  BY Units, ProductInNat
<1> QED
  BY <1>1, <1>2, Units, ConversionByUnit

LEMMA QuotientMonotone ==
  ASSUME NEW a \in Nat, NEW b \in Nat, NEW c \in Nat, c # 0, a <= b
  PROVE  a \div c <= b \div c
<1> DEFINE x == a \div c  y == b \div c
<1>1. x \in Nat /\ y \in Nat /\ c * x <= a /\ b < c * y + c
  BY Division
<1> HIDE DEF x, y
<1>2. c * (y + 1) = c * y + c
  BY <1>1, Z3
<1>3. ~(y + 1 <= x)
  <2>1. y + 1 <= x => c * (y + 1) <= c * x
    BY <1>1, ProductMonotone
  <2>2. c * x \in Nat /\ c * y \in Nat
    BY <1>1, ProductInNat
  <2> QED
    BY <1>1, <1>2, <2>1, <2>2
<1>4. x <= y
  BY <1>1, <1>3
<1> QED
  BY <1>4 DEF x, y

\* A later time step is not an earlier nanosecond.
LEMMA ConversionMonotone ==
  ASSUME NEW a \in Nat, NEW b \in Nat, a <= b
  PROVE  TimeStepToNanosecond(a) <= TimeStepToNanosecond(b)
BY Units, ConversionByUnit, ProductMonotone, QuotientMonotone

\* Real time read in steps is not after it in nanoseconds.
LEMMA RoundTrip ==
  ASSUME NEW ns \in Nat
  PROVE  TimeStepToNanosecond(NanosecondToTimeStep(ns)) <= ns
<1>1. CASE StepsPerNs = 1
  <2> DEFINE now == ns \div NsPerStep
  <2>1. now \in Nat /\ NsPerStep * now <= ns /\ NanosecondToTimeStep(ns) = now
    BY <1>1, Units, Division, ConversionByUnit
  <2> HIDE DEF now
  <2>2. NsPerStep * now = now * NsPerStep
    BY <2>1, Units, Z3
  <2> QED
    BY <1>1, <2>1, <2>2, ConversionByUnit
<1>2. CASE NsPerStep = 1
  <2>1. ns * StepsPerNs \in Nat
    BY Units, ProductInNat
  <2>2. (ns * StepsPerNs) \div StepsPerNs = ns
    BY Units, Z3
  <2> QED
    BY <1>2, <2>1, <2>2, ConversionByUnit
<1> QED
  BY <1>1, <1>2, Units

\* A wait from real time, read in steps, to a later event ends in the event's
\* nanosecond: nothing is lost by converting the two parts one by one.
LEMMA WaitEndsAtEvent ==
  ASSUME NEW ns \in Nat, NEW delay \in Nat
  PROVE  TimeStepToNanosecond(NanosecondToTimeStep(ns)) + TimeStepToNanosecond(delay)
           = TimeStepToNanosecond(NanosecondToTimeStep(ns) + delay)
<1>1. CASE StepsPerNs = 1
  <2> DEFINE now == ns \div NsPerStep
  <2>1. now \in Nat
    BY Units, Division
  <2> HIDE DEF now
  <2>2. now * NsPerStep + delay * NsPerStep = (now + delay) * NsPerStep
    BY <2>1, Units, Z3
  <2> QED
    BY <1>1, <2>1, <2>2, ConversionByUnit DEF now
<1>2. CASE NsPerStep = 1
  <2> DEFINE now == ns * StepsPerNs
  <2>1. now \in Nat
    BY Units, ProductInNat
  <2>2. now \div StepsPerNs + delay \div StepsPerNs = (now + delay) \div StepsPerNs
    BY Units, Z3
  <2> HIDE DEF now
  <2> QED
    BY <1>2, <2>1, <2>2, ConversionByUnit DEF now
<1> QED
  BY <1>1, <1>2, Units

\* Steps of whole nanoseconds lose nothing: an event is due in real time
\* exactly when it is due in steps.
LEMMA DueInSteps ==
  ASSUME StepsPerNs = 1, NEW ts \in Nat, NEW ns \in Nat, TimeStepToNanosecond(ts) <= ns
  PROVE  ts <= NanosecondToTimeStep(ns)
<1> DEFINE p == ts * NsPerStep
<1>1. p \in Nat /\ p <= ns
  BY Units, ProductInNat, ConversionByUnit
<1>2. p \div NsPerStep = ts
  BY Units, Z3
<1> HIDE DEF p
<1>3. p \div NsPerStep <= ns \div NsPerStep
  BY <1>1, Units, QuotientMonotone
<1> QED
  BY <1>2, <1>3, ConversionByUnit

------------------------------------------------------------------------------
(* Type correctness. *)

LEMMA RealtimeType ==
  TypeOK => GetNormalizedRealtime \in Nat /\ GetCurrentRealtime \in Nat
<1>1. TypeOK => GetNormalizedRealtime \in Nat
  BY DEF TypeOK, GetNormalizedRealtime
<1> QED
  BY <1>1, ConversionTypes DEF GetCurrentRealtime

LEMMA DriftType ==
  TypeOK => DriftCorrect \in Nat
BY RealtimeType DEF TypeOK, DriftCorrect

\* A wait, sleeping or spinning, keeps the types.
LEMMA SynchronizeType ==
  ASSUME TypeOK, NEW sleeping, NEW spinning, DoSynchronize(sleeping, spinning)
  PROVE  pc' \in {sleeping, spinning} /\ nsWake' \in Nat
<1> DEFINE jiffies == DriftCorrect \div Jiffy
<1>1. jiffies \in Nat
  BY DriftType, Units, Division
<1>2. CASE jiffies > SpinJiffies
  <2>1. jiffies - SpinJiffies \in Nat
    BY <1>1, <1>2, Units
  <2> HIDE DEF jiffies
  <2>2. (jiffies - SpinJiffies) * Jiffy \in Nat
    BY <2>1, Units, ProductInNat
  <2> USE DEF jiffies
  <2>3. pc' = sleeping /\ nsWake' = wall + (jiffies - SpinJiffies) * Jiffy
    BY <1>2 DEF DoSynchronize
  <2> HIDE DEF jiffies
  <2> QED
    BY <2>2, <2>3 DEF TypeOK
<1>3. CASE ~(jiffies > SpinJiffies)
  BY <1>3 DEF DoSynchronize, TypeOK
<1> QED
  BY <1>2, <1>3

\* What an insertion does, for a time stamp that is a number.
LEMMA InsertType ==
  ASSUME TypeOK, NEW ts \in Nat, Insert(ts)
  PROVE  /\ NewEvent(ts) \in EventIds
         /\ m_events' \subseteq EventIds /\ m_uid' \in Nat
         /\ m_unscheduledEvents' \in Int /\ m_condition' \in BOOLEAN
<1>1. NewEvent(ts) \in EventIds
  BY DEF TypeOK, NewEvent, EventIds
<1> QED
  BY <1>1 DEF TypeOK, Insert

\* The event at the head of a list that is not empty.
LEMMA HeadOfList ==
  ASSUME TypeOK, m_events # {}
  PROVE  /\ Earliest(m_events) \in m_events
         /\ Earliest(m_events).ts \in Nat /\ Earliest(m_events).uid \in Nat
         /\ \A e \in m_events : ~Less(e, Earliest(m_events))
         /\ \A e \in m_events : Earliest(m_events).ts <= e.ts
         /\ \A e \in m_events \ {Earliest(m_events)} : Less(Earliest(m_events), e)
<1> DEFINE head == Earliest(m_events)
<1>1. HaveKeys(m_events)
  BY DEF HaveKeys, TypeOK, EventIds
<1>2. head \in m_events /\ \A e \in m_events : ~Less(e, head)
  BY <1>1, EarliestIsEarliest DEF IsEarliest
<1>3. \A e \in m_events : e = [ts |-> e.ts, uid |-> e.uid] /\ e.ts \in Nat /\ e.uid \in Nat
  BY DEF TypeOK, EventIds
<1> HIDE DEF head
<1>4. \A e \in m_events : head.ts <= e.ts
  BY <1>2, <1>3 DEF Less
<1>5. ASSUME NEW e \in m_events, e # head PROVE Less(head, e)
  <2>1. ~Less(head, e) => head.ts = e.ts /\ head.uid = e.uid
    BY <1>1, <1>2, LessIsTotal
  <2> QED
    BY <1>2, <1>3, <1>5, <2>1
<1> QED
  BY <1>2, <1>3, <1>4, <1>5 DEF head

\* Where the main thread has seen an event at the head of the list and only the
\* main thread takes events out.
HasSeenEvent == pc \in {"wait", "sync", "sleep", "spin", "take"} => m_events # {}

TypeInv == TypeOK /\ HasSeenEvent

LEMMA InitType == Init => TypeInv
<1> SUFFICES ASSUME Init PROVE TypeInv
  OBVIOUS
<1>1. m_stop \in BOOLEAN /\ m_running \in BOOLEAN /\ m_condition \in BOOLEAN
  BY Zenon DEF Init
<1>2. /\ m_events = {} /\ cancelled = {} /\ ids = {} /\ m_uid = 4
      /\ m_unscheduledEvents = 0 /\ m_currentTs = 0 /\ m_currentUid = 0
      /\ m_realtimeOriginNano = 0 /\ nsCurrent = 0 /\ nsDelay = 0 /\ nsWake = 0 /\ runs = 0
      /\ m_synchronizationMode \in {"SYNC_BEST_EFFORT", "SYNC_HARD_LIMIT"}
      /\ pc = "idle"
  BY Zenon DEF Init, VALID, INVALID
<1>3. wall \in Nat
  BY RealtimeAssumption DEF Init
<1> QED
  BY <1>1, <1>2, <1>3 DEF TypeInv, TypeOK, HasSeenEvent, PCs

\* The insertions of user code and of other threads have time stamps that are
\* numbers.
LEMMA InsertionType ==
  ASSUME TypeOK, NEW delay \in Nat
  PROVE  m_currentTs + delay \in Nat /\ StartOfDelay + delay \in Nat
         /\ GetCurrentRealtime + delay \in Nat
BY RealtimeType DEF TypeOK, StartOfDelay

LEMMA StepType ==
  ASSUME TypeInv, [Next]_vars
  PROVE  TypeInv'
<1> USE DEF TypeInv
<1>1. ASSUME NEW ts \in Nat, Insert(ts), pc' = pc, ids' \subseteq ids \cup {NewEvent(ts)},
             UNCHANGED <<currentVars, m_stop, m_running, fixedVars, cancelled,
                         m_realtimeOriginNano, wall, waitVars>>
      PROVE  TypeInv'
  <2>1. TypeOK'
    BY <1>1, InsertType DEF TypeOK, currentVars, fixedVars, waitVars
  <2>2. HasSeenEvent'
    BY <1>1 DEF HasSeenEvent, Insert
  <2> QED
    BY <2>1, <2>2
<1>2. ASSUME NEW delay \in Delays, Schedule(delay) \/ ScheduleWithContextMain(delay)
      PROVE  TypeInv'
  BY <1>1, <1>2, Units, InsertionType DEF Schedule, ScheduleWithContextMain
<1>3. ASSUME NEW delay \in Delays,
             ScheduleWithContextWorker(delay) \/ ScheduleRealtimeWithContext(delay)
      PROVE  TypeInv'
  BY <1>1, <1>3, Units, InsertionType DEF ScheduleWithContextWorker, ScheduleRealtimeWithContext
<1>4. ASSUME NEW id \in ids, RemoveEvent(id) \/ Cancel(id)
      PROVE  TypeInv'
  <2>1. id.uid \in Nat
    BY DEF TypeOK, EventIds
  <2>2. /\ pc \in {"idle", "event"}
        /\ m_events' \subseteq m_events /\ m_unscheduledEvents' \in Int
        /\ cancelled' = cancelled \cup {id.uid}
        /\ UNCHANGED <<m_uid, currentVars, m_stop, m_running, fixedVars, m_realtimeOriginNano,
                       m_condition, wall, pc, waitVars, ids>>
    BY <1>4 DEF RemoveEvent, Cancel, TypeOK, listVars, InUserCode
  <2>3. TypeOK'
    BY <2>1, <2>2 DEF TypeOK, currentVars, fixedVars, waitVars
  <2> QED
    BY <2>2, <2>3 DEF HasSeenEvent
<1>5. CASE Stop \/ Run \/ SetOrigin \/ TestStop \/ EventReturns \/ Tick
  <2>1. TypeOK'
    <3>1. CASE Stop
      BY <3>1 DEF Stop, TypeOK, listVars, currentVars, fixedVars, waitVars
    <3>2. CASE Run
      <4>1. m_stop' \in BOOLEAN /\ m_running' \in BOOLEAN
        BY <3>2, Zenon DEF Run
      <4>2. /\ runs' = runs + 1 /\ pc' = "starting"
            /\ UNCHANGED <<listVars, currentVars, m_synchronizationMode, cancelled,
                           m_realtimeOriginNano, m_condition, wall, waitVars, ids>>
        BY <3>2, Zenon DEF Run
      <4> QED
        BY <4>1, <4>2 DEF TypeOK, listVars, currentVars, waitVars, PCs
    <3>3. CASE SetOrigin
      BY <3>3 DEF SetOrigin, TypeOK, listVars, currentVars, fixedVars, waitVars, mainUnchanged, PCs
    <3>4. CASE TestStop
      BY <3>4 DEF TestStop, TypeOK, listVars, currentVars, fixedVars, waitVars, PCs
    <3>5. CASE EventReturns
      BY <3>5 DEF EventReturns, TypeOK, listVars, currentVars, fixedVars, waitVars, mainUnchanged, PCs
    <3>6. CASE Tick
      BY <3>6 DEF Tick, TypeOK, listVars, currentVars, fixedVars, waitVars
    <3> QED
      BY <1>5, <3>1, <3>2, <3>3, <3>4, <3>5, <3>6
  <2>2. HasSeenEvent'
    BY <1>5 DEF HasSeenEvent, Stop, Run, SetOrigin, TestStop, EventReturns, Tick, listVars
  <2> QED
    BY <2>1, <2>2
<1>6. CASE CheckEvents
  <2>1. nsCurrent' \in Nat /\ nsDelay' \in Nat
    BY <1>6, ConversionTypes, RealtimeType, Units DEF CheckEvents, TypeOK
  <2>2. TypeOK'
    BY <1>6, <2>1 DEF CheckEvents, TypeOK, listVars, currentVars, fixedVars, mainUnchanged, PCs
  <2> QED
    BY <1>6, <2>2 DEF HasSeenEvent, CheckEvents, listVars
<1>7. CASE IdleWait
  <2>1. nsWake' \in Nat /\ pc' \in {"idleSleep", "idleSpin", "loop"}
    BY <1>7, SynchronizeType DEF IdleWait, TypeOK, SleepWait, SpinWait
  <2>2. TypeOK'
    BY <1>7, <2>1
    DEF IdleWait, TypeOK, listVars, currentVars, fixedVars, mainUnchanged, PCs
  <2> QED
    BY <2>1, <2>2 DEF HasSeenEvent
<1>8. CASE ComputeWait
  <2>1. nsCurrent' \in Nat /\ nsDelay' \in Nat
    <3> DEFINE now == GetCurrentRealtime  next == Earliest(m_events).ts
               delay == IF next <= now THEN 0 ELSE next - now
    <3>1. now \in Nat /\ next \in Nat
      BY <1>8, RealtimeType, HeadOfList DEF HasSeenEvent, ComputeWait
    <3>2. delay \in Nat
      BY <3>1
    <3>3. nsCurrent' = TimeStepToNanosecond(now) /\ nsDelay' = TimeStepToNanosecond(delay)
      BY <1>8 DEF ComputeWait
    <3> HIDE DEF now, delay
    <3> QED
      BY <3>1, <3>2, <3>3, ConversionTypes
  <2>2. TypeOK'
    BY <1>8, <2>1 DEF ComputeWait, TypeOK, listVars, currentVars, fixedVars, mainUnchanged, PCs
  <2> QED
    BY <1>8, <2>2 DEF HasSeenEvent, ComputeWait, listVars
<1>9. CASE WaitForEvent
  <2>1. nsWake' \in Nat /\ pc \in {"sync", "sleep", "spin"}
        /\ pc' \in {"sleep", "spin", "wait", "take"}
    BY <1>9, SynchronizeType DEF WaitForEvent, TypeOK, SleepWait, SpinWait
  <2>2. TypeOK'
    BY <1>9, <2>1
    DEF WaitForEvent, TypeOK, listVars, currentVars, fixedVars, mainUnchanged, PCs
  <2> QED
    BY <1>9, <2>1, <2>2 DEF HasSeenEvent, WaitForEvent, listVars
<1>10. CASE TakeEvent
  <2>1. m_events # {}
    BY <1>10 DEF HasSeenEvent, TakeEvent
  <2>2. /\ m_events' \subseteq m_events
        /\ m_currentTs' \in Nat /\ m_currentUid' \in Nat
        /\ m_unscheduledEvents' \in Int
        /\ pc' \in {"fatal", "loop", "event"}
    BY <1>10, <2>1, HeadOfList DEF TakeEvent, TypeOK
  <2>3. TypeOK'
    BY <1>10, <2>2 DEF TakeEvent, TypeOK, fixedVars, waitVars, mainUnchanged, PCs
  <2> QED
    BY <2>2, <2>3 DEF HasSeenEvent
<1>11. CASE UNCHANGED vars
  BY <1>11 DEF vars, TypeOK, HasSeenEvent, listVars, currentVars, fixedVars, waitVars
<1> QED
  BY <1>2, <1>3, <1>4, <1>5, <1>6, <1>7, <1>8, <1>9, <1>10, <1>11
  DEF Next, UserStep, WorkerStep, MainStep

\* realtime-simulator-impl.cc:326: every member keeps its type, and the list is
\* not empty from the moment the main thread has seen an event in it until it
\* takes one, although it waits outside the mutex.
THEOREM TypeCorrect == Spec => []TypeInv
BY InitType, StepType, PTL DEF Spec

------------------------------------------------------------------------------
(* The waits. *)

\* The main thread waits until the nanosecond of some event in the list at the
\* latest, and takes an event only when one is due.
AimsAtEvent ==
  /\ pc \in {"sync", "sleep", "spin"} =>
       \E e \in m_events : TimeStepToNanosecond(e.ts) <= nsCurrent + nsDelay
  /\ pc = "take" => \E e \in m_events : TimeStepToNanosecond(e.ts) <= GetNormalizedRealtime

WaitInv == AimsAtEvent /\ NeverEarly /\ NoLostWakeup

LEMMA InitWait == Init => WaitInv
BY DEF Init, WaitInv, AimsAtEvent, NeverEarly, NoLostWakeup

\* An insertion, wherever the main thread is, gives the signal that ends a wait
\* that has become too long.
LEMMA InsertKeepsWait ==
  ASSUME TypeInv, WaitInv, NEW ts \in Nat, Insert(ts), pc' = pc,
         UNCHANGED <<currentVars, m_realtimeOriginNano, wall, waitVars>>
  PROVE  WaitInv'
<1>1. GetNormalizedRealtime' = GetNormalizedRealtime
  BY DEF GetNormalizedRealtime
<1>2. m_condition'
  BY DEF Insert
<1>3. m_events \subseteq m_events'
  BY DEF Insert
<1>4. UNCHANGED <<m_currentTs, nsCurrent, nsDelay>>
  BY DEF currentVars, waitVars
<1>5. AimsAtEvent'
  BY <1>1, <1>3, <1>4 DEF AimsAtEvent, WaitInv, TimeStepToNanosecond
<1>6. NeverEarly'
  BY <1>1, <1>4 DEF NeverEarly, WaitInv, TimeStepToNanosecond
<1> QED
  BY <1>2, <1>5, <1>6 DEF WaitInv, NoLostWakeup

\* A step that neither moves the main thread nor touches the list keeps the
\* invariant, though real time may have passed.
LEMMA PassingTimeKeepsWait ==
  ASSUME TypeInv, WaitInv, GetNormalizedRealtime' \in Nat,
         GetNormalizedRealtime <= GetNormalizedRealtime', pc' = pc,
         UNCHANGED <<m_events, m_currentTs, m_condition, waitVars>>
  PROVE  WaitInv'
<1>1. /\ \A e \in m_events : TimeStepToNanosecond(e.ts) \in Nat
      /\ TimeStepToNanosecond(m_currentTs) \in Nat
      /\ GetNormalizedRealtime \in Nat /\ nsCurrent \in Nat /\ nsDelay \in Nat
      /\ UNCHANGED <<nsCurrent, nsDelay>>
  BY ConversionTypes, RealtimeType DEF TypeInv, TypeOK, EventIds, waitVars
<1>2. AimsAtEvent'
  BY <1>1 DEF AimsAtEvent, WaitInv, TimeStepToNanosecond
<1>3. NeverEarly'
  BY <1>1 DEF NeverEarly, WaitInv, TimeStepToNanosecond
<1>4. NoLostWakeup'
  BY <1>1 DEF NoLostWakeup, WaitInv, TimeStepToNanosecond
<1> QED
  BY <1>2, <1>3, <1>4 DEF WaitInv

\* The wait that is computed ends at the nanosecond of the head of the list or
\* has ended already.
LEMMA ComputeWaitAims ==
  ASSUME TypeInv, ComputeWait
  PROVE  /\ m_events # {}
         /\ TimeStepToNanosecond(Earliest(m_events).ts) <= (nsCurrent + nsDelay)'
         /\ \/ GetNormalizedRealtime >= (nsCurrent + nsDelay)'
            \/ TimeStepToNanosecond(Earliest(m_events).ts) = (nsCurrent + nsDelay)'
<1> DEFINE now == GetCurrentRealtime  next == Earliest(m_events).ts
           delay == IF next <= now THEN 0 ELSE next - now
<1>1. m_events # {}
  BY DEF TypeInv, HasSeenEvent, ComputeWait
<1>2. now \in Nat /\ next \in Nat /\ GetNormalizedRealtime \in Nat
  BY <1>1, RealtimeType, HeadOfList DEF TypeInv
<1>3. delay \in Nat
  BY <1>2
<1>4. nsCurrent' = TimeStepToNanosecond(now) /\ nsDelay' = TimeStepToNanosecond(delay)
  BY DEF ComputeWait
<1>5. (nsCurrent + nsDelay)' = TimeStepToNanosecond(now + delay)
  BY <1>2, <1>3, <1>4, WaitEndsAtEvent DEF GetCurrentRealtime
<1>6. CASE next <= now
  <2>1. now + delay = now
    BY <1>2, <1>6
  <2>2. TimeStepToNanosecond(now) <= GetNormalizedRealtime
    BY <1>2, RoundTrip DEF GetCurrentRealtime
  <2>3. TimeStepToNanosecond(next) <= TimeStepToNanosecond(now)
    BY <1>2, <1>6, ConversionMonotone
  <2> HIDE DEF now, next, delay
  <2> QED
    BY <1>1, <1>5, <2>1, <2>2, <2>3 DEF next
<1>7. CASE ~(next <= now)
  <2>1. now + delay = next
    BY <1>2, <1>7
  <2>2. TimeStepToNanosecond(next) \in Nat
    BY <1>2, ConversionTypes
  <2> HIDE DEF now, delay
  <2> QED
    BY <1>1, <1>5, <2>1, <2>2
<1> QED
  BY <1>6, <1>7

LEMMA ComputeWaitKeepsWait ==
  ASSUME TypeInv, ComputeWait
  PROVE  WaitInv'
<1>1. /\ pc' = "sync" /\ m_events' = m_events
      /\ GetNormalizedRealtime' = GetNormalizedRealtime
  BY DEF ComputeWait, listVars, mainUnchanged, GetNormalizedRealtime
<1>2. AimsAtEvent'
  <2>1. Earliest(m_events) \in m_events
    BY ComputeWaitAims, HeadOfList DEF TypeInv
  <2>2. TimeStepToNanosecond(Earliest(m_events).ts)' = TimeStepToNanosecond(Earliest(m_events).ts)
    BY <1>1 DEF TimeStepToNanosecond
  <2> QED
    BY <1>1, <2>1, <2>2, ComputeWaitAims DEF AimsAtEvent
<1>3. NoLostWakeup'
  <2>1. CASE GetNormalizedRealtime >= (nsCurrent + nsDelay)'
    BY <1>1, <2>1 DEF NoLostWakeup
  <2>2. CASE TimeStepToNanosecond(Earliest(m_events).ts) = (nsCurrent + nsDelay)'
    <3>1. ASSUME NEW e \in m_events
          PROVE  TimeStepToNanosecond(e.ts) >= (nsCurrent + nsDelay)'
      <4>1. Earliest(m_events).ts \in Nat /\ e.ts \in Nat /\ Earliest(m_events).ts <= e.ts
        BY HeadOfList DEF TypeInv, TypeOK, EventIds
      <4>2. /\ TimeStepToNanosecond(Earliest(m_events).ts) \in Nat
            /\ TimeStepToNanosecond(e.ts) \in Nat
            /\ TimeStepToNanosecond(Earliest(m_events).ts) <= TimeStepToNanosecond(e.ts)
        BY <4>1, ConversionTypes, ConversionMonotone
      <4> QED
        BY <2>2, <4>2
    <3> QED
      BY <1>1, <3>1 DEF NoLostWakeup, TimeStepToNanosecond
  <2> QED
    BY <2>1, <2>2, ComputeWaitAims
<1> QED
  BY <1>1, <1>2, <1>3 DEF WaitInv, NeverEarly

\* A wait ends with TRUE only at its end, when the event it aims at is due.
LEMMA WaitForEventKeepsWait ==
  ASSUME TypeInv, WaitInv, WaitForEvent
  PROVE  WaitInv'
<1>1. /\ UNCHANGED <<m_events, m_condition, nsCurrent, nsDelay>>
      /\ GetNormalizedRealtime' = GetNormalizedRealtime
      /\ pc \in {"sync", "sleep", "spin"}
      /\ pc' \in {"sleep", "spin", "wait", "take"}
      /\ pc' = "take" => GetNormalizedRealtime >= nsCurrent + nsDelay
  BY DEF WaitForEvent, DoSynchronize, SleepWait, SpinWait, listVars, mainUnchanged,
         GetNormalizedRealtime
<1>2. AimsAtEvent'
  <2>1. PICK e \in m_events : TimeStepToNanosecond(e.ts) <= nsCurrent + nsDelay
    BY <1>1 DEF WaitInv, AimsAtEvent
  <2>2. /\ TimeStepToNanosecond(e.ts) \in Nat /\ nsCurrent \in Nat /\ nsDelay \in Nat
        /\ GetNormalizedRealtime \in Nat
    BY ConversionTypes, RealtimeType DEF TypeInv, TypeOK, EventIds
  <2>3. pc' = "take" => TimeStepToNanosecond(e.ts) <= GetNormalizedRealtime
    BY <1>1, <2>1, <2>2
  <2>4. TimeStepToNanosecond(e.ts)' = TimeStepToNanosecond(e.ts')
    BY DEF TimeStepToNanosecond
  <2> QED
    BY <1>1, <2>1, <2>3 DEF AimsAtEvent, TimeStepToNanosecond
<1>3. NoLostWakeup'
  BY <1>1 DEF WaitInv, NoLostWakeup, TimeStepToNanosecond
<1> QED
  BY <1>1, <1>2, <1>3 DEF WaitInv, NeverEarly

\* Whichever event is taken, it is not later than the one that was waited for.
LEMMA TakeEventIsDue ==
  ASSUME TypeInv, WaitInv, TakeEvent
  PROVE  /\ m_events # {} /\ m_currentTs' = Earliest(m_events).ts
         /\ TimeStepToNanosecond(Earliest(m_events).ts) <= GetNormalizedRealtime
<1>1. m_events # {} /\ m_currentTs' = Earliest(m_events).ts
  BY DEF TypeInv, HasSeenEvent, TakeEvent
<1>2. PICK e \in m_events : TimeStepToNanosecond(e.ts) <= GetNormalizedRealtime
  BY DEF WaitInv, AimsAtEvent, TakeEvent
<1>3. /\ Earliest(m_events).ts \in Nat /\ e.ts \in Nat /\ Earliest(m_events).ts <= e.ts
      /\ GetNormalizedRealtime \in Nat
  BY <1>1, HeadOfList, RealtimeType DEF TypeInv, TypeOK, EventIds
<1>4. /\ TimeStepToNanosecond(Earliest(m_events).ts) \in Nat
      /\ TimeStepToNanosecond(e.ts) \in Nat
      /\ TimeStepToNanosecond(Earliest(m_events).ts) <= TimeStepToNanosecond(e.ts)
  BY <1>3, ConversionTypes, ConversionMonotone
<1>5. TimeStepToNanosecond(Earliest(m_events).ts) <= GetNormalizedRealtime
  BY <1>2, <1>3, <1>4
<1> QED
  BY <1>1, <1>5

LEMMA StepKeepsWait ==
  ASSUME TypeInv, TypeInv', WaitInv, [Next]_vars
  PROVE  WaitInv'
<1>1. ASSUME NEW delay \in Delays, Schedule(delay) \/ ScheduleWithContextMain(delay)
      PROVE  WaitInv'
  BY <1>1, Units, InsertionType, InsertKeepsWait
     DEF TypeInv, Schedule, ScheduleWithContextMain
<1>2. ASSUME NEW delay \in Delays,
             ScheduleWithContextWorker(delay) \/ ScheduleRealtimeWithContext(delay)
      PROVE  WaitInv'
  BY <1>2, Units, InsertionType, InsertKeepsWait
     DEF TypeInv, ScheduleWithContextWorker, ScheduleRealtimeWithContext
<1>3. ASSUME NEW id \in ids, RemoveEvent(id) \/ Cancel(id)
      PROVE  WaitInv'
  <2>1. /\ pc \in {"idle", "event"} /\ pc' = pc /\ m_currentTs' = m_currentTs
        /\ GetNormalizedRealtime' = GetNormalizedRealtime
    BY <1>3 DEF RemoveEvent, Cancel, InUserCode, currentVars, GetNormalizedRealtime
  <2> QED
    BY <2>1 DEF WaitInv, AimsAtEvent, NeverEarly, NoLostWakeup, TimeStepToNanosecond
<1>4. CASE Stop \/ Tick \/ UNCHANGED vars
  <2>1. /\ pc' = pc /\ UNCHANGED <<m_events, m_currentTs, m_condition, waitVars>>
        /\ m_realtimeOriginNano' = m_realtimeOriginNano /\ (wall' = wall \/ wall' = wall + 1)
    BY <1>4 DEF Stop, Tick, vars, listVars, currentVars
  <2>2. wall \in Nat /\ m_realtimeOriginNano \in 0 .. wall
    BY DEF TypeInv, TypeOK
  <2>3. wall' - m_realtimeOriginNano' \in Nat
        /\ wall - m_realtimeOriginNano <= wall' - m_realtimeOriginNano'
    BY <2>1, <2>2
  <2>4. GetNormalizedRealtime' \in Nat /\ GetNormalizedRealtime <= GetNormalizedRealtime'
    BY <2>3 DEF GetNormalizedRealtime
  <2> QED
    BY <2>1, <2>4, PassingTimeKeepsWait
<1>5. CASE Run \/ SetOrigin \/ TestStop \/ EventReturns
  <2>1. pc' \in {"starting", "loop", "idle", "check"}
    BY <1>5 DEF Run, SetOrigin, TestStop, EventReturns
  <2> QED
    BY <2>1 DEF WaitInv, AimsAtEvent, NeverEarly, NoLostWakeup
<1>6. CASE CheckEvents
  <2>1. pc' = "wait" \/ (pc' = "idleSync" /\ m_events' = {})
    BY <1>6 DEF CheckEvents, listVars
  <2> QED
    BY <2>1 DEF WaitInv, AimsAtEvent, NeverEarly, NoLostWakeup
<1>7. CASE IdleWait
  <2>1. /\ pc \in {"idleSync", "idleSleep", "idleSpin"}
        /\ pc' \in {"idleSleep", "idleSpin", "loop"}
        /\ UNCHANGED <<m_events, m_condition>>
    BY <1>7 DEF IdleWait, DoSynchronize, SleepWait, SpinWait, listVars
  <2> QED
    BY <2>1 DEF WaitInv, AimsAtEvent, NeverEarly, NoLostWakeup
<1>8. CASE TakeEvent
  <2>1. pc' \in {"fatal", "loop", "event"} /\ GetNormalizedRealtime' = GetNormalizedRealtime
    BY <1>8 DEF TakeEvent, mainUnchanged, GetNormalizedRealtime
  <2>2. TimeStepToNanosecond(m_currentTs)' = TimeStepToNanosecond(Earliest(m_events).ts)
    BY <1>8, TakeEventIsDue DEF TimeStepToNanosecond
  <2>3. TimeStepToNanosecond(Earliest(m_events).ts) \in Nat /\ GetNormalizedRealtime \in Nat
    BY <1>8, TakeEventIsDue, HeadOfList, ConversionTypes, RealtimeType DEF TypeInv
  <2>4. NeverEarly'
    BY <1>8, <2>1, <2>2, <2>3, TakeEventIsDue DEF NeverEarly
  <2> QED
    BY <2>1, <2>4 DEF WaitInv, AimsAtEvent, NoLostWakeup
<1> QED
  BY <1>1, <1>2, <1>3, <1>4, <1>5, <1>6, <1>7, <1>8, ComputeWaitKeepsWait, WaitForEventKeepsWait
  DEF Next, UserStep, WorkerStep, MainStep

THEOREM WaitInvariant == Spec => []WaitInv
BY TypeCorrect, InitWait, StepKeepsWait, PTL DEF Spec

\* realtime-simulator-impl.cc:260-266: the signal of an insertion between the
\* computation of a wait and its start, or during it, is not lost.
THEOREM WakeupsAreNotLost == Spec => []NoLostWakeup
<1>1. WaitInv => NoLostWakeup
  BY DEF WaitInv
<1> QED
  BY <1>1, WaitInvariant, PTL

\* realtime-simulator-impl.cc:336: the event at the head of the list after the
\* wait is due, whichever it is and whatever ended the sleeps and spins.
THEOREM NoEventIsEarly == Spec => []NeverEarly
<1>1. WaitInv => NeverEarly
  BY DEF WaitInv
<1> QED
  BY <1>1, WaitInvariant, PTL

------------------------------------------------------------------------------
(* The list and the clock, when Run is called once and a step is a whole     *)
(* number of nanoseconds, as with the default resolution.  A second Run sets *)
(* the origin of real time anew and leaves the simulation clock where it     *)
(* was; with finer steps an event is taken when its nanosecond has come, and *)
(* a worker may still insert one before it.                                  *)

WholeNanoseconds == StepsPerNs = 1
OneRun == MaxRuns <= 1

\* Real time never falls behind the simulation clock.
ClockInv ==
  /\ runs = 0 => pc = "idle"
  /\ runs = 0 \/ pc = "starting" => m_currentTs = 0
  /\ TimeStepToNanosecond(m_currentTs) <= GetNormalizedRealtime

UidInv == m_currentUid < m_uid /\ \A e \in m_events : e.uid < m_uid

ListInv == ClockInv /\ UidInv /\ ListAheadOfClock

LEMMA InitList == Init => ListInv
<1>1. 0 \div StepsPerNs = 0 /\ 0 * NsPerStep = 0
  BY Units, Z3
<1>2. TimeStepToNanosecond(0) = 0
  BY <1>1 DEF TimeStepToNanosecond
<1> QED
  BY <1>2, RealtimeAssumption
  DEF Init, ListInv, ClockInv, UidInv, ListAheadOfClock, VALID, INVALID, GetNormalizedRealtime

\* The worker's time stamp, which real time gives, is not before the clock.
LEMMA WorkerIsNotBehind ==
  ASSUME WholeNanoseconds, TypeInv, ClockInv
  PROVE  m_currentTs <= GetCurrentRealtime /\ m_currentTs <= StartOfDelay
<1>1. m_currentTs \in Nat /\ GetNormalizedRealtime \in Nat
  BY RealtimeType DEF TypeInv, TypeOK
<1>2. m_currentTs <= GetCurrentRealtime
  BY <1>1, DueInSteps DEF WholeNanoseconds, ClockInv, GetCurrentRealtime
<1> QED
  BY <1>1, <1>2 DEF StartOfDelay

LEMMA InsertKeepsList ==
  ASSUME TypeInv, ListInv, NEW ts \in Nat, m_currentTs <= ts, Insert(ts), pc' = pc,
         UNCHANGED <<currentVars, fixedVars, m_realtimeOriginNano, wall>>
  PROVE  ListInv'
<1>1. ClockInv'
  BY DEF ListInv, ClockInv, currentVars, fixedVars, TimeStepToNanosecond, GetNormalizedRealtime
<1>2. /\ m_events' = m_events \cup {NewEvent(ts)} /\ m_uid' = m_uid + 1
      /\ NewEvent(ts).ts = ts /\ NewEvent(ts).uid = m_uid
      /\ m_currentTs' = m_currentTs /\ m_currentUid' = m_currentUid
  BY DEF Insert, NewEvent, currentVars
<1>3. /\ m_uid \in Nat /\ m_currentTs \in Nat /\ m_currentUid \in Nat
      /\ \A e \in m_events : e.uid \in Nat /\ e.ts \in Nat
  BY DEF TypeInv, TypeOK, EventIds
<1>4. UidInv'
  BY <1>2, <1>3 DEF ListInv, UidInv
<1>5. ListAheadOfClock'
  BY <1>2, <1>3 DEF ListInv, UidInv, ListAheadOfClock, Less, CurrentKey
<1> QED
  BY <1>1, <1>4, <1>5 DEF ListInv

\* A step that inserts nothing, executes nothing and does not set the origin.
LEMMA OtherKeepsList ==
  ASSUME TypeInv, ListInv, m_events' \subseteq m_events,
         UNCHANGED <<m_uid, currentVars, m_realtimeOriginNano, runs>>,
         wall' = wall \/ wall' = wall + 1,
         pc' = pc \/ (pc # "idle" /\ pc' # "starting")
  PROVE  ListInv'
<1>1. m_currentTs' = m_currentTs /\ m_currentUid' = m_currentUid
  BY DEF currentVars
<1>2. GetNormalizedRealtime <= GetNormalizedRealtime'
  <2>1. wall \in Nat /\ m_realtimeOriginNano \in 0 .. wall
    BY DEF TypeInv, TypeOK
  <2>2. wall - m_realtimeOriginNano <= wall' - m_realtimeOriginNano
    BY <2>1
  <2> QED
    BY <2>2 DEF GetNormalizedRealtime
<1>3. /\ TimeStepToNanosecond(m_currentTs) \in Nat /\ GetNormalizedRealtime \in Nat
      /\ GetNormalizedRealtime' \in Int
  <2>1. wall \in Nat /\ m_realtimeOriginNano \in Int
    BY DEF TypeInv, TypeOK
  <2>2. wall' - m_realtimeOriginNano' \in Int
    BY <2>1
  <2> QED
    BY <2>2, ConversionTypes, RealtimeType DEF TypeInv, TypeOK, GetNormalizedRealtime
<1>4. ClockInv'
  <2>1. TimeStepToNanosecond(m_currentTs)' <= GetNormalizedRealtime'
    BY <1>1, <1>2, <1>3 DEF ListInv, ClockInv, TimeStepToNanosecond
  <2>2. (runs = 0 => pc = "idle")' /\ (runs = 0 \/ pc = "starting" => m_currentTs = 0)'
    BY <1>1 DEF ListInv, ClockInv
  <2> QED
    BY <2>1, <2>2 DEF ClockInv
<1> QED
  BY <1>1, <1>4 DEF ListInv, UidInv, ListAheadOfClock, Less, CurrentKey

\* The only Run starts with the clock at 0, like real time.
LEMMA StartKeepsList ==
  ASSUME OneRun, TypeInv, TypeInv', ListInv, Run \/ SetOrigin
  PROVE  ListInv'
<1>1. UNCHANGED <<m_events, m_uid, m_currentTs, m_currentUid>>
  BY DEF Run, SetOrigin, listVars, currentVars
<1>2. m_currentTs = 0
  <2>1. CASE Run
    <3>1. runs \in Nat /\ MaxRuns \in Nat
      BY RealtimeAssumption DEF TypeInv, TypeOK
    <3>2. runs = 0
      BY <2>1, <3>1 DEF Run, OneRun
    <3> QED
      BY <3>2 DEF ListInv, ClockInv
  <2>2. CASE SetOrigin
    BY <2>2 DEF SetOrigin, ListInv, ClockInv
  <2> QED
    BY <2>1, <2>2
<1>3. (runs = 0 => pc = "idle")'
  <2>1. CASE Run
    BY <2>1 DEF Run, TypeInv, TypeOK
  <2>2. CASE SetOrigin
    BY <2>2 DEF SetOrigin, ListInv, ClockInv, mainUnchanged, fixedVars
  <2> QED
    BY <2>1, <2>2
<1>4. TimeStepToNanosecond(0) = 0
  BY Units, ConversionByUnit, Z3 DEF TimeStepToNanosecond
<1>5. GetNormalizedRealtime' \in Nat
  <2>1. wall' \in Nat /\ m_realtimeOriginNano' \in 0 .. wall'
    BY DEF TypeInv, TypeOK
  <2>2. wall' - m_realtimeOriginNano' \in Nat
    BY <2>1, DifferenceInNat
  <2> QED
    BY <2>2 DEF GetNormalizedRealtime
<1>6. ClockInv'
  <2>1. TimeStepToNanosecond(m_currentTs)' = TimeStepToNanosecond(0)
    BY <1>1, <1>2 DEF TimeStepToNanosecond
  <2> QED
    BY <1>1, <1>2, <1>3, <1>4, <1>5, <2>1 DEF ClockInv
<1> QED
  BY <1>1, <1>6 DEF ListInv, UidInv, ListAheadOfClock, Less, CurrentKey

\* The event taken was due, and those that stay in the list come after it.
LEMMA TakeEventKeepsList ==
  ASSUME TypeInv, WaitInv, ListInv, TakeEvent
  PROVE  ListInv'
<1> DEFINE next == Earliest(m_events)
<1>1. /\ m_events' = m_events \ {next} /\ m_currentTs' = next.ts /\ m_currentUid' = next.uid
      /\ m_uid' = m_uid /\ runs' = runs /\ pc = "take" /\ pc' # "starting"
      /\ GetNormalizedRealtime' = GetNormalizedRealtime
  BY DEF TakeEvent, mainUnchanged, fixedVars, GetNormalizedRealtime
<1>2. /\ next \in m_events
      /\ \A e \in m_events \ {next} : Less(next, e)
      /\ TimeStepToNanosecond(next.ts) <= GetNormalizedRealtime
  BY TakeEventIsDue, HeadOfList DEF TypeInv
<1> HIDE DEF next
<1>3. ClockInv'
  BY <1>1, <1>2 DEF ListInv, ClockInv, TimeStepToNanosecond
<1>4. UidInv'
  BY <1>1, <1>2 DEF ListInv, UidInv
<1>5. ListAheadOfClock'
  BY <1>1, <1>2 DEF ListAheadOfClock, Less, CurrentKey
<1> QED
  BY <1>3, <1>4, <1>5 DEF ListInv

LEMMA StepKeepsList ==
  ASSUME WholeNanoseconds, OneRun, TypeInv, TypeInv', WaitInv, ListInv, [Next]_vars
  PROVE  ListInv'
<1>1. ASSUME NEW delay \in Delays, Schedule(delay) \/ ScheduleWithContextMain(delay)
      PROVE  ListInv'
  <2>1. m_currentTs + delay \in Nat /\ m_currentTs <= m_currentTs + delay
    BY Units DEF TypeInv, TypeOK
  <2> QED
    BY <1>1, <2>1, InsertKeepsList DEF Schedule, ScheduleWithContextMain
<1>2. ASSUME NEW delay \in Delays,
             ScheduleWithContextWorker(delay) \/ ScheduleRealtimeWithContext(delay)
      PROVE  ListInv'
  <2>1. /\ delay \in Nat /\ m_currentTs \in Nat
        /\ GetCurrentRealtime \in Nat /\ StartOfDelay \in Nat
        /\ m_currentTs <= GetCurrentRealtime /\ m_currentTs <= StartOfDelay
    BY Units, WorkerIsNotBehind, RealtimeType DEF ListInv, TypeInv, TypeOK, StartOfDelay
  <2>2. /\ GetCurrentRealtime + delay \in Nat /\ m_currentTs <= GetCurrentRealtime + delay
        /\ StartOfDelay + delay \in Nat /\ m_currentTs <= StartOfDelay + delay
    BY <2>1
  <2> QED
    BY <1>2, <2>2, InsertKeepsList
    DEF ScheduleWithContextWorker, ScheduleRealtimeWithContext
<1>3. ASSUME NEW id \in ids, RemoveEvent(id) \/ Cancel(id)
      PROVE  ListInv'
  BY <1>3, OtherKeepsList DEF RemoveEvent, Cancel, listVars, fixedVars
<1>4. CASE Stop \/ Tick \/ UNCHANGED vars
  BY <1>4, OtherKeepsList DEF Stop, Tick, vars, listVars, fixedVars
<1>5. CASE TestStop \/ CheckEvents \/ EventReturns \/ ComputeWait
  BY <1>5, OtherKeepsList
  DEF TestStop, CheckEvents, EventReturns, ComputeWait, listVars, fixedVars, mainUnchanged
<1>6. CASE IdleWait \/ WaitForEvent
  BY <1>6, OtherKeepsList
  DEF IdleWait, WaitForEvent, DoSynchronize, SleepWait, SpinWait, listVars, fixedVars,
      mainUnchanged
<1> QED
  BY <1>1, <1>2, <1>3, <1>4, <1>5, <1>6, StartKeepsList, TakeEventKeepsList
  DEF Next, UserStep, WorkerStep, MainStep

\* realtime-simulator-impl.cc:340, 563, 604 and 636: whichever thread inserts
\* an event, and whenever, it lies ahead of the event executed last.
THEOREM ListStaysAhead ==
  ASSUME WholeNanoseconds, OneRun
  PROVE  Spec => []ListAheadOfClock
<1>1. Spec => []ListInv
  BY InitList, StepKeepsList, TypeCorrect, WaitInvariant, PTL DEF Spec
<1>2. ListInv => ListAheadOfClock
  BY DEF ListInv
<1> QED
  BY <1>1, <1>2, PTL

==============================================================================
