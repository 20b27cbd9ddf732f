----------------------- MODULE DefaultSimulatorProofs ------------------------
(***************************************************************************)
(* Proofs about DefaultSimulatorImpl, for any set of delays and any number *)
(* of events and workers, as long as m_uid does not wrap.                  *)
(***************************************************************************)
EXTENDS DefaultSimulatorImpl, CommonLemmas

\* The counter m_uid is wide enough for the events of one simulation.
NoWrap == VALID + MaxEvents < UidMod

Known == ids \cup m_events

\* m_uid has not wrapped and leaves room for what workers handed over.
CounterInv ==
  /\ m_uid = ord
  /\ VALID <= ord
  /\ ord + Len(m_eventsWithContext) <= VALID + MaxEvents
  /\ m_currentUid < ord

\* Events in the list carry the uids given out so far and lie ahead of the
\* current event.
ListInv ==
  \A e \in m_events :
    e.uid = e.ord /\ VALID <= e.ord /\ e.ord < ord /\ Less(CurrentKey, e)

\* An ord names one event.
NamesInv ==
  /\ \A a, b \in Known : a.ord = b.ord => a = b
  /\ \A id \in ids :
       /\ id.ord < ord
       /\ id.uid = DESTROY \/ (id.uid = id.ord /\ VALID <= id.ord)

ElementsIn(s, S) == \A i \in 1 .. Len(s) : s[i] \in S
Distinct(s) == \A i, j \in 1 .. Len(s) : s[i] = s[j] => i = j
DestroyIds == {id \in ids : id.uid = DESTROY}

\* The events for Destroy are known to user code, and each is listed once.
DestroyInv == ElementsIn(m_destroyEvents, DestroyIds) /\ Distinct(m_destroyEvents)

\* An event that is not in the list any more looks expired.
GoneInv ==
  pc # "disposed" => \A id \in ids : id.uid # DESTROY => id \in m_events \/ IsExpired(id)

IInv ==
  /\ TypeOK
  /\ CounterInv
  /\ ListInv
  /\ NamesInv
  /\ DestroyInv
  /\ GoneInv
  /\ HandoverIsFlagged

------------------------------------------------------------------------------

\* Counting modulo a large enough width is counting.
LEMMA ModSmall ==
  ASSUME NEW a \in Nat, NEW n \in Nat, a < n
  PROVE  a % n = a
BY Z3


\* The constructor establishes the invariant.
LEMMA InitIInv == Init => IInv
<1> SUFFICES ASSUME Init PROVE IInv
  OBVIOUS
<1> USE DefaultSimulatorAssumption DEF DefaultSimulatorAssumption, Init, VALID, INVALID, DESTROY
<1>1. TypeOK
  <2>1. << >> \in Seq(Nat) /\ << >> \in Seq(EventIds)
    OBVIOUS
  <2>2. m_uid \in 0 .. UidMod - 1 /\ m_currentUid \in Nat /\ ord \in Nat
    OBVIOUS
  <2>3. m_eventsWithContextEmpty \in BOOLEAN /\ m_stop \in BOOLEAN
    BY Zenon
  <2>4. pc \in PCs
    BY DEF PCs
  <2> QED
    BY <2>1, <2>2, <2>3, <2>4 DEF TypeOK
<1>2. CounterInv
  BY DEF CounterInv
<1>3. ListInv /\ NamesInv /\ DestroyInv /\ GoneInv /\ HandoverIsFlagged
  BY DEF ListInv, NamesInv, DestroyInv, ElementsIn, Distinct, GoneInv, HandoverIsFlagged, Known
<1> QED
  BY <1>1, <1>2, <1>3 DEF IInv

\* Schedule, ScheduleNow, Stop(delay) and the main-thread branch of
\* ScheduleWithContext: a new event, the last for its time, with a fresh uid.
LEMMA InsertIInv ==
  ASSUME NoWrap, IInv, NEW delay \in Delays, NEW stop \in BOOLEAN,
         InUserCode, MayCreate, InsertEvent(delay, stop),
         ids' \in {ids, ids \cup {Event(m_currentTs + delay, m_uid, ord, stop)}},
         UNCHANGED <<handoverVars, m_destroyEvents, m_stop, currentVars, cancelled, pc, invoked>>
  PROVE  IInv'
<1> DEFINE ev == Event(m_currentTs + delay, m_uid, ord, stop)
<1> USE DefaultSimulatorAssumption DEF DefaultSimulatorAssumption, handoverVars, currentVars
<1>0. /\ TypeOK /\ CounterInv /\ ListInv /\ NamesInv /\ DestroyInv /\ GoneInv /\ HandoverIsFlagged
  BY DEF IInv
<1>1. /\ ev \in EventIds /\ ev.ts = m_currentTs + delay /\ ev.uid = ord /\ ev.ord = ord
      /\ delay \in Nat
  BY <1>0 DEF TypeOK, CounterInv, Event, EventIds
<1>2. m_uid' = ord + 1 /\ ord + 1 < UidMod /\ ord' = ord + 1 /\ m_events' = m_events \cup {ev}
      /\ m_unscheduledEvents' = m_unscheduledEvents + 1
  <2>1. ord + 1 < UidMod /\ ord + 1 \in Nat /\ m_uid = ord
    BY <1>0 DEF NoWrap, MayCreate, CounterInv, TypeOK, VALID
  <2>2. (m_uid + 1) % UidMod = ord + 1
    BY <2>1, ModSmall
  <2> QED
    BY <2>1, <2>2 DEF InsertEvent
<1> HIDE DEF ev
<1>3. TypeOK'
  BY <1>0, <1>1, <1>2 DEF TypeOK, ev
<1>4. CounterInv'
  BY <1>0, <1>2 DEF CounterInv, MayCreate, TypeOK, VALID
<1>5. ListInv'
  BY <1>0, <1>1, <1>2 DEF ListInv, CounterInv, TypeOK, Less, CurrentKey, EventIds, VALID
<1>6. NamesInv'
  BY <1>0, <1>1, <1>2 DEF NamesInv, ListInv, CounterInv, Known, TypeOK, EventIds, VALID, ev
<1>7. DestroyInv' /\ HandoverIsFlagged'
  BY <1>0 DEF DestroyInv, DestroyIds, ElementsIn, HandoverIsFlagged
<1>8. GoneInv'
  BY <1>0, <1>1, <1>2 DEF GoneInv, IsExpired, ev
<1> QED
  BY <1>3, <1>4, <1>5, <1>6, <1>7, <1>8 DEF IInv

\* The worker branch of ScheduleWithContext only touches the handover.
LEMMA WorkerIInv ==
  ASSUME IInv, NEW delay \in Delays, ScheduleWithContextWorker(delay)
  PROVE  IInv'
<1> USE DefaultSimulatorAssumption
    DEF DefaultSimulatorAssumption, ScheduleWithContextWorker, listVars, currentVars
<1>0. /\ TypeOK /\ CounterInv /\ ListInv /\ NamesInv /\ DestroyInv /\ GoneInv
  BY DEF IInv
<1>1. /\ m_eventsWithContext' \in Seq(Nat)
      /\ Len(m_eventsWithContext') = Len(m_eventsWithContext) + 1
  BY <1>0 DEF TypeOK
<1>2. m_eventsWithContextEmpty' \in BOOLEAN /\ HandoverIsFlagged'
  BY Zenon DEF HandoverIsFlagged
<1>3. TypeOK'
  BY <1>0, <1>1, <1>2 DEF TypeOK
<1>4. CounterInv'
  BY <1>0, <1>1 DEF CounterInv, MayCreate, TypeOK, VALID
<1>5. ListInv' /\ NamesInv' /\ DestroyInv' /\ GoneInv'
  BY <1>0 DEF ListInv, NamesInv, DestroyInv, DestroyIds, GoneInv, Known, CurrentKey, IsExpired, InDestroyEvents
<1> QED
  BY <1>2, <1>3, <1>4, <1>5 DEF IInv

\* ScheduleDestroy appends an event with a fresh ord to the destroy list.
LEMMA ScheduleDestroyIInv ==
  ASSUME NoWrap, IInv, ScheduleDestroy
  PROVE  IInv'
<1> DEFINE id == Event(m_currentTs, DESTROY, ord, FALSE)
<1>0. /\ TypeOK /\ CounterInv /\ ListInv /\ NamesInv /\ DestroyInv /\ GoneInv /\ HandoverIsFlagged
  BY DEF IInv
<1>1. /\ id.uid = DESTROY /\ id.ord = ord
      /\ id \in EventIds
  BY <1>0 DEF TypeOK, Event, EventIds, DESTROY
<1>2. m_uid' = ord + 1 /\ ord + 1 < UidMod /\ ord' = ord + 1
  <2>1. ord + 1 < UidMod /\ ord + 1 \in Nat /\ m_uid = ord /\ UidMod \in Nat
    BY <1>0, DefaultSimulatorAssumption
    DEF NoWrap, MayCreate, CounterInv, TypeOK, VALID, DefaultSimulatorAssumption, ScheduleDestroy
  <2> QED
    BY <2>1, ModSmall DEF ScheduleDestroy
<1>3. m_destroyEvents' = Append(m_destroyEvents, id) /\ ids' = ids \cup {id}
  BY DEF ScheduleDestroy
<1>4. UNCHANGED <<m_events, m_unscheduledEvents, handoverVars, m_stop, currentVars,
                  cancelled, pc, invoked>>
  BY DEF ScheduleDestroy
<1> HIDE DEF id
<1>5. TypeOK'
  <2>1. m_destroyEvents' \in Seq(EventIds) /\ ids' \subseteq EventIds
    BY <1>0, <1>1, <1>3 DEF TypeOK
  <2>2. m_uid' \in 0 .. UidMod - 1 /\ ord' \in Nat
    BY <1>0, <1>2, DefaultSimulatorAssumption DEF TypeOK, DefaultSimulatorAssumption
  <2> QED
    BY <1>0, <1>4, <2>1, <2>2 DEF TypeOK, handoverVars, currentVars
<1>6. CounterInv' /\ HandoverIsFlagged'
  <2>1. HandoverIsFlagged'
    BY <1>0, <1>4 DEF HandoverIsFlagged, handoverVars
  <2>2. MayCreate
    BY DEF ScheduleDestroy
  <2>3. CounterInv'
    BY <1>0, <1>2, <1>4, <2>2, DefaultSimulatorAssumption
    DEF CounterInv, MayCreate, TypeOK, VALID, handoverVars, currentVars, DefaultSimulatorAssumption
  <2> QED
    BY <2>1, <2>3
<1>7. ListInv'
  BY <1>0, <1>2, <1>4 DEF ListInv, CurrentKey, TypeOK, EventIds, currentVars
<1>8. NamesInv'
  <2>1. \A a \in Known : a.ord < ord /\ a.ord \in Nat
    BY <1>0 DEF NamesInv, ListInv, Known, TypeOK, EventIds
  <2>2. Known' = Known \cup {id}
    BY <1>3, <1>4 DEF Known
  <2>3. \A a, b \in Known' : a.ord = b.ord => a = b
    BY <1>0, <1>1, <2>1, <2>2 DEF NamesInv, TypeOK
  <2>4. \A j \in ids' : j.ord < ord'
    BY <1>0, <1>1, <1>2, <1>3, <2>1 DEF Known, TypeOK
  <2>5. \A j \in ids' : j.uid = DESTROY \/ (j.uid = j.ord /\ VALID <= j.ord)
    BY <1>0, <1>1, <1>3 DEF NamesInv
  <2> QED
    BY <2>3, <2>4, <2>5 DEF NamesInv
<1>9. DestroyInv'
  <2>1. \A i \in 1 .. Len(m_destroyEvents) : m_destroyEvents[i] # id
    BY <1>0, <1>1 DEF DestroyInv, ElementsIn, DestroyIds, NamesInv, TypeOK
  <2>2. /\ Len(m_destroyEvents') = Len(m_destroyEvents) + 1
        /\ Len(m_destroyEvents) \in Nat
        /\ \A i \in 1 .. Len(m_destroyEvents) : m_destroyEvents'[i] = m_destroyEvents[i]
        /\ m_destroyEvents'[Len(m_destroyEvents) + 1] = id
    BY <1>0, <1>1, <1>3 DEF TypeOK
  <2>3. ElementsIn(m_destroyEvents', DestroyIds')
    BY <1>0, <1>1, <1>3, <2>2 DEF DestroyInv, ElementsIn, DestroyIds
  <2>4. Distinct(m_destroyEvents')
    BY <1>0, <2>1, <2>2 DEF DestroyInv, Distinct
  <2> QED
    BY <2>3, <2>4 DEF DestroyInv
<1>10. GoneInv'
  BY <1>0, <1>1, <1>3, <1>4 DEF GoneInv, IsExpired, currentVars
<1> QED
  BY <1>5, <1>6, <1>7, <1>8, <1>9, <1>10 DEF IInv

\* What is left of a sequence when its element k is taken out.
LEMMA TakenOut ==
  ASSUME NEW S, NEW s \in Seq(S), NEW k \in 1 .. Len(s)
  PROVE  /\ Without(s, k) \in Seq(S)
         /\ Len(Without(s, k)) = Len(s) - 1
         /\ \A i \in 1 .. Len(s) - 1 : /\ i < k => Without(s, k)[i] = s[i]
                                       /\ ~(i < k) => Without(s, k)[i] = s[i + 1]
<1> DEFINE t == Without(s, k)
           a == SubSeq(s, 1, k - 1)
           b == SubSeq(s, k + 1, Len(s))
<1>0. Len(s) \in Nat /\ k \in Nat /\ 1 <= k /\ k <= Len(s)
  OBVIOUS
<1>1. a \in Seq(S) /\ \A i \in 1 .. k - 1 : a[i] = s[i]
  OBVIOUS
<1>2. b \in Seq(S) /\ \A i \in 1 .. Len(s) - k : b[i] = s[k + i]
  OBVIOUS
<1>3. Len(a) = k - 1 /\ Len(b) = Len(s) - k
  OBVIOUS
<1>4. t = a \o b
  BY DEF Without
<1> HIDE DEF a, b, t
<1>5. /\ t \in Seq(S)
      /\ Len(t) = Len(a) + Len(b)
      /\ \A i \in 1 .. Len(a) + Len(b) : t[i] = IF i <= Len(a) THEN a[i] ELSE b[i - Len(a)]
  <2>1. a \in Seq(S) /\ b \in Seq(S)
    BY <1>1, <1>2
  <2>2. /\ a \o b \in Seq(S)
        /\ Len(a \o b) = Len(a) + Len(b)
        /\ \A i \in 1 .. Len(a) + Len(b) :
             (a \o b)[i] = IF i <= Len(a) THEN a[i] ELSE b[i - Len(a)]
    BY <2>1, ConcatProperties, Zenon
  <2> QED
    BY <1>4, <2>2, Zenon
<1>6. Len(a) + Len(b) = Len(s) - 1
  BY <1>0, <1>3
<1>7. ASSUME NEW i \in 1 .. Len(s) - 1, i < k PROVE t[i] = s[i]
  <2>1. i \in 1 .. Len(a) + Len(b) /\ i <= Len(a) /\ i \in 1 .. k - 1
    BY <1>0, <1>3, <1>6, <1>7
  <2> QED
    BY <1>1, <1>5, <2>1
<1>8. ASSUME NEW i \in 1 .. Len(s) - 1, ~(i < k) PROVE t[i] = s[i + 1]
  <2>1. /\ i \in 1 .. Len(a) + Len(b) /\ ~(i <= Len(a))
        /\ i - Len(a) \in 1 .. Len(s) - k
        /\ k + (i - Len(a)) = i + 1
    BY <1>0, <1>3, <1>6, <1>8
  <2>2. t[i] = b[i - Len(a)]
    BY <1>5, <2>1
  <2>3. b[i - Len(a)] = s[k + (i - Len(a))]
    BY <1>2, <2>1
  <2> QED
    BY <2>1, <2>2, <2>3
<1>9. Len(t) = Len(s) - 1
  BY <1>5, <1>6
<1> QED
  BY <1>5, <1>7, <1>8, <1>9 DEF t

\* Taking an element out keeps the others, each still once.
LEMMA TakenOutKeeps ==
  ASSUME NEW S, NEW s \in Seq(S), NEW k \in 1 .. Len(s), NEW T, ElementsIn(s, T), Distinct(s)
  PROVE  /\ Without(s, k) \in Seq(S)
         /\ ElementsIn(Without(s, k), T)
         /\ Distinct(Without(s, k))
<1> DEFINE t == Without(s, k)
<1>1. /\ t \in Seq(S)
      /\ Len(t) = Len(s) - 1
      /\ \A i \in 1 .. Len(s) - 1 : /\ i < k => t[i] = s[i]
                                    /\ ~(i < k) => t[i] = s[i + 1]
  BY TakenOut
<1> HIDE DEF t
<1>2. Len(s) \in Nat /\ k \in Nat /\ 1 <= k /\ k <= Len(s)
  OBVIOUS
<1>3. \A i \in 1 .. Len(t) : i \in 1 .. Len(s) /\ i + 1 \in 1 .. Len(s) /\ i \in 1 .. Len(s) - 1
  BY <1>1, <1>2
<1>4. ElementsIn(t, T)
  <2> SUFFICES ASSUME NEW i \in 1 .. Len(t) PROVE t[i] \in T
    BY DEF ElementsIn
  <2>1. i \in 1 .. Len(s) /\ i + 1 \in 1 .. Len(s) /\ (t[i] = s[i] \/ t[i] = s[i + 1])
    BY <1>1, <1>3, Zenon
  <2> QED
    BY <2>1 DEF ElementsIn
<1>5. Distinct(t)
  <2> SUFFICES ASSUME NEW i \in 1 .. Len(t), NEW j \in 1 .. Len(t), t[i] = t[j] PROVE i = j
    BY DEF Distinct
  <2> DEFINE p == IF i < k THEN i ELSE i + 1
             q == IF j < k THEN j ELSE j + 1
  <2>1. p \in 1 .. Len(s) /\ t[i] = s[p]
    BY <1>1, <1>3, Zenon
  <2>2. q \in 1 .. Len(s) /\ t[j] = s[q]
    BY <1>1, <1>3, Zenon
  <2>3. p = q
    <3> HIDE DEF p, q
    <3> QED
      BY <2>1, <2>2 DEF Distinct
  <2> QED
    BY <1>2, <2>3
<1> QED
  BY <1>1, <1>4, <1>5 DEF t

\* Remove of a destroy event only shortens the destroy list.
LEMMA RemoveDestroyEventIInv ==
  ASSUME IInv, NEW id \in ids, RemoveDestroyEvent(id)
  PROVE  IInv'
<1> USE DEF listVars, handoverVars, currentVars
<1>0. /\ TypeOK /\ CounterInv /\ ListInv /\ NamesInv /\ DestroyInv /\ GoneInv /\ HandoverIsFlagged
  BY DEF IInv
<1>1. PICK k \in 1 .. Len(m_destroyEvents) : m_destroyEvents' = Without(m_destroyEvents, k)
  BY DEF RemoveDestroyEvent
<1>2. m_destroyEvents \in Seq(EventIds)
  BY <1>0 DEF TypeOK
<1>3. /\ m_destroyEvents' \in Seq(EventIds)
      /\ ElementsIn(m_destroyEvents', DestroyIds)
      /\ Distinct(m_destroyEvents')
  BY <1>0, <1>1, <1>2, TakenOutKeeps DEF DestroyInv
<1>4. TypeOK'
  BY <1>0, <1>3 DEF TypeOK, RemoveDestroyEvent
<1>5. DestroyInv'
  BY <1>3 DEF DestroyInv, DestroyIds, RemoveDestroyEvent
<1>6. CounterInv' /\ ListInv' /\ NamesInv' /\ GoneInv' /\ HandoverIsFlagged'
  BY <1>0 DEF CounterInv, ListInv, NamesInv, GoneInv, HandoverIsFlagged, Known, CurrentKey,
              IsExpired, RemoveDestroyEvent
<1> QED
  BY <1>4, <1>5, <1>6 DEF IInv

\* Remove of an event in the list.
LEMMA RemoveEventIInv ==
  ASSUME IInv, NEW id \in ids, RemoveEvent(id)
  PROVE  IInv'
<1> USE DEF handoverVars, currentVars
<1>0. /\ TypeOK /\ CounterInv /\ ListInv /\ NamesInv /\ DestroyInv /\ GoneInv /\ HandoverIsFlagged
  BY DEF IInv
<1>1. /\ m_events' = m_events \ {id}
      /\ cancelled' = cancelled \cup {id.ord}
      /\ m_unscheduledEvents' = m_unscheduledEvents - 1
      /\ UNCHANGED <<m_uid, ord, handoverVars, m_destroyEvents, m_stop, currentVars, pc,
                     ids, invoked>>
  BY DEF RemoveEvent
<1>2. TypeOK'
  <2>1. cancelled' \subseteq Nat /\ m_events' \subseteq EventIds
    BY <1>0, <1>1 DEF TypeOK, EventIds
  <2>2. m_unscheduledEvents' \in Int
    BY <1>0, <1>1 DEF TypeOK
  <2> QED
    BY <1>0, <1>1, <2>1, <2>2 DEF TypeOK
<1>3. CounterInv' /\ ListInv' /\ NamesInv' /\ DestroyInv' /\ HandoverIsFlagged'
  BY <1>0, <1>1 DEF CounterInv, ListInv, NamesInv, DestroyInv, DestroyIds, HandoverIsFlagged, Known, CurrentKey
<1>4. GoneInv'
  BY <1>0, <1>1 DEF GoneInv, IsExpired
<1> QED
  BY <1>2, <1>3, <1>4 DEF IInv

\* Cancel and Stop leave the list alone.
LEMMA CancelIInv ==
  ASSUME IInv, NEW id \in ids, Cancel(id)
  PROVE  IInv'
<1> USE DEF Cancel, listVars, handoverVars, currentVars
<1>0. /\ TypeOK /\ CounterInv /\ ListInv /\ NamesInv /\ DestroyInv /\ GoneInv /\ HandoverIsFlagged
  BY DEF IInv
<1>1. TypeOK'
  BY <1>0 DEF TypeOK, EventIds
<1>2. CounterInv' /\ ListInv' /\ NamesInv' /\ DestroyInv' /\ HandoverIsFlagged'
  BY <1>0 DEF CounterInv, ListInv, NamesInv, DestroyInv, DestroyIds, HandoverIsFlagged, Known, CurrentKey
<1>3. GoneInv'
  BY <1>0 DEF GoneInv, IsExpired
<1> QED
  BY <1>1, <1>2, <1>3 DEF IInv

\* Steps that move the main thread, or call Stop, and touch no event.
LEMMA ControlIInv ==
  ASSUME IInv, pc # "disposed", pc' \in PCs, m_stop' \in BOOLEAN,
         UNCHANGED <<listVars, handoverVars, m_destroyEvents, currentVars, cancelled, ids, invoked>>
  PROVE  IInv'
<1> USE DEF listVars, handoverVars, currentVars
<1>0. /\ TypeOK /\ CounterInv /\ ListInv /\ NamesInv /\ DestroyInv /\ GoneInv /\ HandoverIsFlagged
  BY DEF IInv
<1>1. TypeOK'
  BY <1>0 DEF TypeOK
<1>2. CounterInv' /\ ListInv' /\ NamesInv' /\ DestroyInv' /\ HandoverIsFlagged'
  BY <1>0 DEF CounterInv, ListInv, NamesInv, DestroyInv, DestroyIds, HandoverIsFlagged, Known, CurrentKey
<1>3. GoneInv'
  BY <1>0 DEF GoneInv, IsExpired
<1> QED
  BY <1>1, <1>2, <1>3 DEF IInv

\* The events a swap brings in: what they look like, given that m_uid does
\* not wrap on the way.
LEMMA HandedOverEvents ==
  ASSUME NoWrap, TypeOK, CounterInv
  PROVE  /\ Len(m_eventsWithContext) \in Nat
         /\ (m_uid + Len(m_eventsWithContext)) % UidMod = ord + Len(m_eventsWithContext)
         /\ ord + Len(m_eventsWithContext) < UidMod
         /\ \A e \in HandedOver :
              /\ e \in EventIds /\ e.uid = e.ord /\ m_currentTs <= e.ts
              /\ ord <= e.ord /\ e.ord < ord + Len(m_eventsWithContext)
         /\ \A e, f \in HandedOver : e.ord = f.ord => e = f
<1> USE DefaultSimulatorAssumption DEF DefaultSimulatorAssumption
<1>1. /\ Len(m_eventsWithContext) \in Nat
      /\ ord + Len(m_eventsWithContext) < UidMod
      /\ m_uid = ord /\ ord \in Nat /\ m_currentTs \in Nat
      /\ \A i \in 1 .. Len(m_eventsWithContext) : m_eventsWithContext[i] \in Nat
  BY DEF NoWrap, TypeOK, CounterInv, VALID
<1>2. (m_uid + Len(m_eventsWithContext)) % UidMod = ord + Len(m_eventsWithContext)
  <2>1. ord + Len(m_eventsWithContext) \in Nat
    BY <1>1
  <2> QED
    BY <1>1, <2>1, ModSmall
<1>3. ASSUME NEW i \in 1 .. Len(m_eventsWithContext)
      PROVE  (m_uid + (i - 1)) % UidMod = ord + (i - 1)
  <2>1. ord + (i - 1) \in Nat /\ ord + (i - 1) < UidMod
    BY <1>1
  <2> QED
    BY <1>1, <2>1, ModSmall
<1> DEFINE Ev(i) == Event(m_currentTs + m_eventsWithContext[i], ord + (i - 1), ord + (i - 1), FALSE)
<1>4. HandedOver = {Ev(i) : i \in 1 .. Len(m_eventsWithContext)}
  BY <1>3 DEF HandedOver
<1>5. ASSUME NEW i \in 1 .. Len(m_eventsWithContext)
      PROVE  /\ Ev(i) \in EventIds /\ Ev(i).uid = Ev(i).ord /\ m_currentTs <= Ev(i).ts
             /\ Ev(i).ord = ord + (i - 1)
             /\ ord <= Ev(i).ord /\ Ev(i).ord < ord + Len(m_eventsWithContext)
  <2>1. /\ m_currentTs + m_eventsWithContext[i] \in Nat
        /\ m_currentTs <= m_currentTs + m_eventsWithContext[i]
        /\ ord + (i - 1) \in Nat /\ ord <= ord + (i - 1)
        /\ ord + (i - 1) < ord + Len(m_eventsWithContext)
    BY <1>1
  <2> QED
    BY <2>1 DEF Event, EventIds
<1>6. ASSUME NEW i \in 1 .. Len(m_eventsWithContext), NEW j \in 1 .. Len(m_eventsWithContext),
             Ev(i).ord = Ev(j).ord
      PROVE  i = j
  <2>1. ord + (i - 1) = ord + (j - 1)
    BY <1>5, <1>6, Zenon
  <2> QED
    BY <1>1, <2>1
<1> HIDE DEF Ev
<1> QED
  BY <1>1, <1>2, <1>4, <1>5, <1>6

\* ProcessEventsWithContext taking over what workers handed over.
LEMMA SwapInIInv ==
  ASSUME NoWrap, IInv, SwapIn, pc # "disposed", pc' \in PCs, m_stop' \in BOOLEAN,
         UNCHANGED <<m_destroyEvents, currentVars, cancelled, ids, invoked>>
  PROVE  IInv'
<1> USE DefaultSimulatorAssumption DEF DefaultSimulatorAssumption, currentVars
<1> DEFINE n == Len(m_eventsWithContext)
<1>0. /\ TypeOK /\ CounterInv /\ ListInv /\ NamesInv /\ DestroyInv /\ GoneInv
  BY DEF IInv
<1>1. /\ n \in Nat
      /\ (m_uid + n) % UidMod = ord + n
      /\ ord + n < UidMod
      /\ \A e \in HandedOver :
           /\ e \in EventIds /\ e.uid = e.ord /\ m_currentTs <= e.ts
           /\ ord <= e.ord /\ e.ord < ord + n
      /\ \A e, f \in HandedOver : e.ord = f.ord => e = f
  BY <1>0, HandedOverEvents
<1>2. /\ m_eventsWithContext' = << >>
      /\ m_events' = m_events \cup HandedOver
      /\ m_uid' = ord + n
      /\ ord' = ord + n
      /\ m_unscheduledEvents' = m_unscheduledEvents + n
  BY <1>1 DEF SwapIn
<1>3. m_eventsWithContextEmpty' \in BOOLEAN
  BY Zenon DEF SwapIn
<1>4. ord \in Nat /\ ord + n \in Nat /\ m_currentUid \in Nat /\ m_currentTs \in Nat
  BY <1>0, <1>1 DEF TypeOK
<1> HIDE DEF n
<1>5. TypeOK'
  <2>1. m_eventsWithContext' \in Seq(Nat)
    BY <1>2
  <2>2. m_events' \subseteq EventIds
    BY <1>0, <1>1, <1>2 DEF TypeOK
  <2>3. m_uid' \in 0 .. UidMod - 1 /\ ord' \in Nat /\ m_unscheduledEvents' \in Int
    BY <1>0, <1>1, <1>2, <1>4 DEF TypeOK
  <2> QED
    BY <1>0, <1>3, <2>1, <2>2, <2>3 DEF TypeOK
<1>6. CounterInv'
  <2>1. Len(m_eventsWithContext') = 0
    BY <1>2
  <2> QED
    BY <1>0, <1>1, <1>2, <1>4, <2>1 DEF CounterInv, VALID, n
<1>7. ListInv'
  <2> SUFFICES ASSUME NEW e \in m_events'
               PROVE  e.uid = e.ord /\ VALID <= e.ord /\ e.ord < ord' /\ Less(CurrentKey', e)
    BY DEF ListInv
  <2>1. CurrentKey' = CurrentKey
    BY DEF CurrentKey
  <2>2. CASE e \in m_events
    BY <1>0, <1>1, <1>2, <1>4, <2>1, <2>2 DEF ListInv, TypeOK, EventIds, VALID
  <2>3. CASE e \in HandedOver
    BY <1>0, <1>1, <1>2, <1>4, <2>1, <2>3 DEF CounterInv, Less, CurrentKey, EventIds, VALID
  <2> QED
    BY <1>2, <2>2, <2>3
<1>8. NamesInv'
  <2>1. \A a \in Known : a.ord < ord /\ a.ord \in Nat
    BY <1>0 DEF NamesInv, ListInv, Known, TypeOK, EventIds
  <2>2. Known' = Known \cup HandedOver
    BY <1>2 DEF Known
  <2>3. \A a \in HandedOver : a.ord \in Nat
    BY <1>1 DEF EventIds
  <2>4. \A a, b \in Known' : a.ord = b.ord => a = b
    BY <1>0, <1>1, <1>4, <2>1, <2>2, <2>3 DEF NamesInv
  <2>5. \A j \in ids' : j.ord < ord'
    BY <1>1, <1>2, <1>4, <2>1 DEF Known
  <2>6. \A j \in ids' : j.uid = DESTROY \/ (j.uid = j.ord /\ VALID <= j.ord)
    BY <1>0 DEF NamesInv
  <2> QED
    BY <2>4, <2>5, <2>6 DEF NamesInv
<1>9. DestroyInv' /\ HandoverIsFlagged'
  BY <1>0, <1>2 DEF DestroyInv, DestroyIds, HandoverIsFlagged
<1>10. GoneInv'
  BY <1>0, <1>2 DEF GoneInv, IsExpired
<1> QED
  BY <1>5, <1>6, <1>7, <1>8, <1>9, <1>10 DEF IInv

\* The event ProcessOneEvent takes, and what the others look like then.
LEMMA NextEvent ==
  ASSUME IInv, m_events # {}
  PROVE  /\ Earliest(m_events) \in m_events
         /\ \A f \in m_events : f # Earliest(m_events) => Less(Earliest(m_events), f)
<1> DEFINE next == Earliest(m_events)
<1>1. HaveKeys(m_events)
  BY DEF IInv, TypeOK, EventIds, HaveKeys
<1>2. next \in m_events /\ \A f \in m_events : ~Less(f, next)
  BY <1>1, EarliestIsEarliest DEF IsEarliest
<1> HIDE DEF next
<1>3. ASSUME NEW f \in m_events, f # next PROVE Less(next, f)
  <2>1. next.ord # f.ord
    BY <1>2, <1>3 DEF IInv, NamesInv, Known
  <2>2. next.uid # f.uid
    BY <1>2, <2>1 DEF IInv, ListInv
  <2> QED
    BY <1>1, <1>2, <2>2, LessIsTotal
<1> QED
  BY <1>2, <1>3 DEF next

\* One event leaves the list and becomes the current one.
LEMMA ProcessOneEventIInv ==
  ASSUME IInv, ProcessOneEvent
  PROVE  IInv'
<1> DEFINE next == Earliest(m_events)
<1> USE DEF handoverVars
<1>0. /\ TypeOK /\ CounterInv /\ ListInv /\ NamesInv /\ DestroyInv /\ GoneInv /\ HandoverIsFlagged
  BY DEF IInv
<1>1. next \in m_events /\ \A f \in m_events : f # next => Less(next, f)
  BY NextEvent DEF ProcessOneEvent
<1>2. /\ m_events' = m_events \ {next} /\ m_currentTs' = next.ts /\ m_currentUid' = next.uid
      /\ m_unscheduledEvents' = m_unscheduledEvents - 1 /\ m_eventCount' = m_eventCount + 1
      /\ UNCHANGED <<m_uid, ord, handoverVars, m_destroyEvents, cancelled, ids>>
      /\ pc = "loop" /\ pc' \in {"handler", "pec"}
      /\ invoked' \in {invoked, invoked \cup {next.ord}}
  BY DEF ProcessOneEvent
<1>3. m_stop' \in BOOLEAN
  BY Zenon DEF ProcessOneEvent
<1>4. /\ next.ts \in Nat /\ next.uid \in Nat /\ next.ord \in Nat
      /\ next.uid = next.ord /\ next.ord < ord /\ Less(CurrentKey, next)
  BY <1>0, <1>1 DEF ListInv, TypeOK, EventIds
<1> HIDE DEF next
<1>5. TypeOK'
  <2>1. m_events' \subseteq EventIds /\ invoked' \subseteq Nat /\ pc' \in PCs
    BY <1>0, <1>2, <1>4 DEF TypeOK, PCs
  <2>2. m_unscheduledEvents' \in Int /\ m_eventCount' \in Nat
    BY <1>0, <1>2 DEF TypeOK
  <2> QED
    BY <1>0, <1>2, <1>3, <1>4, <2>1, <2>2 DEF TypeOK
<1>6. CounterInv'
  BY <1>0, <1>2, <1>4 DEF CounterInv
<1>7. ListInv'
  <2> SUFFICES ASSUME NEW e \in m_events' PROVE Less(CurrentKey', e)
    BY <1>0, <1>2 DEF ListInv
  <2>1. Less(next, e)
    BY <1>1, <1>2
  <2> QED
    BY <1>2, <2>1 DEF Less, CurrentKey
<1>8. NamesInv' /\ DestroyInv' /\ HandoverIsFlagged'
  BY <1>0, <1>2 DEF NamesInv, DestroyInv, DestroyIds, HandoverIsFlagged, Known
<1>9. GoneInv'
  <2> SUFFICES ASSUME NEW id \in ids, id.uid # DESTROY, id \notin m_events \/ id = next
               PROVE  IsExpired(id)'
    BY <1>2 DEF GoneInv
  <2>1. id.ts \in Nat /\ id.uid \in Nat /\ m_currentTs \in Nat /\ m_currentUid \in Nat
    BY <1>0 DEF TypeOK, EventIds
  <2>2. CASE id = next
    BY <1>2, <1>4, <2>1, <2>2 DEF IsExpired
  <2>3. CASE id \notin m_events
    <3>1. IsExpired(id)
      BY <1>0, <1>2, <2>3 DEF GoneInv
    <3> QED
      BY <1>2, <1>4, <2>1, <3>1 DEF IsExpired, Less, CurrentKey
  <2> QED
    BY <2>2, <2>3
<1> QED
  BY <1>5, <1>6, <1>7, <1>8, <1>9 DEF IInv

\* Destroy takes the first event off its list.
LEMMA DestroyOneEventIInv ==
  ASSUME IInv, DestroyOneEvent
  PROVE  IInv'
<1> USE DEF listVars, handoverVars, currentVars
<1>0. /\ TypeOK /\ CounterInv /\ ListInv /\ NamesInv /\ DestroyInv /\ GoneInv /\ HandoverIsFlagged
  BY DEF IInv
<1>1. /\ m_destroyEvents # << >> /\ m_destroyEvents' = Tail(m_destroyEvents)
      /\ UNCHANGED <<listVars, handoverVars, m_stop, currentVars, cancelled, ids>>
      /\ pc = "destroy" /\ pc' \in {"destroyHandler", "destroy"}
      /\ invoked' \in {invoked, invoked \cup {Head(m_destroyEvents).ord}}
  BY DEF DestroyOneEvent
<1>2. m_destroyEvents \in Seq(EventIds)
  BY <1>0 DEF TypeOK
<1>3. /\ m_destroyEvents' \in Seq(EventIds)
      /\ Len(m_destroyEvents') = Len(m_destroyEvents) - 1
      /\ Len(m_destroyEvents) \in Nat
      /\ \A i \in 1 .. Len(m_destroyEvents') : m_destroyEvents'[i] = m_destroyEvents[i + 1]
      /\ Head(m_destroyEvents) \in EventIds
  BY <1>1, <1>2
<1>4. TypeOK'
  <2>1. invoked' \subseteq Nat /\ pc' \in PCs
    BY <1>0, <1>1, <1>3 DEF TypeOK, EventIds, PCs
  <2> QED
    BY <1>0, <1>1, <1>3, <2>1 DEF TypeOK
<1>5. DestroyInv'
  <2>1. \A i \in 1 .. Len(m_destroyEvents') : i \in Nat /\ i + 1 \in 1 .. Len(m_destroyEvents)
    BY <1>3
  <2>2. ElementsIn(m_destroyEvents', DestroyIds')
    BY <1>0, <1>1, <1>3, <2>1 DEF DestroyInv, ElementsIn, DestroyIds
  <2>3. Distinct(m_destroyEvents')
    BY <1>0, <1>3, <2>1 DEF DestroyInv, Distinct
  <2> QED
    BY <2>2, <2>3 DEF DestroyInv
<1>6. CounterInv' /\ ListInv' /\ NamesInv' /\ HandoverIsFlagged'
  BY <1>0, <1>1 DEF CounterInv, ListInv, NamesInv, HandoverIsFlagged, Known, CurrentKey
<1>7. GoneInv'
  BY <1>0, <1>1 DEF GoneInv, IsExpired
<1> QED
  BY <1>4, <1>5, <1>6, <1>7 DEF IInv

\* DoDispose drops the event list.
LEMMA DoDisposeIInv ==
  ASSUME NoWrap, IInv, DoDispose
  PROVE  IInv'
<1> USE DEF handoverVars, currentVars
<1> DEFINE n == Len(m_eventsWithContext)
<1>0. /\ TypeOK /\ CounterInv /\ NamesInv /\ DestroyInv /\ HandoverIsFlagged
  BY DEF IInv
<1>1. /\ m_events' = {} /\ pc' = "disposed"
      /\ UNCHANGED <<m_destroyEvents, m_stop, currentVars, cancelled, ids, invoked>>
  BY DEF DoDispose
<1>2. /\ n \in Nat /\ (m_uid + n) % UidMod = ord + n /\ ord + n < UidMod
      /\ ord \in Nat /\ ord + n \in Nat
  BY <1>0, HandedOverEvents DEF TypeOK
<1>3. /\ m_uid' = ord' /\ m_uid' \in 0 .. UidMod - 1 /\ ord' \in Nat /\ ord <= ord'
      /\ ord' + Len(m_eventsWithContext') = ord + n
      /\ m_unscheduledEvents' \in Int
      /\ m_eventsWithContext' \in Seq(Nat)
  <2>1. CASE UNCHANGED <<m_uid, ord, m_unscheduledEvents, handoverVars>>
    BY <1>0, <1>2, <2>1 DEF CounterInv, TypeOK
  <2>2. CASE /\ m_eventsWithContext' = << >>
             /\ m_uid' = (m_uid + n) % UidMod
             /\ ord' = ord + n
             /\ m_unscheduledEvents' = m_unscheduledEvents + n
    <3>1. m_eventsWithContext' \in Seq(Nat) /\ Len(m_eventsWithContext') = 0
      BY <2>2
    <3> HIDE DEF n
    <3> QED
      BY <1>0, <1>2, <2>2, <3>1, DefaultSimulatorAssumption DEF TypeOK, DefaultSimulatorAssumption
  <2> QED
    BY <2>1, <2>2 DEF DoDispose
<1>4. m_eventsWithContextEmpty' \in BOOLEAN /\ HandoverIsFlagged'
  <2>1. CASE UNCHANGED <<m_uid, ord, m_unscheduledEvents, handoverVars>>
    BY <1>0, <2>1 DEF TypeOK, HandoverIsFlagged
  <2>2. CASE m_eventsWithContext' = << >> /\ m_eventsWithContextEmpty' = TRUE
    BY <2>2, Zenon DEF HandoverIsFlagged
  <2> QED
    BY <2>1, <2>2 DEF DoDispose
<1>5. TypeOK'
  BY <1>0, <1>1, <1>3, <1>4 DEF TypeOK, PCs
<1>6. CounterInv'
  BY <1>0, <1>1, <1>2, <1>3 DEF CounterInv, TypeOK, VALID
<1>7. ListInv' /\ DestroyInv' /\ GoneInv'
  BY <1>0, <1>1 DEF ListInv, DestroyInv, DestroyIds, GoneInv
<1>8. NamesInv'
  BY <1>0, <1>1, <1>2, <1>3 DEF NamesInv, Known, TypeOK, EventIds
<1> QED
  BY <1>4, <1>5, <1>6, <1>7, <1>8 DEF IInv

\* Every step of user code, workers and the main thread keeps the invariant.
LEMMA NextIInv ==
  ASSUME NoWrap, IInv, [Next]_vars
  PROVE  IInv'
<1>0. TypeOK
  BY DEF IInv
<1>1. ASSUME NEW delay \in Delays, NEW stop \in BOOLEAN, Schedule(delay, stop) PROVE IInv'
  BY <1>1, InsertIInv DEF Schedule
<1>2. ASSUME NEW delay \in Delays, ScheduleWithContextMain(delay) PROVE IInv'
  BY <1>2, InsertIInv DEF ScheduleWithContextMain
<1>3. CASE ScheduleDestroy
  BY <1>3, ScheduleDestroyIInv
<1>4. ASSUME NEW id \in ids, RemoveDestroyEvent(id) PROVE IInv'
  BY <1>4, RemoveDestroyEventIInv
<1>5. ASSUME NEW id \in ids, RemoveEvent(id) PROVE IInv'
  BY <1>5, RemoveEventIInv
<1>6. ASSUME NEW id \in ids, Cancel(id) PROVE IInv'
  BY <1>6, CancelIInv
<1>7. CASE Stop
  <2>1. m_stop' \in BOOLEAN
    BY <1>7, Zenon DEF Stop
  <2> QED
    BY <1>0, <1>7, <2>1, ControlIInv DEF Stop, InUserCode, TypeOK
<1>8. ASSUME NEW delay \in Delays, ScheduleWithContextWorker(delay) PROVE IInv'
  BY <1>8, WorkerIInv
<1>9. CASE RunProcessEventsWithContext
  <2>1. m_stop' \in BOOLEAN
    BY <1>9, Zenon DEF RunProcessEventsWithContext
  <2>2. /\ pc # "disposed" /\ pc' \in PCs
        /\ UNCHANGED <<m_destroyEvents, currentVars, cancelled, ids, invoked>>
    BY <1>9 DEF RunProcessEventsWithContext, PCs
  <2>3. CASE PassOver
    BY <2>1, <2>2, <2>3, ControlIInv DEF PassOver
  <2>4. CASE SwapIn
    BY <2>1, <2>2, <2>4, SwapInIInv
  <2> QED
    BY <1>9, <2>3, <2>4 DEF RunProcessEventsWithContext, ProcessEventsWithContext
<1>10. CASE ProcessOneEvent
  BY <1>10, ProcessOneEventIInv
<1>11. CASE HandlerReturns
  BY <1>0, <1>11, ControlIInv DEF HandlerReturns, PCs, TypeOK
<1>12. CASE AfterEventProcessEventsWithContext
  <2>2. /\ pc # "disposed" /\ pc' \in PCs /\ m_stop' \in BOOLEAN
        /\ UNCHANGED <<m_destroyEvents, currentVars, cancelled, ids, invoked>>
    BY <1>0, <1>12 DEF AfterEventProcessEventsWithContext, PCs, TypeOK
  <2>3. CASE PassOver
    BY <2>2, <2>3, ControlIInv DEF PassOver
  <2>4. CASE SwapIn
    BY <2>2, <2>4, SwapInIInv
  <2> QED
    BY <1>12, <2>3, <2>4 DEF AfterEventProcessEventsWithContext, ProcessEventsWithContext
<1>13. CASE RunReturns
  BY <1>0, <1>13, ControlIInv DEF RunReturns, PCs, TypeOK
<1>14. CASE DestroyOneEvent
  BY <1>14, DestroyOneEventIInv
<1>15. CASE DoDispose
  BY <1>15, DoDisposeIInv
<1>16. CASE Run
  BY <1>0, <1>16, ControlIInv DEF Run, PCs, TypeOK
<1>17. CASE Destroy
  BY <1>0, <1>17, ControlIInv DEF Destroy, PCs, TypeOK
<1>18. CASE UNCHANGED vars
  BY <1>18 DEF vars, listVars, handoverVars, currentVars, IInv, TypeOK, CounterInv, ListInv,
               NamesInv, DestroyInv, DestroyIds, GoneInv, HandoverIsFlagged, Known, CurrentKey,
               IsExpired, InDestroyEvents
<1> QED
  BY <1>1, <1>2, <1>3, <1>4, <1>5, <1>6, <1>7, <1>8, <1>9, <1>10, <1>11, <1>12, <1>13,
     <1>14, <1>15, <1>16, <1>17, <1>18
  DEF Next, UserStep, WorkerStep, MainStep, Disposed

\* The inductive invariant holds in every reachable state.
THEOREM InvariantHolds ==
  ASSUME NoWrap
  PROVE  Spec => []IInv
<1>1. Init => IInv
  BY InitIInv
<1>2. IInv /\ [Next]_vars => IInv'
  BY NextIInv
<1> QED
  BY <1>1, <1>2, PTL DEF Spec

\* The members keep their types, and m_uid its width, in every execution.
THEOREM TypeCorrect ==
  ASSUME NoWrap
  PROVE  Spec => []TypeOK
<1>1. IInv => TypeOK
  BY DEF IInv
<1> QED
  BY <1>1, InvariantHolds, PTL

\* ProcessOneEvent's assertion next.key.m_ts >= m_currentTs never fails, and no
\* two events in the list have the same uid.
THEOREM ListStaysAheadOfClock ==
  ASSUME NoWrap
  PROVE  Spec => []ListAheadOfClock
<1>1. IInv => ListAheadOfClock
  <2> SUFFICES ASSUME IInv PROVE ListAheadOfClock
    OBVIOUS
  <2>1. \A e, f \in m_events : e.uid = f.uid => e = f
    BY DEF IInv, ListInv, NamesInv, Known
  <2> QED
    BY <2>1 DEF IInv, ListInv, ListAheadOfClock
<1> QED
  BY <1>1, InvariantHolds, PTL

\* A worker's event is never hidden behind the unsynchronised flag.
THEOREM HandoverStaysFlagged ==
  ASSUME NoWrap
  PROVE  Spec => []HandoverIsFlagged
<1>1. IInv => HandoverIsFlagged
  BY DEF IInv
<1> QED
  BY <1>1, InvariantHolds, PTL

\* IsExpired, which looks at the clock only, agrees with the event list.
THEOREM ExpiredMeansNotPending ==
  ASSUME NoWrap
  PROVE  Spec => []ExpiredIffNotPending
<1>1. IInv => ExpiredIffNotPending
  <2> SUFFICES ASSUME IInv, pc # "disposed", NEW id \in ids
               PROVE  IsExpired(id) <=> (~Pending(id) \/ id.ord \in cancelled)
    BY DEF ExpiredIffNotPending
  <2>1. CASE id.uid = DESTROY
    <3>1. id \notin m_events
      BY <2>1 DEF IInv, ListInv, DESTROY, VALID, TypeOK, EventIds
    <3> QED
      BY <2>1, <3>1 DEF IsExpired, Pending
  <2>2. CASE id.uid # DESTROY
    <3>1. ~InDestroyEvents(id)
      BY <2>2 DEF IInv, DestroyInv, ElementsIn, DestroyIds, InDestroyEvents
    <3>2. id \in m_events => ~(id.ts < m_currentTs \/ (id.ts = m_currentTs /\ id.uid <= m_currentUid))
      BY DEF IInv, ListInv, Less, CurrentKey, TypeOK, EventIds
    <3>3. id \notin m_events => IsExpired(id)
      BY <2>2 DEF IInv, GoneInv
    <3> QED
      BY <2>2, <3>1, <3>2, <3>3 DEF IsExpired, Pending
  <2> QED
    BY <2>1, <2>2
<1> QED
  BY <1>1, InvariantHolds, PTL

------------------------------------------------------------------------------
(* Expiry is final. *)

\* A step that cancels no less, does not turn the clock back and adds nothing
\* to the list for Destroy leaves an expired id expired.
LEMMA ExpiredStays ==
  ASSUME TypeOK, NEW id \in ids, IsExpired(id), cancelled \subseteq cancelled',
         \/ UNCHANGED <<m_currentTs, m_currentUid>>
         \/ m_currentTs' \in Nat /\ m_currentUid' \in Nat /\ Less(CurrentKey, CurrentKey'),
         InDestroyEvents(id)' => InDestroyEvents(id)
  PROVE  IsExpired(id)'
<1>1. /\ id.ts \in Nat /\ id.uid \in Nat /\ m_currentTs \in Nat /\ m_currentUid \in Nat
  BY DEF TypeOK, EventIds
<1>2. CASE id.uid = DESTROY
  BY <1>2 DEF IsExpired
<1>3. CASE id.uid # DESTROY
  <2>1. CASE id.ord \in cancelled
    BY <1>3, <2>1 DEF IsExpired
  <2>2. CASE id.ts < m_currentTs \/ (id.ts = m_currentTs /\ id.uid <= m_currentUid)
    <3>1. id.ts < m_currentTs' \/ (id.ts = m_currentTs' /\ id.uid <= m_currentUid')
      BY <1>1, <2>2 DEF Less, CurrentKey
    <3> QED
      BY <1>3, <3>1 DEF IsExpired
  <2> QED
    BY <1>3, <2>1, <2>2 DEF IsExpired
<1> QED
  BY <1>2, <1>3

\* What ExpiredIsFinal asks of one step, for one id.
StaysFinal(id) ==
  IsExpired(id) /\ pc # "disposed" =>
    IsExpired(id)' /\ (id.ord \in invoked' => id.ord \in invoked)

\* A step that leaves the clock, the list for Destroy and the calls alone.
LEMMA QuietStepFinal ==
  ASSUME TypeOK, NEW id \in ids, cancelled \subseteq cancelled',
         UNCHANGED <<currentVars, m_destroyEvents, invoked>>
  PROVE  StaysFinal(id)
<1> SUFFICES ASSUME IsExpired(id) PROVE IsExpired(id)'
  BY DEF StaysFinal
<1>1. InDestroyEvents(id)' => InDestroyEvents(id)
  BY DEF InDestroyEvents
<1> QED
  BY <1>1, ExpiredStays DEF currentVars

\* The event taken from the list was not expired: it lies ahead of the clock.
LEMMA ProcessOneEventFinal ==
  ASSUME IInv, NEW id \in ids, ProcessOneEvent
  PROVE  StaysFinal(id)
<1> DEFINE next == Earliest(m_events)
<1> SUFFICES ASSUME IsExpired(id)
             PROVE  IsExpired(id)' /\ (id.ord \in invoked' => id.ord \in invoked)
  BY DEF StaysFinal
<1>0. TypeOK /\ ListInv /\ NamesInv
  BY DEF IInv
<1>1. next \in m_events
  BY NextEvent DEF ProcessOneEvent
<1>2. /\ m_currentTs' = next.ts /\ m_currentUid' = next.uid
      /\ UNCHANGED <<m_destroyEvents, cancelled>>
      /\ invoked' = IF next.ord \notin cancelled THEN invoked \cup {next.ord} ELSE invoked
  BY DEF ProcessOneEvent
<1> HIDE DEF next
<1>3. /\ next.ts \in Nat /\ next.uid \in Nat /\ next.ord \in Nat
      /\ next.uid = next.ord /\ VALID <= next.ord /\ Less(CurrentKey, next)
  BY <1>0, <1>1 DEF ListInv, TypeOK, EventIds
<1>4. IsExpired(id)'
  <2>1. InDestroyEvents(id)' => InDestroyEvents(id)
    BY <1>2 DEF InDestroyEvents
  <2>2. Less(CurrentKey, CurrentKey')
    BY <1>2, <1>3 DEF Less, CurrentKey
  <2> QED
    BY <1>0, <1>2, <1>3, <2>1, <2>2, ExpiredStays
<1>5. ASSUME id.ord = next.ord, next.ord \notin cancelled PROVE FALSE
  <2>1. id = next
    BY <1>0, <1>1, <1>5 DEF NamesInv, Known
  <2>2. id.uid # DESTROY
    BY <1>3, <2>1 DEF DESTROY, VALID
  <2>3. m_currentTs \in Nat /\ m_currentUid \in Nat
    BY <1>0 DEF TypeOK
  <2> QED
    BY <1>3, <1>5, <2>1, <2>2, <2>3 DEF IsExpired, Less, CurrentKey
<1> QED
  BY <1>2, <1>4, <1>5

\* A new event for Destroy is none of the known ones.
LEMMA ScheduleDestroyFinal ==
  ASSUME IInv, NEW id \in ids, ScheduleDestroy
  PROVE  StaysFinal(id)
<1> DEFINE new == Event(m_currentTs, DESTROY, ord, FALSE)
<1> SUFFICES ASSUME IsExpired(id) PROVE IsExpired(id)'
  BY DEF StaysFinal, ScheduleDestroy
<1>0. TypeOK /\ NamesInv
  BY DEF IInv
<1>1. m_destroyEvents' = Append(m_destroyEvents, new) /\ UNCHANGED <<currentVars, cancelled>>
  BY DEF ScheduleDestroy
<1>2. id.ord # ord /\ new.ord = ord
  BY <1>0 DEF NamesInv, Event, TypeOK, EventIds
<1> HIDE DEF new
<1>3. InDestroyEvents(id)' => InDestroyEvents(id)
  <2> SUFFICES ASSUME NEW i \in 1 .. Len(m_destroyEvents'), m_destroyEvents'[i] = id
               PROVE  InDestroyEvents(id)
    BY DEF InDestroyEvents
  <2>1. m_destroyEvents \in Seq(EventIds)
    BY <1>0 DEF TypeOK
  <2>2. CASE i = Len(m_destroyEvents) + 1
    BY <1>1, <1>2, <2>1, <2>2
  <2>3. CASE i # Len(m_destroyEvents) + 1
    <3>1. i \in 1 .. Len(m_destroyEvents) /\ m_destroyEvents[i] = id
      BY <1>1, <2>1, <2>3
    <3> QED
      BY <3>1 DEF InDestroyEvents
  <2> QED
    BY <2>2, <2>3
<1> QED
  BY <1>0, <1>1, <1>3, ExpiredStays DEF currentVars

\* Remove from the list for Destroy puts nothing new on it.
LEMMA RemoveDestroyEventFinal ==
  ASSUME IInv, NEW id \in ids, NEW gone \in ids, RemoveDestroyEvent(gone)
  PROVE  StaysFinal(id)
<1> SUFFICES ASSUME IsExpired(id) PROVE IsExpired(id)'
  BY DEF StaysFinal, RemoveDestroyEvent
<1>0. TypeOK
  BY DEF IInv
<1>1. PICK k \in 1 .. Len(m_destroyEvents) : m_destroyEvents' = Without(m_destroyEvents, k)
  BY DEF RemoveDestroyEvent
<1>2. UNCHANGED <<currentVars, cancelled>>
  BY DEF RemoveDestroyEvent
<1>3. m_destroyEvents \in Seq(EventIds) /\ Len(m_destroyEvents) \in Nat
  BY <1>0 DEF TypeOK
<1>4. InDestroyEvents(id)' => InDestroyEvents(id)
  <2> SUFFICES ASSUME NEW i \in 1 .. Len(m_destroyEvents'), m_destroyEvents'[i] = id
               PROVE  InDestroyEvents(id)
    BY DEF InDestroyEvents
  <2>1. i \in 1 .. Len(m_destroyEvents) - 1
    BY <1>1, <1>3, TakenOut
  <2>2. PICK j \in {i, i + 1} : m_destroyEvents'[i] = m_destroyEvents[j]
    BY <1>1, <1>3, <2>1, TakenOut
  <2>3. j \in 1 .. Len(m_destroyEvents)
    BY <1>3, <2>1
  <2> QED
    BY <2>2, <2>3 DEF InDestroyEvents
<1> QED
  BY <1>0, <1>2, <1>4, ExpiredStays DEF currentVars

\* The event Destroy takes was on its list, hence not expired unless cancelled.
LEMMA DestroyOneEventFinal ==
  ASSUME IInv, NEW id \in ids, DestroyOneEvent
  PROVE  StaysFinal(id)
<1> DEFINE ev == Head(m_destroyEvents)
<1> SUFFICES ASSUME IsExpired(id)
             PROVE  IsExpired(id)' /\ (id.ord \in invoked' => id.ord \in invoked)
  BY DEF StaysFinal
<1>0. TypeOK /\ NamesInv /\ DestroyInv
  BY DEF IInv
<1>1. /\ m_destroyEvents # << >> /\ m_destroyEvents' = Tail(m_destroyEvents)
      /\ UNCHANGED <<currentVars, cancelled>>
      /\ invoked' = IF ev.ord \notin cancelled THEN invoked \cup {ev.ord} ELSE invoked
  BY DEF DestroyOneEvent
<1>2. m_destroyEvents \in Seq(EventIds)
  BY <1>0 DEF TypeOK
<1>3. /\ Len(m_destroyEvents) \in Nat /\ 1 \in 1 .. Len(m_destroyEvents)
      /\ ev = m_destroyEvents[1]
      /\ \A i \in 1 .. Len(m_destroyEvents') :
           i + 1 \in 1 .. Len(m_destroyEvents) /\ m_destroyEvents'[i] = m_destroyEvents[i + 1]
  BY <1>1, <1>2
<1> HIDE DEF ev
<1>4. IsExpired(id)'
  <2>1. InDestroyEvents(id)' => InDestroyEvents(id)
    BY <1>3 DEF InDestroyEvents
  <2> QED
    BY <1>0, <1>1, <2>1, ExpiredStays DEF currentVars
<1>5. ASSUME id.ord = ev.ord, ev.ord \notin cancelled PROVE FALSE
  <2>1. ev \in ids /\ ev.uid = DESTROY
    BY <1>0, <1>3 DEF DestroyInv, ElementsIn, DestroyIds
  <2>2. id = ev
    BY <1>0, <1>5, <2>1 DEF NamesInv, Known
  <2> QED
    BY <1>3, <1>5, <2>1, <2>2 DEF IsExpired, InDestroyEvents
<1> QED
  BY <1>1, <1>4, <1>5

\* One case per action.
LEMMA NextFinal ==
  ASSUME IInv, [Next]_vars, NEW id \in ids
  PROVE  StaysFinal(id)
<1> USE DEF listVars, handoverVars
<1>0. TypeOK
  BY DEF IInv
<1>1. ASSUME NEW delay \in Delays, NEW stop \in BOOLEAN, Schedule(delay, stop) PROVE StaysFinal(id)
  BY <1>0, <1>1, QuietStepFinal DEF Schedule
<1>2. ASSUME NEW delay \in Delays, ScheduleWithContextMain(delay) PROVE StaysFinal(id)
  BY <1>0, <1>2, QuietStepFinal DEF ScheduleWithContextMain
<1>3. CASE ScheduleDestroy
  BY <1>3, ScheduleDestroyFinal
<1>4. ASSUME NEW gone \in ids, RemoveDestroyEvent(gone) PROVE StaysFinal(id)
  BY <1>4, RemoveDestroyEventFinal
<1>5. ASSUME NEW gone \in ids, RemoveEvent(gone) PROVE StaysFinal(id)
  BY <1>0, <1>5, QuietStepFinal DEF RemoveEvent
<1>6. ASSUME NEW gone \in ids, Cancel(gone) PROVE StaysFinal(id)
  BY <1>0, <1>6, QuietStepFinal DEF Cancel
<1>7. CASE ProcessOneEvent
  BY <1>7, ProcessOneEventFinal
<1>8. CASE DestroyOneEvent
  BY <1>8, DestroyOneEventFinal
<1>9. ASSUME NEW delay \in Delays, ScheduleWithContextWorker(delay) PROVE StaysFinal(id)
  BY <1>0, <1>9, QuietStepFinal DEF ScheduleWithContextWorker
<1>10. ASSUME \/ Stop \/ Run \/ RunProcessEventsWithContext \/ HandlerReturns \/ Destroy
              \/ AfterEventProcessEventsWithContext \/ RunReturns \/ DoDispose \/ UNCHANGED vars
       PROVE  UNCHANGED <<currentVars, m_destroyEvents, invoked, cancelled>>
  BY <1>10 DEF Stop, Run, RunProcessEventsWithContext, HandlerReturns, Destroy,
               AfterEventProcessEventsWithContext, RunReturns, DoDispose, vars
<1> QED
  BY <1>0, <1>1, <1>2, <1>3, <1>4, <1>5, <1>6, <1>7, <1>8, <1>9, <1>10, QuietStepFinal
  DEF Next, UserStep, WorkerStep, MainStep, Disposed

\* An id that has expired stays expired and its event is never called again,
\* whichever calls follow.
THEOREM ExpiryIsFinal ==
  ASSUME NoWrap
  PROVE  Spec => ExpiredIsFinal
<1>1. IInv /\ [Next]_vars =>
        [\A id \in ids :
           IsExpired(id) /\ pc # "disposed" =>
             /\ IsExpired(id)'
             /\ id.ord \in invoked' => id.ord \in invoked]_vars
  BY NextFinal DEF StaysFinal
<1> QED
  BY <1>1, InvariantHolds, PTL DEF Spec, ExpiredIsFinal

------------------------------------------------------------------------------
(* The count of unscheduled events. *)

CountInv == IsFiniteSet(m_events) /\ UnscheduledCounts

\* A swap brings in as many events as workers handed over.
LEMMA HandedOverCount ==
  ASSUME NoWrap, TypeOK, CounterInv
  PROVE  IsFiniteSet(HandedOver) /\ Cardinality(HandedOver) = Len(m_eventsWithContext)
<1> USE DefaultSimulatorAssumption DEF DefaultSimulatorAssumption
<1> DEFINE n == Len(m_eventsWithContext)
<1> DEFINE Ev(i) == Event(m_currentTs + m_eventsWithContext[i], (m_uid + (i - 1)) % UidMod,
                          ord + (i - 1), FALSE)
<1> DEFINE g == [i \in 1 .. n |-> Ev(i)]
<1>1. n \in Nat /\ ord \in Nat
  BY DEF TypeOK
<1>2. HandedOver = {Ev(i) : i \in 1 .. n}
  BY DEF HandedOver
<1>3. ASSUME NEW i \in 1 .. n, NEW j \in 1 .. n, Ev(i) = Ev(j) PROVE i = j
  <2>1. ord + (i - 1) = ord + (j - 1)
    BY <1>3, Zenon DEF Event
  <2> QED
    BY <1>1, <2>1
<1> HIDE DEF Ev, n
<1>4. g \in Bijection(1 .. n, HandedOver)
  <2>1. g \in [1 .. n -> HandedOver]
    BY <1>2
  <2>2. \A i, j \in 1 .. n : g[i] = g[j] => i = j
    BY <1>3
  <2>3. \A e \in HandedOver : \E i \in 1 .. n : g[i] = e
    BY <1>2
  <2> QED
    BY <2>1, <2>2, <2>3 DEF Bijection, Injection, Surjection, IsInjective
<1>5. IsFiniteSet(1 .. n) /\ Cardinality(1 .. n) = n
  BY <1>1, FS_Interval
<1>6. ExistsBijection(1 .. n, HandedOver)
  BY <1>4 DEF ExistsBijection
<1> QED
  BY <1>5, <1>6, FS_Bijection DEF n

\* A new event is not in the list yet.
LEMMA InsertCounts ==
  ASSUME IInv, CountInv, NEW delay, NEW stop, InsertEvent(delay, stop),
         pc # "disposed"
  PROVE  CountInv'
<1> DEFINE ev == Event(m_currentTs + delay, m_uid, ord, stop)
<1>1. ev \notin m_events
  <2>1. ev.ord = ord
    BY DEF Event
  <2> QED
    BY <2>1 DEF IInv, ListInv, TypeOK, EventIds
<1>2. m_events' = m_events \cup {ev} /\ m_unscheduledEvents' = m_unscheduledEvents + 1
  BY DEF InsertEvent
<1> HIDE DEF ev
<1>3. IsFiniteSet(m_events) /\ m_unscheduledEvents = Cardinality(m_events)
  BY DEF CountInv, UnscheduledCounts
<1> QED
  BY <1>1, <1>2, <1>3, FS_AddElement DEF CountInv, UnscheduledCounts

\* RemoveEvent and ProcessOneEvent take one event that is in the list.
LEMMA TakeCounts ==
  ASSUME CountInv, NEW e \in m_events, m_events' = m_events \ {e},
         m_unscheduledEvents' = m_unscheduledEvents - 1, pc # "disposed"
  PROVE  CountInv'
<1>1. IsFiniteSet(m_events) /\ m_unscheduledEvents = Cardinality(m_events)
  BY DEF CountInv, UnscheduledCounts
<1> QED
  BY <1>1, FS_RemoveElement DEF CountInv, UnscheduledCounts

\* The events a swap brings in are new.
LEMMA SwapInCounts ==
  ASSUME NoWrap, IInv, CountInv, SwapIn, pc # "disposed"
  PROVE  CountInv'
<1> DEFINE n == Len(m_eventsWithContext)
<1>0. TypeOK /\ CounterInv /\ ListInv
  BY DEF IInv
<1>1. IsFiniteSet(HandedOver) /\ Cardinality(HandedOver) = n /\ n \in Nat
  BY <1>0, HandedOverCount DEF TypeOK
<1>2. m_events \cap HandedOver = {}
  <2>1. \A e \in HandedOver : e \in EventIds /\ ord <= e.ord
    BY <1>0, HandedOverEvents
  <2> QED
    BY <1>0, <2>1 DEF ListInv, TypeOK, EventIds
<1>3. m_events' = m_events \cup HandedOver /\ m_unscheduledEvents' = m_unscheduledEvents + n
  BY DEF SwapIn
<1> HIDE DEF n
<1>4. IsFiniteSet(m_events) /\ m_unscheduledEvents = Cardinality(m_events)
  BY DEF CountInv, UnscheduledCounts
<1>5. IsFiniteSet(m_events') /\ Cardinality(m_events') = Cardinality(m_events) + n
  <2>1. Cardinality(m_events) \in Nat
    BY <1>4, FS_CardinalityType
  <2>2. Cardinality(m_events \cap HandedOver) = 0
    BY <1>2, FS_EmptySet
  <2> QED
    BY <1>1, <1>3, <1>4, <2>1, <2>2, FS_Union
<1> QED
  BY <1>3, <1>4, <1>5 DEF CountInv, UnscheduledCounts

\* One case per action that touches the list.
LEMMA NextCounts ==
  ASSUME NoWrap, IInv, CountInv, [Next]_vars
  PROVE  CountInv'
<1> USE DEF listVars
<1>1. ASSUME NEW delay \in Delays, NEW stop \in BOOLEAN, Schedule(delay, stop) PROVE CountInv'
  BY <1>1, InsertCounts DEF Schedule, InUserCode
<1>2. ASSUME NEW delay \in Delays, ScheduleWithContextMain(delay) PROVE CountInv'
  BY <1>2, InsertCounts DEF ScheduleWithContextMain, InUserCode
<1>3. ASSUME NEW id \in ids, RemoveEvent(id) PROVE CountInv'
  <2>1. pc # "disposed" /\ id \in m_events
    BY <1>3 DEF RemoveEvent, InUserCode, IInv, GoneInv
  <2> QED
    BY <1>3, <2>1, TakeCounts DEF RemoveEvent
<1>4. CASE ProcessOneEvent
  <2>1. pc # "disposed" /\ Earliest(m_events) \in m_events
    BY <1>4, NextEvent DEF ProcessOneEvent
  <2>2. /\ m_events' = m_events \ {Earliest(m_events)}
        /\ m_unscheduledEvents' = m_unscheduledEvents - 1
    BY <1>4, Zenon DEF ProcessOneEvent
  <2> QED
    BY <2>1, <2>2, TakeCounts
<1>5. CASE DoDispose
  BY <1>5, FS_EmptySet DEF DoDispose, CountInv, UnscheduledCounts
<1>6. CASE UNCHANGED <<m_events, m_unscheduledEvents>> /\ (pc' # "disposed" => pc # "disposed")
  BY <1>6 DEF CountInv, UnscheduledCounts
<1>7. ASSUME \/ ScheduleDestroy \/ Stop \/ Run \/ HandlerReturns \/ Destroy \/ RunReturns
             \/ DestroyOneEvent \/ UNCHANGED vars
             \/ \E id \in ids : RemoveDestroyEvent(id) \/ Cancel(id)
             \/ \E delay \in Delays : ScheduleWithContextWorker(delay)
      PROVE  CountInv'
  BY <1>6, <1>7 DEF ScheduleDestroy, Stop, Run, HandlerReturns, Destroy, RunReturns,
                    DestroyOneEvent, vars, RemoveDestroyEvent, Cancel,
                    ScheduleWithContextWorker, InUserCode
<1>8. CASE RunProcessEventsWithContext \/ AfterEventProcessEventsWithContext
  <2>1. pc # "disposed" /\ ProcessEventsWithContext
    BY <1>8 DEF RunProcessEventsWithContext, AfterEventProcessEventsWithContext
  <2>2. CASE PassOver
    BY <1>6, <2>1, <2>2 DEF PassOver
  <2> QED
    BY <2>1, <2>2, SwapInCounts DEF ProcessEventsWithContext
<1> QED
  BY <1>1, <1>2, <1>3, <1>4, <1>5, <1>7, <1>8
  DEF Next, UserStep, WorkerStep, MainStep, Disposed

\* m_unscheduledEvents counts the events in the list, so the consistency test
\* at the end of Run passes whatever was inserted, removed or handed over.
THEOREM UnscheduledIsCount ==
  ASSUME NoWrap
  PROVE  Spec => []UnscheduledCounts
<1>1. Init => CountInv
  BY FS_EmptySet DEF Init, CountInv, UnscheduledCounts
<1>2. IInv /\ CountInv /\ [Next]_vars => CountInv'
  BY NextCounts
<1>3. CountInv => UnscheduledCounts
  BY DEF CountInv
<1> QED
  BY <1>1, <1>2, <1>3, InvariantHolds, PTL DEF Spec

------------------------------------------------------------------------------
(* The simulator implements its agenda. *)

\* The entries of a set of events, and the order of entry of a list of them.
Entry(e) == [ts |-> e.ts, ord |-> e.ord]
Entries(S) == {Entry(e) : e \in S}
Ords(s) == [i \in 1 .. Len(s) |-> s[i].ord]

LEMMA OrdsType ==
  ASSUME NEW s \in Seq(EventIds)
  PROVE  Ords(s) \in Seq(Nat) /\ Len(Ords(s)) = Len(s) /\ Len(s) \in Nat
<1>1. Len(s) \in Nat
  BY LenProperties
<1>2. ASSUME NEW i \in 1 .. Len(s)
      PROVE  s[i].ord \in Nat
  <2>1. s[i] \in EventIds
    BY ElementOfSeq
  <2> QED
    BY <2>1 DEF EventIds
<1> QED
  BY <1>1, <1>2 DEF Ords

LEMMA OrdsOfAppend ==
  ASSUME NEW s \in Seq(EventIds), NEW e \in EventIds
  PROVE  Ords(Append(s, e)) = Append(Ords(s), e.ord)
<1>1. /\ Len(s) \in Nat /\ Len(Append(s, e)) = Len(s) + 1
      /\ \A i \in 1 .. Len(s) : Append(s, e)[i] = s[i]
      /\ Append(s, e)[Len(s) + 1] = e
  OBVIOUS
<1>2. /\ Ords(s) \in Seq(Nat) /\ Len(Ords(s)) = Len(s) /\ e.ord \in Nat
  BY OrdsType DEF EventIds
<1> DEFINE a == Append(Ords(s), e.ord)  b == Ords(Append(s, e))
<1>3. /\ a \in Seq(Nat) /\ Len(a) = Len(s) + 1
      /\ \A i \in 1 .. Len(s) : a[i] = Ords(s)[i]
      /\ a[Len(s) + 1] = e.ord
  BY <1>2
<1> DEFINE longer == Append(s, e)
<1>4. b \in Seq(Nat) /\ Len(b) = Len(s) + 1
  <2>1. longer \in Seq(EventIds) /\ Len(longer) = Len(s) + 1
    BY AppendProperties
  <2> HIDE DEF longer
  <2>2. Ords(longer) \in Seq(Nat) /\ Len(Ords(longer)) = Len(longer)
    BY <2>1, OrdsType
  <2> QED
    BY <2>1, <2>2 DEF longer
<1>5. \A i \in 1 .. Len(s) + 1 : b[i] = a[i]
  BY <1>1, <1>3 DEF Ords
<1> HIDE DEF a, b
<1> QED
  BY <1>3, <1>4, <1>5, SeqEqual DEF a, b

LEMMA OrdsOfTail ==
  ASSUME NEW s \in Seq(EventIds), s # << >>
  PROVE  /\ Ords(s) # << >>
         /\ Head(Ords(s)) = Head(s).ord
         /\ Ords(Tail(s)) = Tail(Ords(s))
<1>1. /\ Len(s) \in Nat /\ Len(s) >= 1 /\ Tail(s) \in Seq(EventIds)
      /\ Len(Tail(s)) = Len(s) - 1
      /\ \A i \in 1 .. Len(s) - 1 : Tail(s)[i] = s[i + 1]
  OBVIOUS
<1>2. /\ Ords(s) \in Seq(Nat) /\ Len(Ords(s)) = Len(s)
      /\ \A i \in 1 .. Len(s) : Ords(s)[i] = s[i].ord
  BY OrdsType DEF Ords
<1> DEFINE a == Tail(Ords(s))  b == Ords(Tail(s))  o == Ords(s)
<1> HIDE DEF o
<1>3. o # << >> /\ Head(o) = s[1].ord
  BY <1>1, <1>2 DEF o
<1>4. /\ Tail(o) \in Seq(Nat) /\ Len(Tail(o)) = Len(s) - 1
      /\ \A i \in 1 .. Len(s) - 1 : Tail(o)[i] = s[i + 1].ord
  BY <1>1, <1>2, <1>3 DEF o
<1>5. /\ b \in Seq(Nat) /\ Len(b) = Len(s) - 1
      /\ \A i \in 1 .. Len(s) - 1 : b[i] = s[i + 1].ord
  BY <1>1, OrdsType DEF Ords
<1> HIDE DEF b
<1>6. Tail(o) = b
  BY <1>4, <1>5, SeqEqual
<1> QED
  BY <1>3, <1>6 DEF o, b

LEMMA OrdsOfWithout ==
  ASSUME NEW s \in Seq(EventIds), NEW k \in 1 .. Len(s)
  PROVE  Ords(Without(s, k)) = Without(Ords(s), k)
<1> DEFINE o == Ords(s)  a == Without(o, k)  t == Without(s, k)  b == Ords(t)
<1>1. o \in Seq(Nat) /\ Len(o) = Len(s) /\ Len(s) \in Nat
  BY OrdsType
<1>2. \A i \in 1 .. Len(s) : o[i] = s[i].ord
  BY DEF Ords
<1> HIDE DEF o
<1>3. /\ a \in Seq(Nat) /\ Len(a) = Len(s) - 1
      /\ \A i \in 1 .. Len(s) - 1 : /\ i < k => a[i] = o[i]
                                    /\ ~(i < k) => a[i] = o[i + 1]
  <2>1. k \in 1 .. Len(o)
    BY <1>1
  <2> QED
    BY <1>1, <2>1, TakenOut
<1>4. /\ t \in Seq(EventIds) /\ Len(t) = Len(s) - 1
      /\ \A i \in 1 .. Len(s) - 1 : /\ i < k => t[i] = s[i]
                                    /\ ~(i < k) => t[i] = s[i + 1]
  BY TakenOut
<1> HIDE DEF a, t
<1>5. b \in Seq(Nat) /\ Len(b) = Len(s) - 1
  BY <1>4, OrdsType
<1>6. ASSUME NEW i \in 1 .. Len(s) - 1
      PROVE  b[i] = a[i]
  <2>1. b[i] = t[i].ord
    BY <1>4 DEF Ords
  <2>2. i \in 1 .. Len(s) /\ i + 1 \in 1 .. Len(s)
    BY <1>1
  <2>3. CASE i < k
    BY <1>2, <1>3, <1>4, <2>1, <2>2, <2>3
  <2>4. CASE ~(i < k)
    BY <1>2, <1>3, <1>4, <2>1, <2>2, <2>4
  <2> QED
    BY <2>3, <2>4
<1> HIDE DEF b
<1>7. b = a
  BY <1>3, <1>5, <1>6, SeqEqual
<1> QED
  BY <1>7 DEF a, b, t, o

\* What the agenda sees of the simulator.
AgendaView ==
  <<m_currentTs, m_events, m_eventsWithContext, m_destroyEvents, ord, cancelled, invoked>>

LEMMA QuietStepImplements ==
  ASSUME UNCHANGED AgendaView, pc # "disposed", pc' # "disposed"
  PROVE  UNCHANGED Agenda!vars
BY DEF AgendaView, Agenda!vars

LEMMA InsertImplements ==
  ASSUME NoWrap, IInv, NEW delay \in Delays, NEW stop \in BOOLEAN,
         InUserCode, MayCreate, InsertEvent(delay, stop),
         UNCHANGED <<handoverVars, m_destroyEvents, currentVars, cancelled, pc, invoked>>
  PROVE  Agenda!Enter
<1> DEFINE ev == Event(m_currentTs + delay, m_uid, ord, stop)
<1>1. m_currentTs \in Nat /\ delay \in Nat
  BY DefaultSimulatorAssumption DEF IInv, TypeOK
<1>2. Entry(ev).ts = m_currentTs + delay /\ Entry(ev).ord = ord
  BY DEF Event, Entry
<1>3. m_events' = m_events \cup {ev} /\ ord' = ord + 1 /\ pc # "disposed" /\ pc' # "disposed"
  BY DEF InsertEvent, InUserCode
<1> HIDE DEF ev
<1>4. Entries(m_events') = Entries(m_events) \cup {Entry(ev)}
  BY <1>3 DEF Entries
<1>5. Entry(ev).ts >= m_currentTs
  BY <1>1, <1>2
<1> DEFINE x == Entry(ev)
<1>6. x \in Entries(m_events') /\ x.ord = ord /\ x.ts >= m_currentTs
  BY <1>2, <1>4, <1>5
<1>7. Entries(m_events') = Entries(m_events) \cup {x}
  BY <1>4
<1> HIDE DEF x
<1> QED
  BY <1>3, <1>6, <1>7 DEF Agenda!Enter, Entries, Entry, currentVars, handoverVars

\* A worker's call is seen by the agenda as soon as it is made.
LEMMA WorkerImplements ==
  ASSUME IInv, NEW delay \in Delays, ScheduleWithContextWorker(delay)
  PROVE  Agenda!HandOver
<1> DEFINE n == Len(m_eventsWithContext) + 1
<1>1. delay \in Nat /\ m_eventsWithContext \in Seq(Nat)
  BY DefaultSimulatorAssumption DEF IInv, TypeOK
<1>2. m_eventsWithContext' = Append(m_eventsWithContext, delay)
  BY DEF ScheduleWithContextWorker
<1>3. /\ n \in 1 .. Len(m_eventsWithContext')
      /\ m_eventsWithContext'[n] = delay
  BY <1>1, <1>2
<1> HIDE DEF n
<1>4. \E i \in 1 .. Len(m_eventsWithContext') :
        /\ m_eventsWithContext'[i] >= 0
        /\ m_eventsWithContext' = Append(m_eventsWithContext, m_eventsWithContext'[i])
  BY <1>1, <1>2, <1>3
<1>5. /\ pc # "disposed" /\ pc' # "disposed"
      /\ UNCHANGED <<m_currentTs, m_events, m_destroyEvents, ord, cancelled, invoked>>
  BY DEF ScheduleWithContextWorker, listVars, currentVars
<1> QED
  BY <1>4, <1>5 DEF Agenda!HandOver

\* SwapIn enters exactly what was handed over.
LEMMA SwapInImplements ==
  ASSUME SwapIn, pc # "disposed", pc' # "disposed",
         UNCHANGED <<m_destroyEvents, currentVars, cancelled, invoked>>
  PROVE  Agenda!TakeIn
<1> DEFINE new == {[ts |-> m_currentTs + m_eventsWithContext[i], ord |-> ord + (i - 1)] :
                     i \in 1 .. Len(m_eventsWithContext)}
<1> DEFINE ev(i) == Event(m_currentTs + m_eventsWithContext[i], (m_uid + (i - 1)) % UidMod,
                         ord + (i - 1), FALSE)
<1>0. \A i \in 1 .. Len(m_eventsWithContext) :
        Entry(ev(i)) = [ts |-> m_currentTs + m_eventsWithContext[i], ord |-> ord + (i - 1)]
  BY DEF Entry, Event
<1>1. Entries(HandedOver) = new
  <2>1. HandedOver = {ev(i) : i \in 1 .. Len(m_eventsWithContext)}
    BY DEF HandedOver
  <2> HIDE DEF ev
  <2>2. Entries(HandedOver) = {Entry(ev(i)) : i \in 1 .. Len(m_eventsWithContext)}
    BY <2>1 DEF Entries
  <2> QED
    BY <1>0, <2>2
<1> HIDE DEF new
<1>2. Entries(m_events') = Entries(m_events) \cup Entries(HandedOver)
  BY DEF SwapIn, Entries
<1>3. Entries(m_events') = Entries(m_events) \cup new
  BY <1>1, <1>2
<1>4. m_eventsWithContext' = << >> /\ ord' = ord + Len(m_eventsWithContext)
  BY DEF SwapIn
<1> QED
  BY <1>3, <1>4 DEF Agenda!TakeIn, Entries, Entry, currentVars, new

LEMMA ScheduleDestroyImplements ==
  ASSUME IInv, ScheduleDestroy
  PROVE  Agenda!EnterLast
<1> DEFINE id == Event(m_currentTs, DESTROY, ord, FALSE)
<1>1. id \in EventIds /\ id.ord = ord
  BY DEF IInv, TypeOK, Event, EventIds, DESTROY
<1>2. /\ m_destroyEvents' = Append(m_destroyEvents, id) /\ m_destroyEvents \in Seq(EventIds)
      /\ ord' = ord + 1 /\ pc # "disposed"
      /\ UNCHANGED <<m_currentTs, m_events, m_eventsWithContext, cancelled, invoked, pc>>
  BY DEF ScheduleDestroy, InUserCode, handoverVars, currentVars, IInv, TypeOK
<1> HIDE DEF id
<1>3. Ords(m_destroyEvents') = Append(Ords(m_destroyEvents), ord)
  BY <1>1, <1>2, OrdsOfAppend
<1> QED
  BY <1>2, <1>3 DEF Agenda!EnterLast, Ords

\* Remove and Cancel of an event that has not expired find its entry.
LEMMA FoundInAgenda ==
  ASSUME IInv, NEW id \in ids, ~IsExpired(id), pc # "disposed"
  PROVE  /\ id.ord \notin cancelled
         /\ id \in m_events \/ InDestroyEvents(id)
         /\ Agenda!Outstanding(id.ord)
<1>1. id.ord \notin cancelled
  BY DEF IsExpired
<1>2. id \in m_events \/ InDestroyEvents(id)
  BY DEF IInv, GoneInv, IsExpired
<1>3. CASE id \in m_events
  <2>1. Entry(id) \in Entries(m_events) /\ Entry(id).ord = id.ord
    BY <1>3 DEF Entries, Entry
  <2> QED
    BY <1>1, <1>2, <2>1 DEF Agenda!Outstanding, Entries, Entry
<1>4. CASE InDestroyEvents(id)
  <2>1. PICK i \in 1 .. Len(m_destroyEvents) : m_destroyEvents[i] = id
    BY <1>4 DEF InDestroyEvents
  <2>2. Len(Ords(m_destroyEvents)) = Len(m_destroyEvents) /\ Ords(m_destroyEvents)[i] = id.ord
    BY <2>1, OrdsType DEF Ords, IInv, TypeOK
  <2> QED
    BY <1>1, <1>2, <2>1, <2>2 DEF Agenda!Outstanding, Ords
<1> QED
  BY <1>2, <1>3, <1>4

LEMMA RemoveEventImplements ==
  ASSUME IInv, NEW id \in ids, RemoveEvent(id)
  PROVE  Agenda!Withdraw
<1>1. /\ pc # "disposed" /\ ~IsExpired(id) /\ id.uid # DESTROY
      /\ m_events' = m_events \ {id} /\ cancelled' = cancelled \cup {id.ord}
      /\ UNCHANGED <<m_currentTs, m_eventsWithContext, m_destroyEvents, ord, invoked, pc>>
  BY DEF RemoveEvent, InUserCode, handoverVars, currentVars
<1>2. id \in m_events /\ Agenda!Outstanding(id.ord)
  BY <1>1, FoundInAgenda DEF IInv, GoneInv
<1>3. Entries(m_events') = Entries(m_events) \ {Entry(id)}
  <2>1. \A e \in m_events : Entry(e) = Entry(id) => e = id
    BY <1>2 DEF Entry, IInv, NamesInv, Known
  <2> QED
    BY <1>1, <1>2, <2>1 DEF Entries
<1>4. Entry(id) \in Entries(m_events) /\ Entry(id).ord = id.ord
  BY <1>2 DEF Entries, Entry
<1> QED
  BY <1>1, <1>2, <1>3, <1>4 DEF Agenda!Withdraw, Entries, Entry

LEMMA RemoveDestroyEventImplements ==
  ASSUME IInv, NEW id \in ids, RemoveDestroyEvent(id)
  PROVE  Agenda!WithdrawLast
<1>1. PICK k \in 1 .. Len(m_destroyEvents) : m_destroyEvents' = Without(m_destroyEvents, k)
  BY DEF RemoveDestroyEvent
<1>2. /\ pc # "disposed" /\ m_destroyEvents \in Seq(EventIds)
      /\ UNCHANGED <<m_currentTs, m_events, m_eventsWithContext, ord, cancelled, invoked, pc>>
  BY DEF RemoveDestroyEvent, InUserCode, listVars, handoverVars, currentVars, IInv, TypeOK
<1>3. /\ Ords(m_destroyEvents') = Without(Ords(m_destroyEvents), k)
      /\ k \in 1 .. Len(Ords(m_destroyEvents))
  BY <1>1, <1>2, OrdsOfWithout, OrdsType
<1> QED
  BY <1>2, <1>3 DEF Agenda!WithdrawLast, Ords, Without

LEMMA CancelImplements ==
  ASSUME IInv, NEW id \in ids, Cancel(id)
  PROVE  Agenda!CancelEntry
<1>1. /\ pc # "disposed" /\ ~IsExpired(id) /\ cancelled' = cancelled \cup {id.ord}
      /\ UNCHANGED <<m_currentTs, m_events, m_eventsWithContext, m_destroyEvents, ord, invoked, pc>>
  BY DEF Cancel, InUserCode, listVars, handoverVars, currentVars
<1>2. Agenda!Outstanding(id.ord)
  BY <1>1, FoundInAgenda
<1> QED
  BY <1>1, <1>2 DEF Agenda!CancelEntry

\* ProcessOneEvent takes the entry that comes before all others.
LEMMA ProcessOneEventImplements ==
  ASSUME IInv, ProcessOneEvent
  PROVE  Agenda!Fire
<1> DEFINE next == Earliest(m_events)
<1>1. next \in m_events /\ \A f \in m_events : f # next => Less(next, f)
  BY NextEvent DEF ProcessOneEvent
<1>2. /\ m_events' = m_events \ {next} /\ m_currentTs' = next.ts
      /\ invoked' = IF next.ord \in cancelled THEN invoked ELSE invoked \cup {next.ord}
      /\ pc # "disposed" /\ pc' # "disposed"
      /\ UNCHANGED <<m_eventsWithContext, m_destroyEvents, ord, cancelled>>
  BY DEF ProcessOneEvent, handoverVars
<1> HIDE DEF next
<1>3. \A e \in m_events : e \in EventIds /\ e.uid = e.ord
  BY DEF IInv, TypeOK, ListInv
<1>4. \A f \in m_events : f # next => Agenda!Before(Entry(next), Entry(f))
  BY <1>1, <1>3 DEF Less, Agenda!Before, Entry, EventIds
<1>5. Entries(m_events') = Entries(m_events) \ {Entry(next)}
  <2>1. \A e \in m_events : Entry(e) = Entry(next) => e = next
    BY <1>1 DEF Entry, IInv, NamesInv, Known
  <2> QED
    BY <1>1, <1>2, <2>1 DEF Entries
<1>6. /\ Entry(next) \in Entries(m_events)
      /\ \A x \in Entries(m_events) : x # Entry(next) => Agenda!Before(Entry(next), x)
  BY <1>1, <1>4 DEF Entries
<1>7. Entry(next).ts = next.ts /\ Entry(next).ord = next.ord
  BY DEF Entry
<1> QED
  BY <1>2, <1>5, <1>6, <1>7 DEF Agenda!Fire, Entries, Entry

LEMMA DestroyOneEventImplements ==
  ASSUME IInv, DestroyOneEvent
  PROVE  Agenda!FireLast
<1> DEFINE ev == Head(m_destroyEvents)
<1>1. /\ m_destroyEvents # << >> /\ m_destroyEvents' = Tail(m_destroyEvents)
      /\ m_destroyEvents \in Seq(EventIds)
      /\ invoked' = IF ev.ord \in cancelled THEN invoked ELSE invoked \cup {ev.ord}
      /\ pc # "disposed" /\ pc' # "disposed"
      /\ UNCHANGED <<m_currentTs, m_events, m_eventsWithContext, ord, cancelled>>
  BY DEF DestroyOneEvent, listVars, handoverVars, currentVars, IInv, TypeOK
<1>2. /\ Ords(m_destroyEvents) # << >> /\ Head(Ords(m_destroyEvents)) = ev.ord
      /\ Ords(m_destroyEvents') = Tail(Ords(m_destroyEvents))
  BY <1>1, OrdsOfTail
<1> HIDE DEF ev
<1> QED
  BY <1>1, <1>2 DEF Agenda!FireLast, Ords

LEMMA DoDisposeImplements ==
  ASSUME DoDispose
  PROVE  Agenda!Close
<1>1. /\ pc = "destroy" /\ pc' = "disposed" /\ m_destroyEvents = << >> /\ m_events' = {}
      /\ UNCHANGED <<m_currentTs, m_destroyEvents, cancelled, invoked>>
  BY DEF DoDispose, currentVars
<1>2. \/ UNCHANGED <<m_eventsWithContext, ord>>
      \/ m_eventsWithContext' = << >> /\ ord' = ord + Len(m_eventsWithContext)
  BY DEF DoDispose, handoverVars
<1>3. Ords(m_destroyEvents) = << >>
  BY <1>1 DEF Ords
<1> QED
  BY <1>1, <1>2, <1>3 DEF Agenda!Close, Ords

\* Every step is a step of the agenda or one that it does not see.
LEMMA NextImplements ==
  ASSUME NoWrap, IInv, [Next]_vars
  PROVE  [Agenda!Next]_Agenda!vars
<1> USE DEF Agenda!Next
<1>1. ASSUME NEW delay \in Delays, NEW stop \in BOOLEAN, Schedule(delay, stop) PROVE Agenda!Next
  BY <1>1, InsertImplements DEF Schedule
<1>2. ASSUME NEW delay \in Delays, ScheduleWithContextMain(delay) PROVE Agenda!Next
  BY <1>2, InsertImplements DEF ScheduleWithContextMain
<1>3. CASE ScheduleDestroy
  BY <1>3, ScheduleDestroyImplements
<1>4. ASSUME NEW id \in ids, RemoveDestroyEvent(id) PROVE Agenda!Next
  BY <1>4, RemoveDestroyEventImplements
<1>5. ASSUME NEW id \in ids, RemoveEvent(id) PROVE Agenda!Next
  BY <1>5, RemoveEventImplements
<1>6. ASSUME NEW id \in ids, Cancel(id) PROVE Agenda!Next
  BY <1>6, CancelImplements
<1>7. CASE ProcessOneEvent
  BY <1>7, ProcessOneEventImplements
<1>8. CASE DestroyOneEvent
  BY <1>8, DestroyOneEventImplements
<1>9. CASE DoDispose
  BY <1>9, DoDisposeImplements
<1>10. CASE RunProcessEventsWithContext \/ AfterEventProcessEventsWithContext
  <2>1. /\ pc # "disposed" /\ pc' # "disposed"
        /\ UNCHANGED <<m_destroyEvents, currentVars, cancelled, invoked>>
        /\ PassOver \/ SwapIn
    BY <1>10 DEF RunProcessEventsWithContext, AfterEventProcessEventsWithContext,
                 ProcessEventsWithContext
  <2>2. CASE PassOver
    BY <2>1, <2>2, QuietStepImplements DEF PassOver, AgendaView, listVars, handoverVars, currentVars
  <2> QED
    BY <2>1, <2>2, SwapInImplements
<1>11. CASE Stop \/ Run \/ HandlerReturns \/ Destroy \/ RunReturns
  <2>1. UNCHANGED AgendaView /\ pc # "disposed" /\ pc' # "disposed"
    BY <1>11 DEF Stop, Run, HandlerReturns, Destroy, RunReturns, InUserCode, AgendaView,
                 listVars, handoverVars, currentVars
  <2> QED
    BY <2>1, QuietStepImplements
<1>12. CASE UNCHANGED vars
  BY <1>12 DEF vars, listVars, handoverVars, currentVars, Agenda!vars
<1>13. ASSUME NEW delay \in Delays, ScheduleWithContextWorker(delay) PROVE Agenda!Next
  BY <1>13, WorkerImplements
<1> QED
  BY <1>1, <1>2, <1>3, <1>4, <1>5, <1>6, <1>7, <1>8, <1>9, <1>10, <1>11, <1>12, <1>13
  DEF Next, UserStep, WorkerStep, MainStep, Disposed

\* The simulator implements the agenda it promises its users: events are
\* called in the order of their times, those of equal times in the order they
\* were scheduled, none twice and none after it was cancelled or removed.
\* Whenever workers hand events over, taking a batch in enters exactly those
\* handed over, each its delay after the time then, in the order of the calls.
THEOREM AgendaIsImplemented ==
  ASSUME NoWrap
  PROVE  Spec => ImplementsAgenda
<1>1. Init => Agenda!Init
  BY DEF Init, Agenda!Init, VALID
<1>2. IInv /\ [Next]_vars => [Agenda!Next]_Agenda!vars
  BY NextImplements
<1> QED
  BY <1>1, <1>2, InvariantHolds, PTL DEF Spec, Agenda!Spec, ImplementsAgenda

==============================================================================
