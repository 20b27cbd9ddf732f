--------------------------- MODULE NullMessageProofs ---------------------------
(***************************************************************************)
(* Proofs about the null-message simulator, for any number of ranks, any   *)
(* delays and transmission times, when at most one channel connects two    *)
(* ranks.                                                                  *)
(***************************************************************************)
EXTENDS NullMessageSimulatorImpl, CommonLemmas

\* With parallel channels the packet of a faster one may arrive ahead of a
\* guarantee that a packet of a slower one carried (NullMessageHandler.cfg).
SingleChannels == \A r, n \in Ranks : \A d, e \in Links[r][n] : d = e

------------------------------------------------------------------------------
(* Ranks and event lists. *)

LEMMA RankConstants ==
  /\ MaxTime \in Nat /\ Infinity \in Nat /\ Infinity = MaxTime + 1
  /\ Times \subseteq Nat /\ 0 \in Times
  /\ \A r \in Ranks : Neighbours(r) \subseteq Ranks /\ IsFiniteSet(Neighbours(r))
  /\ \A r \in Ranks : \A n \in Neighbours(r) : r \in Neighbours(n)
<1>1. \A r \in Ranks : Neighbours(r) \subseteq Ranks
  BY DEF Neighbours
<1>2. \A r \in Ranks : IsFiniteSet(Neighbours(r))
  BY <1>1, RankAssumption, FS_Subset
<1>3. \A r \in Ranks : \A n \in Neighbours(r) : r \in Neighbours(n)
  BY RankAssumption DEF Neighbours
<1> QED
  BY <1>1, <1>2, <1>3, RankAssumption DEF Times, Infinity

LEMMA BundleDelays ==
  ASSUME NEW r \in Ranks, NEW n \in Neighbours(r)
  PROVE  /\ n \in Ranks /\ Delay(r, n) \in Links[r][n] /\ Delay(r, n) \in Nat /\ Delay(r, n) > 0
         /\ \A d \in Links[r][n] : d \in Nat /\ Delay(r, n) <= d
         /\ NullDelay(r, n) \in Nat
<1>1. n \in Ranks /\ Links[r][n] # {} /\ Links[r][n] \subseteq Nat \ {0}
  BY RankAssumption DEF Neighbours
<1>2. Delay(r, n) \in Links[r][n] /\ \A d \in Links[r][n] : Delay(r, n) <= d
  BY <1>1, MinOfNumbers DEF Delay
<1>3. Delay(r, n) \in Nat /\ Delay(r, n) > 0 /\ SchedulerTune \in Nat
  BY <1>1, <1>2, NullMessageAssumption
<1>4. NullDelay(r, n) \in Nat
  <2> DEFINE x == SchedulerTune * Delay(r, n) + 50
  <2>1. x \in Nat
    BY <1>3
  <2> HIDE DEF x
  <2>2. x \div 100 \in Nat
    BY <2>1
  <2> QED
    BY <2>2 DEF NullDelay, x
<1> QED
  BY <1>1, <1>2, <1>3, <1>4

LEMMA EventTimes ==
  /\ HaveTimes(Events)
  /\ \A e \in Events : e.ts \in Nat
  /\ \A list \in Seq(Events) :
       /\ DOMAIN list = 1 .. Len(list) /\ Len(list) \in Nat
       /\ \A i \in DOMAIN list : list[i] \in Events /\ list[i].ts \in Nat
<1>1. HaveTimes(Events)
  BY DEF HaveTimes, Events
<1> QED
  BY <1>1, TimesOfEvents

LEMMA EventTypes ==
  /\ \A t \in Nat : App(t) \in Events /\ App(t).ts = t /\ App(t).kind = "app"
  /\ \A t \in Nat : StopEvent(t) \in Events /\ StopEvent(t).ts = t /\ StopEvent(t).kind = "stop"
  /\ \A t, d \in Nat : \A n \in Ranks :
       LET e == TransmitComplete(t, n, d) IN
       e \in Events /\ e.ts = t /\ e.kind = "sent" /\ e.to = n /\ e.delay = d
  /\ \A t \in Nat : \A n \in Ranks :
       LET e == NullEvent(t, n) IN e \in Events /\ e.ts = t /\ e.kind = "null" /\ e.to = n
BY DEF App, StopEvent, TransmitComplete, NullEvent, Events

LEMMA InsertEventOrdered ==
  ASSUME NEW list \in Seq(Events), NEW event \in Events
  PROVE  /\ InsertEvent(list, event) \in Seq(Events)
         /\ \E k : Lengthened(list, InsertEvent(list, event), k, event)
         /\ Ordered(list) => Ordered(InsertEvent(list, event))
<1>1. InsertEvent(list, event) = Inserted(list, event)
  BY DEF InsertEvent, Inserted
<1> QED
  BY <1>1, EventTimes, InsertedIsOrdered

\* The list of events of rank r: in order, with transmissions and null events
\* only for the rank's channels, and with the stop event as long as that is still
\* to come.
EventOk(event, r) ==
  /\ event.kind \in {"sent", "null"} => event.to \in Neighbours(r)
  /\ event.kind = "sent" => event.delay \in Links[r][event.to]
ListOk(list, r, stopped) ==
  /\ Ordered(list)
  /\ \A i \in DOMAIN list : EventOk(list[i], r)
  /\ ~stopped => \E i \in DOMAIN list : list[i].kind = "stop" /\ list[i].ts <= MaxTime

\* No event is in the past.
NotPast(list, now) == \A i \in DOMAIN list : now <= list[i].ts

LEMMA InsertionKeepsList ==
  ASSUME NEW list \in Seq(Events), NEW event \in Events, NEW r \in Ranks, NEW stopped,
         ListOk(list, r, stopped), EventOk(event, r)
  PROVE  /\ InsertEvent(list, event) \in Seq(Events)
         /\ ListOk(InsertEvent(list, event), r, stopped)
         /\ \A now : NotPast(list, now) /\ now <= event.ts => NotPast(InsertEvent(list, event), now)
<1> DEFINE longer == InsertEvent(list, event)
<1>1. longer \in Seq(Events) /\ Ordered(longer)
  BY InsertEventOrdered DEF ListOk
<1>2. PICK k : Lengthened(list, longer, k, event)
  BY InsertEventOrdered
<1> HIDE DEF longer
<1>3. /\ \A i \in DOMAIN list : \E j \in DOMAIN longer : longer[j] = list[i]
      /\ \A j \in DOMAIN longer : longer[j] = event \/ \E i \in DOMAIN list : longer[j] = list[i]
  BY <1>1, <1>2, ElementsOfLengthened
<1>4. \A now : NotPast(list, now) /\ now <= event.ts => NotPast(longer, now)
  BY <1>3 DEF NotPast
<1>5. \A j \in DOMAIN longer : EventOk(longer[j], r)
  BY <1>3 DEF ListOk
<1>6. ~stopped => \E j \in DOMAIN longer : longer[j].kind = "stop" /\ longer[j].ts <= MaxTime
  BY <1>3 DEF ListOk
<1> QED
  BY <1>1, <1>4, <1>5, <1>6 DEF longer, ListOk

LEMMA TailKeepsList ==
  ASSUME NEW list \in Seq(Events), NEW r \in Ranks, NEW stopped \in BOOLEAN, list # <<>>,
         ListOk(list, r, stopped)
  PROVE  /\ list[1] \in Events /\ 1 \in DOMAIN list
         /\ ~stopped => list[1].ts \in Times
         /\ \A now : NotPast(list, now) => now <= list[1].ts
         /\ Tail(list) \in Seq(Events) /\ Lengthened(Tail(list), list, 1, list[1])
         /\ NotPast(Tail(list), list[1].ts)
         /\ ListOk(Tail(list), r, stopped \/ list[1].kind = "stop")
         /\ ~stopped /\ list[1].kind # "stop" => ListOk(Tail(list), r, stopped)
<1> DEFINE tail == Tail(list)
<1>1. /\ list[1] \in Events /\ \A i \in DOMAIN list : list[1].ts <= list[i].ts
      /\ tail \in Seq(Events) /\ Ordered(tail) /\ Lengthened(tail, list, 1, list[1])
  BY EventTimes, TailIsOrdered DEF ListOk
<1> HIDE DEF tail
<1>2. /\ 1 \in DOMAIN list
      /\ \A i \in DOMAIN tail : \E j \in DOMAIN list : list[j] = tail[i]
      /\ \A j \in DOMAIN list : list[j] = list[1] \/ \E i \in DOMAIN tail : list[j] = tail[i]
  BY <1>1, ElementsOfLengthened
<1>3. NotPast(tail, list[1].ts)
  BY <1>1, <1>2 DEF NotPast
<1>4. \A i \in DOMAIN tail : EventOk(tail[i], r)
  BY <1>2 DEF ListOk
<1>5. ~stopped /\ list[1].kind # "stop" =>
        \E i \in DOMAIN tail : tail[i].kind = "stop" /\ tail[i].ts <= MaxTime
  BY <1>2 DEF ListOk
<1>6. \A now : NotPast(list, now) => now <= list[1].ts
  BY <1>2 DEF NotPast
<1>7. ~stopped => list[1].ts \in Times
  <2> SUFFICES ASSUME ~stopped PROVE list[1].ts \in Times
    OBVIOUS
  <2>1. PICK i \in DOMAIN list : list[i].ts <= MaxTime
    BY DEF ListOk
  <2>2. list[1].ts \in Nat /\ list[i].ts \in Nat /\ list[1].ts <= list[i].ts
    BY <1>1, EventTimes
  <2> QED
    BY <2>1, <2>2, RankConstants DEF Times
<1>8. ListOk(tail, r, stopped \/ list[1].kind = "stop")
  BY <1>1, <1>4, <1>5 DEF ListOk
<1>9. ~stopped /\ list[1].kind # "stop" => ListOk(tail, r, stopped)
  BY <1>1, <1>4, <1>5 DEF ListOk
<1> QED
  BY <1>1, <1>2, <1>3, <1>6, <1>7, <1>8, <1>9 DEF tail

\* RescheduleNullMessageEvent changes nothing but the mark of null events.
Cancelled(list, n) ==
  [i \in DOMAIN list |-> IF list[i].kind = "null" /\ list[i].to = n
                         THEN [list[i] EXCEPT !.cancelled = TRUE] ELSE list[i]]
Alike(list, other) ==
  /\ Len(other) = Len(list)
  /\ \A i \in DOMAIN list :
       /\ other[i].ts = list[i].ts /\ other[i].kind = list[i].kind
       /\ other[i].kind = "sent" => other[i] = list[i]
       /\ other[i].kind = "null" => other[i].to = list[i].to

LEMMA CancelledIsAlike ==
  ASSUME NEW list \in Seq(Events), NEW n
  PROVE  /\ Cancelled(list, n) \in Seq(Events) /\ DOMAIN Cancelled(list, n) = DOMAIN list
         /\ Alike(list, Cancelled(list, n))
<1> DEFINE other == Cancelled(list, n)
<1>1. DOMAIN list = 1 .. Len(list) /\ Len(list) \in Nat /\ \A i \in DOMAIN list : list[i] \in Events
  BY EventTimes
<1>2. ASSUME NEW i \in DOMAIN list
      PROVE  /\ other[i] \in Events
             /\ other[i].ts = list[i].ts /\ other[i].kind = list[i].kind
             /\ other[i].kind = "sent" => other[i] = list[i]
             /\ other[i].kind = "null" => other[i].to = list[i].to
  <2>1. CASE list[i].kind = "null" /\ list[i].to = n
    <3>1. list[i] \in [ts : Nat, kind : {"null"}, to : Ranks, cancelled : BOOLEAN]
      BY <1>1, <2>1 DEF Events
    <3>2. other[i] = [list[i] EXCEPT !.cancelled = TRUE]
      BY <2>1 DEF Cancelled
    <3> QED
      BY <3>1, <3>2 DEF Events
  <2>2. CASE ~(list[i].kind = "null" /\ list[i].to = n)
    BY <1>1, <2>2 DEF Cancelled
  <2> QED
    BY <2>1, <2>2
<1>3. DOMAIN other = DOMAIN list
  BY DEF Cancelled
<1> HIDE DEF other
<1>4. other \in [1 .. Len(list) -> Events]
  <2>1. other = [i \in DOMAIN list |-> other[i]]
    BY <1>3 DEF other, Cancelled
  <2> QED
    BY <1>1, <1>2, <2>1
<1>5. other \in Seq(Events) /\ Len(other) = Len(list)
  BY <1>1, <1>4, IsASeq, LenProperties
<1> QED
  BY <1>2, <1>3, <1>5 DEF other, Alike

LEMMA AlikeKeepsList ==
  ASSUME NEW list \in Seq(Events), NEW other \in Seq(Events), Alike(list, other),
         DOMAIN other = DOMAIN list,
         NEW r \in Ranks, NEW stopped, ListOk(list, r, stopped)
  PROVE  /\ ListOk(other, r, stopped)
         /\ \A now : NotPast(list, now) => NotPast(other, now)
<1>1. \A i \in DOMAIN other : EventOk(other[i], r)
  BY DEF ListOk, Alike, EventOk
<1>2. Ordered(other) /\ \A now : NotPast(list, now) => NotPast(other, now)
  BY DEF ListOk, NotPast, Alike, Ordered
<1>3. ~stopped => \E i \in DOMAIN other : other[i].kind = "stop" /\ other[i].ts <= MaxTime
  BY DEF ListOk, Alike
<1> QED
  BY <1>1, <1>2, <1>3 DEF ListOk

------------------------------------------------------------------------------
(* The lists Run begins with. *)

LEMMA NullEventInserted ==
  ASSUME NEW r \in Ranks, NEW n \in Neighbours(r), NEW list \in Seq(Events), NEW now \in Nat,
         NEW stopped, ListOk(list, r, stopped)
  PROVE  /\ ScheduleNullMessageEvent(list, r, n, now) \in Seq(Events)
         /\ ListOk(ScheduleNullMessageEvent(list, r, n, now), r, stopped)
         /\ NotPast(list, now) => NotPast(ScheduleNullMessageEvent(list, r, n, now), now)
         /\ \E k, t : /\ NullEvent(t, n) \in Events /\ t \in Nat /\ now <= t
                       /\ Lengthened(list, ScheduleNullMessageEvent(list, r, n, now), k, NullEvent(t, n))
<1> DEFINE t == now + NullDelay(r, n)
           event == NullEvent(t, n)
<1>1. t \in Nat /\ now <= t /\ n \in Ranks
  BY BundleDelays
<1> HIDE DEF t
<1>2. event \in Events /\ event.ts = t /\ event.kind = "null" /\ event.to = n
  BY <1>1, EventTypes
<1>4. EventOk(event, r)
  BY <1>2 DEF EventOk
<1> HIDE DEF event
<1>3. /\ InsertEvent(list, event) \in Seq(Events) /\ ListOk(InsertEvent(list, event), r, stopped)
      /\ NotPast(list, now) => NotPast(InsertEvent(list, event), now)
      /\ \E k : Lengthened(list, InsertEvent(list, event), k, event)
  BY <1>1, <1>2, <1>4, InsertionKeepsList, InsertEventOrdered
<1> QED
  BY <1>1, <1>2, <1>3 DEF ScheduleNullMessageEvent, event, t

LEMMA InitialListsOk ==
  ASSUME NEW r \in Ranks, NEW list \in InitialLists(r)
  PROVE  list \in Seq(Events) /\ ListOk(list, r, FALSE) /\ NotPast(list, 0)
<1> DEFINE first == <<App(Start[r])>>
           base == InsertEvent(first, StopEvent(StopTime))
           n == Cardinality(Neighbours(r))
           Good == {l \in Seq(Events) : ListOk(l, r, FALSE)}
<1>1. base \in Good
  <2> DEFINE app == App(Start[r])  stopping == StopEvent(StopTime)
  <2>1. Start[r] \in Nat /\ StopTime \in Nat /\ StopTime <= MaxTime
    BY NullMessageAssumption, RankConstants DEF Times
  <2>2. /\ app \in Events /\ app.ts \in Nat /\ app.kind = "app"
        /\ stopping \in Events /\ stopping.ts \in Nat /\ stopping.ts <= MaxTime /\ stopping.kind = "stop"
    BY <2>1, EventTypes
  <2> HIDE DEF app, stopping
  <2>3. <<app>> \in Seq(Events) /\ DOMAIN <<app>> = {1} /\ <<app>>[1] = app
    BY <2>2
  <2> DEFINE single == <<app>>
  <2> HIDE DEF single
  <2> PICK stopped : stopped = TRUE
    OBVIOUS
  <2>4. ListOk(single, r, stopped)
    BY <2>2, <2>3 DEF single, ListOk, Ordered, EventOk
  <2> DEFINE both == InsertEvent(single, stopping)
  <2>5. both \in Seq(Events) /\ ListOk(both, r, stopped)
    <3>1. single \in Seq(Events) /\ EventOk(stopping, r)
      BY <2>2, <2>3 DEF single, EventOk
    <3> QED
      BY <2>2, <2>4, <3>1, InsertionKeepsList
  <2>6. PICK k : Lengthened(single, both, k, stopping)
    BY <2>2, <2>3, InsertEventOrdered DEF single
  <2> HIDE DEF both
  <2>7. k \in DOMAIN both /\ both[k] = stopping
    <3>1. single \in Seq(Events)
      BY <2>3 DEF single
    <3>2. k \in DOMAIN both
      BY <2>2, <2>5, <2>6, <3>1, ElementsOfLengthened
    <3>3. both[k] = stopping
      BY <2>6 DEF Lengthened
    <3> QED
      BY <3>2, <3>3
  <2>8. ListOk(both, r, FALSE)
    BY <2>2, <2>5, <2>7 DEF ListOk
  <2> QED
    BY <2>5, <2>8 DEF both, single, app, stopping
<1>2. PICK bundles \in SetToSeqs(Neighbours(r)) :
        list = FoldLeft(LAMBDA l, m : ScheduleNullMessageEvent(l, r, m, 0), base, bundles)
  BY DEF InitialLists
<1> HIDE DEF base
<1>3. n \in Nat /\ bundles \in [1 .. n -> Neighbours(r)] /\ DOMAIN bundles = 1 .. n
  BY RankConstants, FS_CardinalityType DEF SetToSeqs
<1> DEFINE step == [x \in (1 .. n) \X Good |-> ScheduleNullMessageEvent(x[2], r, bundles[x[1]], 0)]
           choice == [T \in SUBSET (1 .. n) |-> Max(T)]
           rec(f) == [T \in SUBSET (1 .. n) |->
                        IF T = {} THEN base
                        ELSE LET x == Max(T)
                             IN ScheduleNullMessageEvent(f[T \ {x}], r, bundles[x], 0)]
           fold == CHOOSE f : f = rec(f)
<1>4. list = fold[1 .. n]
  BY <1>2, <1>3 DEF FoldLeft, MapThenFoldSet
<1>5. \A k \in 1 .. n : \A l \in Good : ScheduleNullMessageEvent(l, r, bundles[k], 0) \in Good
  BY <1>3, NullEventInserted
<1>6. \E it \in [SUBSET (1 .. n) -> Good] : it = rec(it)
  <2>1. step \in [(1 .. n) \X Good -> Good]
    <3> HIDE DEF Good
    <3> QED
      BY <1>5
  <2>2. IsFiniteSet(1 .. n)
    BY <1>3, FS_Interval
  <2>3. \A T \in SUBSET (1 .. n) : T # {} => choice[T] = Max(T) /\ choice[T] \in T
    BY <1>3, MaxOfPositions
  <2>4. PICK it \in [SUBSET (1 .. n) -> Good] :
          IsRecursive(it, SUBSET (1 .. n), base, step, choice)
    <3> HIDE DEF step, choice, n, Good
    <3> QED
      BY <1>1, <2>1, <2>2, <2>3, SetRecursion
  <2>5. ASSUME NEW T \in SUBSET (1 .. n), T # {}
        PROVE  step[<<choice[T], it[T \ {choice[T]}]>>]
                 = ScheduleNullMessageEvent(it[T \ {Max(T)}], r, bundles[Max(T)], 0)
    <3>1. Max(T) \in 1 .. n /\ choice[T] = Max(T) /\ it[T \ {Max(T)}] \in Good
      BY <2>3, <2>4, <2>5
    <3> HIDE DEF Good, choice
    <3> QED
      BY <3>1
  <2>6. \A T \in SUBSET (1 .. n) : it[T] = rec(it)[T]
    BY <2>4, <2>5 DEF IsRecursive
  <2>7. it = rec(it)
    BY <2>6
  <2> QED
    BY <2>7
<1> HIDE DEF Good
<1>7. PICK it \in [SUBSET (1 .. n) -> Good] : it = rec(it)
  BY <1>6
<1>8. fold = rec(fold)
  BY <1>7
<1>9. fold[1 .. n] \in Good
  <2> DEFINE Q == {T \in SUBSET (1 .. n) : fold[T] \in Good}
  <2>1. {} \in Q
    BY <1>1, <1>8
  <2>2. \A T \in SUBSET (1 .. n) : T # {} => choice[T] = Max(T) /\ choice[T] \in T
    BY <1>3, MaxOfPositions
  <2>3. ASSUME NEW T \in SUBSET (1 .. n), T # {}, T \ {choice[T]} \in Q
        PROVE  T \in Q
    <3>1. fold[T] = ScheduleNullMessageEvent(fold[T \ {Max(T)}], r, bundles[Max(T)], 0)
      <4> HIDE DEF fold
      <4> QED
        BY <1>8, <2>3
    <3>2. fold[T \ {Max(T)}] \in Good /\ Max(T) \in 1 .. n
      BY <2>2, <2>3
    <3> HIDE DEF fold
    <3> QED
      BY <1>5, <3>1, <3>2
  <2>4. IsFiniteSet(1 .. n)
    BY <1>3, FS_Interval
  <2>5. SUBSET (1 .. n) \subseteq Q
    <3> DEFINE S == 1 .. n
    <3>1. IsFiniteSet(S) /\ {} \in Q
      BY <2>1, <2>4
    <3>2. \A T \in SUBSET S : T # {} => choice[T] \in T
      BY <2>2
    <3>3. \A T \in SUBSET S : T # {} /\ T \ {choice[T]} \in Q => T \in Q
      BY <2>1, <2>3
    <3> HIDE DEF Q, choice, S, fold, rec, step, first
    <3>4. SUBSET S \subseteq Q
      BY <3>1, <3>2, <3>3, SubsetInduction
    <3> QED
      BY <3>4 DEF S
  <2> HIDE DEF fold
  <2> QED
    BY <2>5
<1>10. list \in Seq(Events) /\ ListOk(list, r, FALSE)
  BY <1>4, <1>9 DEF Good
<1>11. NotPast(list, 0)
  <2> HIDE DEF fold
  <2> QED
    BY <1>10, EventTimes DEF NotPast
<1> QED
  BY <1>10, <1>11

------------------------------------------------------------------------------
(* The steps that send. *)

LEMMA GuaranteeTimeType ==
  ASSUME NEW r \in Ranks, NEW n \in Neighbours(r), NEW list \in Seq(Events), 1 \in DOMAIN list,
         safeTime[r] \in Nat
  PROVE  /\ CalculateGuaranteeTime(r, n, list) \in Nat
         /\ CalculateGuaranteeTime(r, n, list) <= list[1].ts + Delay(r, n)
         /\ CalculateGuaranteeTime(r, n, list) <= safeTime[r] + Delay(r, n)
<1> DEFINE T == {list[1].ts, safeTime[r]}
<1>1. T \subseteq Nat /\ T # {} /\ list[1].ts \in T /\ safeTime[r] \in T
  BY EventTimes
<1>2. CalculateGuaranteeTime(r, n, list) = Min(T) + Delay(r, n)
  BY DEF CalculateGuaranteeTime
<1> HIDE DEF T
<1>3. /\ Min(T) \in Nat /\ Min(T) <= list[1].ts /\ Min(T) <= safeTime[r]
      /\ list[1].ts \in Nat /\ Delay(r, n) \in Nat
  BY <1>1, MinOfNumbers, BundleDelays
<1> QED
  BY <1>2, <1>3

\* SendPacket with the packet it sends, and the list of its rank in between.
Sends(r, n, d, tx, list) ==
  /\ n \in Neighbours(r) /\ d \in Links[r][n] /\ tx \in TxTimes
  /\ list = InsertEvent(events[r], TransmitComplete(currentTs[r] + tx, n, d))
  /\ ~IsBusy(r, n, d)
  /\ currentTs[r] + tx + d <= MaxTime
  /\ channel' = [channel EXCEPT ![r][n] =
                   Append(@, Packet(currentTs[r] + tx + d, CalculateGuaranteeTime(r, n, list)))]
  /\ events' = [events EXCEPT ![r] =
                  ScheduleNullMessageEvent(Cancelled(list, n), r, n, currentTs[r])]

LEMMA SendPacketSends ==
  ASSUME NEW r \in Ranks, SendPacket(r)
  PROVE  /\ \E n, d, tx, list : Sends(r, n, d, tx, list)
         /\ pc[r] = "handler" /\ calls' = [calls EXCEPT ![r] = @ + 1]
         /\ UNCHANGED <<pc, currentTs, stop, safeTime, guarantee>>
<1>1. PICK n \in Neighbours(r) : \E d \in Links[r][n], tx \in TxTimes :
        LET rxTime == currentTs[r] + tx + d
            list == InsertEvent(events[r], TransmitComplete(currentTs[r] + tx, n, d)) IN
        /\ ~IsBusy(r, n, d)
        /\ rxTime <= MaxTime
        /\ channel' = [channel EXCEPT ![r][n] =
             Append(@, Packet(rxTime, CalculateGuaranteeTime(r, n, list)))]
        /\ events' = [events EXCEPT ![r] = RescheduleNullMessageEvent(list, r, n, currentTs[r])]
  BY DEF SendPacket
<1>2. PICK d \in Links[r][n], tx \in TxTimes :
        LET rxTime == currentTs[r] + tx + d
            list == InsertEvent(events[r], TransmitComplete(currentTs[r] + tx, n, d)) IN
        /\ ~IsBusy(r, n, d)
        /\ rxTime <= MaxTime
        /\ channel' = [channel EXCEPT ![r][n] =
             Append(@, Packet(rxTime, CalculateGuaranteeTime(r, n, list)))]
        /\ events' = [events EXCEPT ![r] = RescheduleNullMessageEvent(list, r, n, currentTs[r])]
  BY <1>1
<1> DEFINE list == InsertEvent(events[r], TransmitComplete(currentTs[r] + tx, n, d))
<1>3. RescheduleNullMessageEvent(list, r, n, currentTs[r])
        = ScheduleNullMessageEvent(Cancelled(list, n), r, n, currentTs[r])
  BY DEF RescheduleNullMessageEvent, Cancelled
<1>4. Sends(r, n, d, tx, list)
  BY <1>2, <1>3 DEF Sends
<1>5. \E m, e, x, l : Sends(r, m, e, x, l)
  <2> HIDE DEF list
  <2> QED
    BY <1>4
<1> QED
  BY <1>5 DEF SendPacket, Call

\* What is sent, and the lists of the rank that sends.
LEMMA SendsFacts ==
  ASSUME NEW r \in Ranks, NEW n, NEW d, NEW tx, NEW list, Sends(r, n, d, tx, list),
         events[r] \in Seq(Events), ListOk(events[r], r, stop[r]), currentTs[r] \in Nat,
         safeTime[r] \in Nat
  PROVE  /\ d \in Nat /\ tx \in Nat /\ n \in Ranks /\ currentTs[r] + tx + d \in Times
         /\ list \in Seq(Events) /\ ListOk(list, r, stop[r])
         /\ TransmitComplete(currentTs[r] + tx, n, d) \in Events
         /\ \E k : Lengthened(events[r], list, k, TransmitComplete(currentTs[r] + tx, n, d))
         /\ list[1].ts <= currentTs[r] + tx
         /\ NotPast(events[r], currentTs[r]) => NotPast(list, currentTs[r])
         /\ 1 \in DOMAIN list
         /\ Cancelled(list, n) \in Seq(Events) /\ ListOk(Cancelled(list, n), r, stop[r])
         /\ r \in DOMAIN events => events'[r] \in Seq(Events) /\ ListOk(events'[r], r, stop[r])
<1> DEFINE e == TransmitComplete(currentTs[r] + tx, n, d)
<1>1. /\ n \in Ranks /\ d \in Nat /\ d > 0 /\ tx \in Nat
  BY BundleDelays, RankAssumption DEF Sends, Neighbours
<1>2. currentTs[r] + tx \in Nat /\ currentTs[r] + tx + d \in Times
  BY <1>1, RankConstants DEF Sends, Times
<1>3. e \in Events /\ e.ts = currentTs[r] + tx /\ e.kind = "sent" /\ e.to = n /\ e.delay = d
  BY <1>1, <1>2, EventTypes
<1>4. list = InsertEvent(events[r], e)
  BY DEF Sends
<1>5. n \in Neighbours(r) /\ d \in Links[r][n]
  BY DEF Sends
<1> HIDE DEF e
<1>6. /\ list \in Seq(Events) /\ ListOk(list, r, stop[r])
      /\ \A now : NotPast(events[r], now) /\ now <= e.ts => NotPast(list, now)
  <2>1. EventOk(e, r)
    BY <1>3, <1>5 DEF EventOk
  <2> QED
    BY <1>3, <1>4, <2>1, InsertionKeepsList
<1>7. Ordered(list) /\ DOMAIN list = 1 .. Len(list) /\ Len(list) \in Nat
  BY <1>6, EventTimes DEF ListOk
<1>8. PICK k : Lengthened(events[r], list, k, e)
  BY <1>3, <1>4, InsertEventOrdered
<1>9. k \in DOMAIN list /\ 1 \in DOMAIN list /\ list[1].ts <= e.ts
  <2>1. k \in DOMAIN list /\ list[k] = e
    BY <1>3, <1>6, <1>8, ElementsOfLengthened DEF Lengthened
  <2>2. 1 \in DOMAIN list /\ 1 <= k
    BY <1>7, <2>1
  <2> QED
    BY <1>7, <2>1, <2>2 DEF Ordered
<1> DEFINE other == Cancelled(list, n)
<1>10. other \in Seq(Events) /\ ListOk(other, r, stop[r])
  BY <1>6, CancelledIsAlike, AlikeKeepsList
<1>11. /\ ScheduleNullMessageEvent(other, r, n, currentTs[r]) \in Seq(Events)
       /\ ListOk(ScheduleNullMessageEvent(other, r, n, currentTs[r]), r, stop[r])
  <2> HIDE DEF other
  <2> QED
    BY <1>5, <1>10, NullEventInserted
<1>12. events' = [events EXCEPT ![r] = ScheduleNullMessageEvent(other, r, n, currentTs[r])]
  BY DEF Sends
<1> HIDE DEF other
<1>13. r \in DOMAIN events => events'[r] = ScheduleNullMessageEvent(other, r, n, currentTs[r])
  BY <1>12
<1>14. NotPast(events[r], currentTs[r]) => NotPast(list, currentTs[r])
  <2>1. currentTs[r] <= e.ts
    BY <1>1, <1>3
  <2> QED
    BY <1>6, <2>1
<1> QED
  <2>1. e \in Events /\ (\E i : Lengthened(events[r], list, i, e)) /\ list[1].ts <= currentTs[r] + tx
    BY <1>3, <1>8, <1>9
  <2>2. r \in DOMAIN events => events'[r] \in Seq(Events) /\ ListOk(events'[r], r, stop[r])
    BY <1>11, <1>13
  <2> QED
    BY <1>1, <1>2, <1>6, <1>9, <1>10, <1>14, <2>1, <2>2 DEF other, e

------------------------------------------------------------------------------
(* Type correctness. *)

TypeInv ==
  /\ TypeOK
  /\ \A r \in Ranks : ListOk(events[r], r, stop[r])

LEMMA SafeTimeType ==
  ASSUME NEW r \in Ranks, NEW g \in [Neighbours(r) -> Nat]
  PROVE  /\ Min({Infinity} \cup Range(g)) \in 0 .. Infinity
         /\ \A n \in Neighbours(r) : Min({Infinity} \cup Range(g)) <= g[n]
<1> DEFINE T == {Infinity} \cup Range(g)
<1>1. T \subseteq Nat /\ T # {} /\ Infinity \in T /\ \A n \in Neighbours(r) : g[n] \in T
  BY RankConstants DEF Range
<1> HIDE DEF T
<1>2. Min(T) \in T /\ \A x \in T : Min(T) <= x
  BY <1>1, MinOfNumbers
<1>3. Min(T) \in 0 .. Infinity
  <2>1. Infinity \in Nat
    BY RankConstants
  <2>2. Min(T) \in Nat /\ Min(T) <= Infinity
    BY <1>1, <1>2
  <2> QED
    BY <2>1, <2>2
<1>4. \A n \in Neighbours(r) : Min(T) <= g[n]
  BY <1>1, <1>2
<1> QED
  BY <1>3, <1>4 DEF T

\* The parts of the state that a handler reads.
LEMMA StateTypes ==
  ASSUME TypeInv, NEW r \in Ranks
  PROVE  /\ events[r] \in Seq(Events) /\ ListOk(events[r], r, stop[r])
         /\ currentTs[r] \in Times /\ currentTs[r] \in Nat /\ stop[r] \in BOOLEAN
         /\ safeTime[r] \in Nat /\ r \in DOMAIN events
         /\ \A n \in Neighbours(r) :
              /\ guarantee[r][n] \in Nat
              /\ channel[n][r] \in Seq(Messages) /\ channel[r][n] \in Seq(Messages)
<1>1. \A n \in Neighbours(r) : n \in Ranks /\ r \in Neighbours(n)
  BY RankConstants
<1>2. /\ guarantee[r] \in [Neighbours(r) -> Nat] /\ channel[r] \in [Neighbours(r) -> Seq(Messages)]
      /\ \A n \in Neighbours(r) : channel[n] \in [Neighbours(n) -> Seq(Messages)]
  BY <1>1 DEF TypeInv, TypeOK
<1>3. currentTs[r] \in Times /\ safeTime[r] \in 0 .. Infinity
  BY DEF TypeInv, TypeOK
<1>4. currentTs[r] \in Nat /\ safeTime[r] \in Nat
  <2>1. \A x \in 0 .. Infinity : x \in Nat
    BY RankConstants
  <2>2. \A x \in Times : x \in Nat
    BY RankConstants
  <2> QED
    BY <1>3, <2>1, <2>2
<1> QED
  BY <1>1, <1>2, <1>3, <1>4 DEF TypeInv, TypeOK

\* A message more, or one less, in one channel.
LEMMA ChannelsUpdated ==
  ASSUME NEW c, DOMAIN c = Ranks, \A r \in Ranks : c[r] \in [Neighbours(r) -> Seq(Messages)],
         NEW s \in Ranks, NEW n \in Neighbours(s), NEW messages \in Seq(Messages)
  PROVE  LET d == [c EXCEPT ![s][n] = messages]
         IN /\ DOMAIN d = Ranks /\ \A r \in Ranks : d[r] \in [Neighbours(r) -> Seq(Messages)]
            /\ d[s][n] = messages
            /\ \A r \in Ranks : \A m \in Neighbours(r) : ~(r = s /\ m = n) => d[r][m] = c[r][m]
<1> DEFINE d == [c EXCEPT ![s][n] = messages]
<1>1. DOMAIN d = Ranks /\ d[s] = [c[s] EXCEPT ![n] = messages] /\ \A r \in Ranks : r # s => d[r] = c[r]
  OBVIOUS
<1>2. d[s] \in [Neighbours(s) -> Seq(Messages)] /\ d[s][n] = messages
      /\ \A m \in Neighbours(s) : m # n => d[s][m] = c[s][m]
  BY <1>1
<1> HIDE DEF d
<1>3. \A r \in Ranks : d[r] \in [Neighbours(r) -> Seq(Messages)]
  BY <1>1, <1>2
<1>4. \A r \in Ranks : \A m \in Neighbours(r) : ~(r = s /\ m = n) => d[r][m] = c[r][m]
  BY <1>1, <1>2
<1> QED
  BY <1>1, <1>2, <1>3, <1>4 DEF d

\* One message is received.
LEMMA ReceiveTypes ==
  ASSUME TypeInv, NEW r \in Ranks, NEW n \in Neighbours(r), ReceiveMessage(r, n)
  PROVE  LET message == Head(channel[n][r])
         IN /\ message \in Messages /\ channel[n][r] # <<>> /\ message = channel[n][r][1]
            /\ channel' = [channel EXCEPT ![n][r] = Tail(channel[n][r])]
            /\ Tail(channel[n][r]) \in Seq(Messages)
            /\ Lengthened(Tail(channel[n][r]), channel[n][r], 1, channel[n][r][1])
            /\ guarantee' = [guarantee EXCEPT ![r][n] = message.guarantee]
            /\ guarantee'[r] \in [Neighbours(r) -> Nat]
            /\ message.time # 0 => /\ App(message.time) \in Events
                                   /\ events' = [events EXCEPT ![r] = InsertEvent(events[r], App(message.time))]
                                   /\ InsertEvent(events[r], App(message.time)) \in Seq(Events)
                                   /\ ListOk(InsertEvent(events[r], App(message.time)), r, stop[r])
            /\ message.time = 0 => events' = events
<1> DEFINE message == Head(channel[n][r])
<1>1. channel[n][r] \in Seq(Messages) /\ channel[n][r] # <<>>
  BY StateTypes DEF ReceiveMessage
<1>2. message \in Messages /\ message = channel[n][r][1]
  BY <1>1, ElementOfSeq, HeadTailProperties
<1>3. message.time \in Nat /\ message.guarantee \in Nat
  BY <1>2, RankConstants DEF Messages
<1>4. /\ Tail(channel[n][r]) \in Seq(Messages)
      /\ Lengthened(Tail(channel[n][r]), channel[n][r], 1, channel[n][r][1])
  BY <1>1, TailShortens
<1>5. /\ channel' = [channel EXCEPT ![n][r] = Tail(channel[n][r])]
      /\ guarantee' = [guarantee EXCEPT ![r][n] = message.guarantee]
      /\ message.time # 0 =>
           events' = [events EXCEPT ![r] = InsertEvent(events[r], App(message.time))]
      /\ message.time = 0 => events' = events
  BY DEF ReceiveMessage
<1> HIDE DEF message
<1>6. /\ App(message.time) \in Events /\ App(message.time).kind = "app"
  BY <1>3, EventTypes
<1>7. /\ InsertEvent(events[r], App(message.time)) \in Seq(Events)
      /\ ListOk(InsertEvent(events[r], App(message.time)), r, stop[r])
  <2> DEFINE event == App(message.time)
  <2>1. event \in Events /\ event.kind = "app"
    BY <1>6
  <2>4. EventOk(event, r)
    BY <2>1 DEF EventOk
  <2> HIDE DEF event
  <2>2. events[r] \in Seq(Events) /\ ListOk(events[r], r, stop[r])
    BY StateTypes
  <2>3. InsertEvent(events[r], event) \in Seq(Events) /\ ListOk(InsertEvent(events[r], event), r, stop[r])
    BY <2>1, <2>2, <2>4, InsertionKeepsList
  <2> QED
    BY <2>3 DEF event
<1>8. guarantee'[r] \in [Neighbours(r) -> Nat]
  <2>1. guarantee[r] \in [Neighbours(r) -> Nat] /\ r \in DOMAIN guarantee
    BY DEF TypeInv, TypeOK
  <2>2. guarantee'[r] = [guarantee[r] EXCEPT ![n] = message.guarantee]
    BY <1>5, <2>1
  <2> QED
    BY <1>3, <2>1, <2>2
<1> QED
  BY <1>1, <1>2, <1>4, <1>5, <1>6, <1>7, <1>8 DEF message

\* What is sent by a rank is appended to a channel of its.
LEMMA SendTypes ==
  ASSUME TypeInv, NEW r \in Ranks, NEW n \in Neighbours(r), NEW message \in Messages,
         channel' = [channel EXCEPT ![r][n] = Append(@, message)]
  PROVE  /\ DOMAIN channel' = Ranks
         /\ \A s \in Ranks : channel'[s] \in [Neighbours(s) -> Seq(Messages)]
         /\ channel'[r][n] = Append(channel[r][n], message)
         /\ \A s \in Ranks : \A m \in Neighbours(s) : ~(s = r /\ m = n) =>
              channel'[s][m] = channel[s][m]
<1> DEFINE longer == Append(channel[r][n], message)
<1>1. longer \in Seq(Messages)
  BY StateTypes, AppendProperties
<1>2. channel' = [channel EXCEPT ![r][n] = longer]
  OBVIOUS
<1>3. DOMAIN channel = Ranks /\ \A s \in Ranks : channel[s] \in [Neighbours(s) -> Seq(Messages)]
  BY DEF TypeInv, TypeOK
<1> HIDE DEF longer
<1>4. LET d == [channel EXCEPT ![r][n] = longer]
      IN /\ DOMAIN d = Ranks /\ \A s \in Ranks : d[s] \in [Neighbours(s) -> Seq(Messages)]
         /\ d[r][n] = longer
         /\ \A s \in Ranks : \A m \in Neighbours(s) : ~(s = r /\ m = n) => d[s][m] = channel[s][m]
  BY <1>1, <1>3, ChannelsUpdated
<1> QED
  BY <1>2, <1>4 DEF longer

LEMMA InitType == Init => TypeInv
<1> SUFFICES ASSUME Init PROVE TypeInv
  OBVIOUS
<1>1. /\ events \in [Ranks -> UNION {InitialLists(r) : r \in Ranks}]
      /\ \A r \in Ranks : events[r] \in InitialLists(r) /\ stop[r] = FALSE
  BY DEF Init
<1>2. \A r \in Ranks : events[r] \in Seq(Events) /\ ListOk(events[r], r, FALSE)
  BY <1>1, InitialListsOk
<1>3. events \in [Ranks -> Seq(Events)]
  BY <1>1, <1>2
<1>4. ASSUME NEW r \in Ranks
      PROVE  /\ guarantee[r] \in [Neighbours(r) -> Nat]
             /\ channel[r] \in [Neighbours(r) -> Seq(Messages)]
  <2>1. \A n \in Neighbours(r) : NullMessage(Delay(r, n)) \in Messages
    BY BundleDelays, RankConstants DEF NullMessage, Packet, Messages
  <2>2. \A n \in Neighbours(r) : <<NullMessage(Delay(r, n))>> \in Seq(Messages)
    BY <2>1
  <2> QED
    BY <2>2 DEF Init
<1>5. safeTime \in [Ranks -> 0 .. Infinity]
  BY RankConstants DEF Init
<1>6. \A r \in Ranks : ListOk(events[r], r, stop[r])
  BY <1>1, <1>2
<1>7. currentTs \in [Ranks -> Times]
  BY RankConstants DEF Init
<1> QED
  BY <1>3, <1>4, <1>5, <1>6, <1>7 DEF Init, TypeInv, TypeOK

\* The event lists of a step that changes those of one rank.
LEMMA ListsUpdated ==
  ASSUME TypeInv, NEW r \in Ranks, NEW list \in Seq(Events), NEW stopped \in BOOLEAN,
         ListOk(list, r, stopped),
         events' = [events EXCEPT ![r] = list], stop' = [stop EXCEPT ![r] = stopped]
  PROVE  /\ events' \in [Ranks -> Seq(Events)] /\ stop' \in [Ranks -> BOOLEAN]
         /\ \A s \in Ranks : ListOk(events'[s], s, stop'[s])
         /\ events'[r] = list /\ \A s \in Ranks : s # r => events'[s] = events[s]
<1>1. events \in [Ranks -> Seq(Events)] /\ stop \in [Ranks -> BOOLEAN]
  BY DEF TypeInv, TypeOK
<1>2. events'[r] = list /\ stop'[r] = stopped
  BY <1>1
<1>3. \A s \in Ranks : s # r => events'[s] = events[s] /\ stop'[s] = stop[s]
  BY <1>1
<1>4. events' \in [Ranks -> Seq(Events)] /\ stop' \in [Ranks -> BOOLEAN]
  BY <1>1
<1>5. ASSUME NEW s \in Ranks
      PROVE  ListOk(events'[s], s, stop'[s])
  <2>1. CASE s = r
    BY <1>2, <2>1
  <2>2. CASE s # r
    BY <1>3, <2>2 DEF TypeInv
  <2> QED
    BY <2>1, <2>2
<1> QED
  BY <1>2, <1>3, <1>4, <1>5

\* The first event of a rank is taken.
LEMMA TakeTypes ==
  ASSUME TypeInv, NEW r \in Ranks, NEW kinds, TakeEvent(r, kinds)
  PROVE  LET list == events[r]
         IN /\ pc[r] = "loop" /\ stop[r] = FALSE /\ list # <<>> /\ list \in Seq(Events)
            /\ list[1] \in Events /\ 1 \in DOMAIN list /\ list[1].kind \in kinds
            /\ list[1].ts \in Times /\ list[1].ts \in Nat /\ list[1].ts <= safeTime[r]
            /\ currentTs' = [currentTs EXCEPT ![r] = list[1].ts]
            /\ currentTs' \in [Ranks -> Times] /\ currentTs'[r] = list[1].ts
            /\ Tail(list) \in Seq(Events) /\ Lengthened(Tail(list), list, 1, list[1])
            /\ NotPast(Tail(list), list[1].ts)
            /\ NotPast(list, currentTs[r]) => currentTs[r] <= list[1].ts
            /\ ListOk(Tail(list), r, list[1].kind = "stop")
            /\ list[1].kind # "stop" => ListOk(Tail(list), r, stop[r])
<1>1. /\ pc[r] = "loop" /\ ~stop[r] /\ events[r] # <<>> /\ events[r][1].kind \in kinds
      /\ events[r][1].ts <= safeTime[r] /\ currentTs' = [currentTs EXCEPT ![r] = events[r][1].ts]
  BY DEF TakeEvent, IsFinished
<1>2. /\ events[r] \in Seq(Events) /\ ListOk(events[r], r, stop[r]) /\ stop[r] \in BOOLEAN
  BY StateTypes
<1> DEFINE list == events[r]
<1> HIDE DEF list
<1>3. /\ list[1] \in Events /\ 1 \in DOMAIN list
      /\ ~stop[r] => list[1].ts \in Times
      /\ \A now : NotPast(list, now) => now <= list[1].ts
      /\ Tail(list) \in Seq(Events) /\ Lengthened(Tail(list), list, 1, list[1])
      /\ NotPast(Tail(list), list[1].ts)
      /\ ListOk(Tail(list), r, stop[r] \/ list[1].kind = "stop")
      /\ ~stop[r] /\ list[1].kind # "stop" => ListOk(Tail(list), r, stop[r])
  BY <1>1, <1>2, TailKeepsList DEF list
<1>4. (stop[r] \/ list[1].kind = "stop") = (list[1].kind = "stop")
  BY <1>1
<1>5. ListOk(Tail(list), r, list[1].kind = "stop")
  BY <1>3, <1>4, Zenon
<1>6. list[1].ts \in Times /\ list[1].ts \in Nat
  BY <1>1, <1>3, EventTimes
<1>7. currentTs' \in [Ranks -> Times] /\ currentTs'[r] = list[1].ts
  <2>1. currentTs \in [Ranks -> Times]
    BY DEF TypeInv, TypeOK
  <2> QED
    BY <1>1, <1>6, <2>1 DEF list
<1>8. stop[r] = FALSE
  BY <1>1, <1>2
<1> QED
  BY <1>1, <1>2, <1>3, <1>5, <1>6, <1>7, <1>8 DEF list

\* The event of a null message runs, unless it has been cancelled.
LEMMA NullMessageSends ==
  ASSUME TypeInv, NEW r \in Ranks, NullMessageEventHandler(r), ~events[r][1].cancelled
  PROVE  LET event == events[r][1]
             list == Tail(events[r])
             message == NullMessage(CalculateGuaranteeTime(r, event.to, list))
             longer == ScheduleNullMessageEvent(list, r, event.to, event.ts)
         IN /\ event.to \in Neighbours(r) /\ 1 \in DOMAIN list /\ message \in Messages
            /\ channel' = [channel EXCEPT ![r][event.to] = Append(@, message)]
            /\ events' = [events EXCEPT ![r] = longer]
            /\ longer \in Seq(Events) /\ ListOk(longer, r, stop[r]) /\ NotPast(longer, event.ts)
            /\ \E k, t : /\ NullEvent(t, event.to) \in Events /\ t \in Nat /\ event.ts <= t
                          /\ Lengthened(list, longer, k, NullEvent(t, event.to))
<1> DEFINE event == events[r][1]
           list == Tail(events[r])
           message == NullMessage(CalculateGuaranteeTime(r, event.to, list))
           longer == ScheduleNullMessageEvent(list, r, event.to, event.ts)
<1>1. TakeEvent(r, {"null"})
  BY DEF NullMessageEventHandler
<1>2. /\ list \in Seq(Events) /\ event.kind = "null" /\ event.ts \in Nat /\ stop[r] = FALSE
      /\ ListOk(list, r, stop[r]) /\ NotPast(list, event.ts)
      /\ 1 \in DOMAIN events[r] /\ events[r] \in Seq(Events)
  <2>1. events[r][1].kind \in {"null"}
    BY <1>1, TakeTypes
  <2> QED
    BY <1>1, <2>1, TakeTypes
<1>3. event.to \in Neighbours(r)
  <2>1. EventOk(event, r)
    BY <1>2, StateTypes DEF ListOk
  <2> QED
    BY <1>2, <2>1 DEF EventOk
<1>4. 1 \in DOMAIN list
  <2> HIDE DEF list
  <2>1. \E i \in DOMAIN list : TRUE
    BY <1>2 DEF ListOk
  <2>2. DOMAIN list = 1 .. Len(list) /\ Len(list) \in Nat
    BY <1>2, EventTimes
  <2> QED
    BY <2>1, <2>2
<1>5. /\ channel' = [channel EXCEPT ![r][event.to] = Append(@, message)]
      /\ events' = [events EXCEPT ![r] = longer]
  BY DEF NullMessageEventHandler
<1>6. safeTime[r] \in Nat
  BY StateTypes
<1>7. CalculateGuaranteeTime(r, event.to, list) \in Nat
  <2> HIDE DEF list, event
  <2> QED
    BY <1>2, <1>3, <1>4, <1>6, GuaranteeTimeType
<1>8. message \in Messages
  BY <1>7, RankConstants DEF NullMessage, Packet, Messages
<1>9. /\ longer \in Seq(Events) /\ ListOk(longer, r, stop[r]) /\ NotPast(longer, event.ts)
      /\ \E k, t : /\ NullEvent(t, event.to) \in Events /\ t \in Nat /\ event.ts <= t
                    /\ Lengthened(list, longer, k, NullEvent(t, event.to))
  <2> HIDE DEF list, event
  <2> QED
    BY <1>2, <1>3, NullEventInserted
<1> QED
  BY <1>3, <1>4, <1>5, <1>8, <1>9

\* SendPacket, with the message it sends.
LEMMA SendPacketTypes ==
  ASSUME TypeInv, NEW r \in Ranks, NEW n, NEW d, NEW tx, NEW list, Sends(r, n, d, tx, list)
  PROVE  LET message == Packet(currentTs[r] + tx + d, CalculateGuaranteeTime(r, n, list))
         IN /\ message \in Messages
            /\ channel' = [channel EXCEPT ![r][n] = Append(@, message)]
            /\ n \in Neighbours(r) /\ 1 \in DOMAIN list /\ list \in Seq(Events)
            /\ events'[r] \in Seq(Events) /\ ListOk(events'[r], r, stop[r])
            /\ events' = [events EXCEPT ![r] = events'[r]]
<1>1. /\ events[r] \in Seq(Events) /\ ListOk(events[r], r, stop[r]) /\ currentTs[r] \in Nat
      /\ safeTime[r] \in Nat /\ r \in DOMAIN events
  BY StateTypes
<1>2. /\ currentTs[r] + tx + d \in Times /\ 1 \in DOMAIN list /\ list \in Seq(Events)
      /\ events'[r] \in Seq(Events) /\ ListOk(events'[r], r, stop[r])
  BY <1>1, SendsFacts
<1>3. n \in Neighbours(r)
  BY DEF Sends
<1>4. CalculateGuaranteeTime(r, n, list) \in Nat
  BY <1>1, <1>2, <1>3, GuaranteeTimeType
<1>5. Packet(currentTs[r] + tx + d, CalculateGuaranteeTime(r, n, list)) \in Messages
  BY <1>2, <1>4 DEF Packet, Messages
<1>6. /\ channel' = [channel EXCEPT ![r][n] = Append(@,
                       Packet(currentTs[r] + tx + d, CalculateGuaranteeTime(r, n, list)))]
      /\ events' = [events EXCEPT ![r] =
                      ScheduleNullMessageEvent(Cancelled(list, n), r, n, currentTs[r])]
  BY DEF Sends
<1>7. events' = [events EXCEPT ![r] = events'[r]]
  <2> DEFINE longer == ScheduleNullMessageEvent(Cancelled(list, n), r, n, currentTs[r])
  <2>1. events' = [events EXCEPT ![r] = longer]
    BY <1>6
  <2> HIDE DEF longer
  <2>2. events'[r] = longer
    BY <1>1, <2>1
  <2> QED
    BY <2>1, <2>2
<1> QED
  BY <1>2, <1>3, <1>5, <1>6, <1>7

\* A rank that is blocked receives a message, unless it has no neighbour.
LEMMA BlockingReceives ==
  ASSUME NEW r \in Ranks, HandleArrivingMessagesBlocking(r)
  PROVE  \/ UNCHANGED <<events, guarantee, channel>>
         \/ \E n \in Neighbours(r) : ReceiveMessage(r, n)
BY DEF HandleArrivingMessagesBlocking

LEMMA StepType ==
  ASSUME TypeInv, [Next]_vars
  PROVE  TypeInv'
<1>0. stop \in [Ranks -> BOOLEAN] /\ \A r \in Ranks : stop = [stop EXCEPT ![r] = stop[r]]
  BY DEF TypeInv, TypeOK
<1>1. ASSUME NEW r \in Ranks, NEW list \in Seq(Events), ListOk(list, r, stop[r]),
             events' = [events EXCEPT ![r] = list], stop' = stop
      PROVE  events' \in [Ranks -> Seq(Events)] /\ \A s \in Ranks : ListOk(events'[s], s, stop'[s])
  <2>1. stop[r] \in BOOLEAN /\ stop' = [stop EXCEPT ![r] = stop[r]]
    BY <1>0, <1>1
  <2> QED
    BY <1>1, <2>1, ListsUpdated
<1>2. ASSUME NEW r \in Ranks, Schedule(r)
      PROVE  TypeInv'
  <2>1. PICK d \in Delays : events' = [events EXCEPT ![r] = InsertEvent(@, App(currentTs[r] + d))]
    BY <1>2 DEF Schedule
  <2> DEFINE event == App(currentTs[r] + d)
  <2>2. event \in Events /\ EventOk(event, r)
    <3>1. currentTs[r] + d \in Nat
      BY StateTypes, RankAssumption
    <3> QED
      BY <3>1, EventTypes DEF EventOk
  <2>3. InsertEvent(events[r], event) \in Seq(Events) /\ ListOk(InsertEvent(events[r], event), r, stop[r])
    <3> HIDE DEF event
    <3> QED
      BY <2>2, StateTypes, InsertionKeepsList
  <2>4. events' = [events EXCEPT ![r] = InsertEvent(events[r], event)]
    BY <2>1
  <2> HIDE DEF event
  <2>5. events' \in [Ranks -> Seq(Events)] /\ \A s \in Ranks : ListOk(events'[s], s, stop'[s])
    BY <1>1, <1>2, <2>3, <2>4 DEF Schedule
  <2>6. calls' \in [Ranks -> Nat]
    BY <1>2 DEF Schedule, Call, TypeInv, TypeOK
  <2> QED
    BY <1>2, <2>5, <2>6 DEF Schedule, TypeInv, TypeOK
<1>3. ASSUME NEW r \in Ranks, SendPacket(r)
      PROVE  TypeInv'
  <2>1. PICK n, d, tx, list : Sends(r, n, d, tx, list)
    BY <1>3, SendPacketSends
  <2>2. /\ calls' = [calls EXCEPT ![r] = @ + 1]
        /\ UNCHANGED <<pc, currentTs, stop, safeTime, guarantee>>
    BY <1>3, SendPacketSends
  <2> DEFINE message == Packet(currentTs[r] + tx + d, CalculateGuaranteeTime(r, n, list))
  <2>3. /\ message \in Messages /\ n \in Neighbours(r)
        /\ channel' = [channel EXCEPT ![r][n] = Append(@, message)]
        /\ events'[r] \in Seq(Events) /\ ListOk(events'[r], r, stop[r])
        /\ events' = [events EXCEPT ![r] = events'[r]]
    BY <2>1, SendPacketTypes
  <2> HIDE DEF message
  <2>4. DOMAIN channel' = Ranks /\ \A s \in Ranks : channel'[s] \in [Neighbours(s) -> Seq(Messages)]
    BY <2>3, SendTypes
  <2>5. events' \in [Ranks -> Seq(Events)] /\ \A s \in Ranks : ListOk(events'[s], s, stop'[s])
    BY <1>1, <2>2, <2>3
  <2>6. calls' \in [Ranks -> Nat]
    BY <2>2 DEF TypeInv, TypeOK
  <2> QED
    BY <2>2, <2>4, <2>5, <2>6 DEF TypeInv, TypeOK
<1>4. ASSUME NEW r \in Ranks, HandlerReturns(r)
      PROVE  TypeInv'
  BY <1>4 DEF HandlerReturns, TypeInv, TypeOK
<1>5. ASSUME NEW r \in Ranks, ProcessApp(r)
      PROVE  TypeInv'
  <2>1. TakeEvent(r, {"app", "sent"}) /\ events' = [events EXCEPT ![r] = Tail(events[r])]
    BY <1>5 DEF ProcessApp
  <2>2. events[r][1].kind \in {"app", "sent"}
    BY <2>1, TakeTypes
  <2>3. /\ currentTs' \in [Ranks -> Times]
        /\ Tail(events[r]) \in Seq(Events) /\ ListOk(Tail(events[r]), r, stop[r])
    BY <2>1, <2>2, TakeTypes
  <2>4. events' \in [Ranks -> Seq(Events)] /\ \A s \in Ranks : ListOk(events'[s], s, stop'[s])
    BY <1>1, <1>5, <2>1, <2>3 DEF ProcessApp
  <2>5. pc' \in [Ranks -> {"loop", "handler", "arriving", "returned"}]
    BY <1>5 DEF ProcessApp, TypeInv, TypeOK
  <2> QED
    BY <1>5, <2>3, <2>4, <2>5 DEF ProcessApp, TypeInv, TypeOK
<1>6. ASSUME NEW r \in Ranks, ProcessStop(r)
      PROVE  TypeInv'
  <2>1. /\ TakeEvent(r, {"stop"}) /\ events' = [events EXCEPT ![r] = Tail(events[r])]
        /\ stop' = [stop EXCEPT ![r] = TRUE]
    BY <1>6 DEF ProcessStop
  <2>2. events[r][1].kind \in {"stop"}
    BY <2>1, TakeTypes
  <2>3. PICK stopped \in BOOLEAN : stopped = (events[r][1].kind = "stop")
    OBVIOUS
  <2>4. /\ currentTs' \in [Ranks -> Times]
        /\ Tail(events[r]) \in Seq(Events) /\ ListOk(Tail(events[r]), r, stopped)
    BY <2>1, <2>3, TakeTypes, Zenon
  <2>5. stop' = [stop EXCEPT ![r] = stopped]
    BY <2>1, <2>2, <2>3
  <2>6. /\ events' \in [Ranks -> Seq(Events)] /\ stop' \in [Ranks -> BOOLEAN]
        /\ \A s \in Ranks : ListOk(events'[s], s, stop'[s])
    BY <2>1, <2>4, <2>5, ListsUpdated
  <2>7. pc' \in [Ranks -> {"loop", "handler", "arriving", "returned"}]
    BY <1>6 DEF ProcessStop, TypeInv, TypeOK
  <2> QED
    BY <1>6, <2>4, <2>6, <2>7 DEF ProcessStop, TypeInv, TypeOK
<1>7. ASSUME NEW r \in Ranks, NullMessageEventHandler(r)
      PROVE  TypeInv'
  <2>1. /\ TakeEvent(r, {"null"}) /\ UNCHANGED <<stop, safeTime, guarantee, calls>>
        /\ pc' = [pc EXCEPT ![r] = "arriving"]
    BY <1>7 DEF NullMessageEventHandler
  <2>2. pc' \in [Ranks -> {"loop", "handler", "arriving", "returned"}]
    BY <2>1 DEF TypeInv, TypeOK
  <2>3. events[r][1].kind \in {"null"}
    BY <2>1, TakeTypes
  <2>4. /\ currentTs' \in [Ranks -> Times]
        /\ Tail(events[r]) \in Seq(Events) /\ ListOk(Tail(events[r]), r, stop[r])
    BY <2>1, <2>3, TakeTypes
  <2>5. CASE events[r][1].cancelled
    <3>1. events' = [events EXCEPT ![r] = Tail(events[r])] /\ channel' = channel
      BY <1>7, <2>5 DEF NullMessageEventHandler
    <3>2. events' \in [Ranks -> Seq(Events)] /\ \A s \in Ranks : ListOk(events'[s], s, stop'[s])
      BY <1>1, <2>1, <2>4, <3>1
    <3> QED
      BY <2>1, <2>2, <2>4, <3>1, <3>2 DEF TypeInv, TypeOK
  <2>6. CASE ~events[r][1].cancelled
    <3> DEFINE n == events[r][1].to
               message == NullMessage(CalculateGuaranteeTime(r, n, Tail(events[r])))
               longer == ScheduleNullMessageEvent(Tail(events[r]), r, n, events[r][1].ts)
    <3>1. /\ n \in Neighbours(r) /\ message \in Messages
          /\ channel' = [channel EXCEPT ![r][n] = Append(@, message)]
          /\ events' = [events EXCEPT ![r] = longer]
          /\ longer \in Seq(Events) /\ ListOk(longer, r, stop[r])
      BY <1>7, <2>6, NullMessageSends
    <3> HIDE DEF n, message, longer
    <3>2. DOMAIN channel' = Ranks /\ \A s \in Ranks : channel'[s] \in [Neighbours(s) -> Seq(Messages)]
      BY <3>1, SendTypes
    <3>3. events' \in [Ranks -> Seq(Events)] /\ \A s \in Ranks : ListOk(events'[s], s, stop'[s])
      BY <1>1, <2>1, <3>1
    <3> QED
      BY <2>1, <2>2, <2>4, <3>2, <3>3 DEF TypeInv, TypeOK
  <2> QED
    BY <2>5, <2>6
<1>8. ASSUME NEW r \in Ranks, NEW n \in Neighbours(r), ReceiveMessage(r, n), stop' = stop
      PROVE  /\ events' \in [Ranks -> Seq(Events)] /\ \A s \in Ranks : ListOk(events'[s], s, stop'[s])
             /\ DOMAIN guarantee' = Ranks /\ DOMAIN channel' = Ranks
             /\ \A s \in Ranks : /\ guarantee'[s] \in [Neighbours(s) -> Nat]
                                  /\ channel'[s] \in [Neighbours(s) -> Seq(Messages)]
  <2> DEFINE message == Head(channel[n][r])
             longer == InsertEvent(events[r], App(message.time))
             rest == Tail(channel[n][r])
  <2>1. /\ message \in Messages /\ rest \in Seq(Messages)
        /\ channel' = [channel EXCEPT ![n][r] = rest]
        /\ guarantee' = [guarantee EXCEPT ![r][n] = message.guarantee]
        /\ guarantee'[r] \in [Neighbours(r) -> Nat]
        /\ message.time # 0 => /\ events' = [events EXCEPT ![r] = longer]
                               /\ longer \in Seq(Events) /\ ListOk(longer, r, stop[r])
        /\ message.time = 0 => events' = events
    BY <1>8, ReceiveTypes
  <2>2. n \in Ranks /\ r \in Neighbours(n)
    BY RankConstants
  <2> HIDE DEF message, longer, rest
  <2>3. DOMAIN channel = Ranks /\ \A s \in Ranks : channel[s] \in [Neighbours(s) -> Seq(Messages)]
    BY DEF TypeInv, TypeOK
  <2>4. DOMAIN channel' = Ranks /\ \A s \in Ranks : channel'[s] \in [Neighbours(s) -> Seq(Messages)]
    BY <2>1, <2>2, <2>3, ChannelsUpdated
  <2>5. DOMAIN guarantee' = Ranks /\ \A s \in Ranks : s # r => guarantee'[s] = guarantee[s]
    BY <2>1 DEF TypeInv, TypeOK
  <2>6. \A s \in Ranks : guarantee'[s] \in [Neighbours(s) -> Nat]
    BY <2>1, <2>5 DEF TypeInv, TypeOK
  <2>7. events' \in [Ranks -> Seq(Events)] /\ \A s \in Ranks : ListOk(events'[s], s, stop'[s])
    <3>1. CASE message.time # 0
      BY <1>1, <1>8, <2>1, <3>1
    <3>2. CASE message.time = 0
      BY <1>8, <2>1, <3>2 DEF TypeInv, TypeOK
    <3> QED
      BY <3>1, <3>2
  <2> QED
    BY <2>4, <2>5, <2>6, <2>7
<1>9. ASSUME NEW r \in Ranks, guarantee'[r] \in [Neighbours(r) -> Nat], CalculateSafeTime(r)
      PROVE  safeTime' \in [Ranks -> 0 .. Infinity]
  <2> DEFINE t == Min({Infinity} \cup Range(guarantee'[r]))
  <2>1. t \in 0 .. Infinity
    BY <1>9, SafeTimeType
  <2>2. safeTime' = [safeTime EXCEPT ![r] = t]
    BY <1>9 DEF CalculateSafeTime
  <2> HIDE DEF t
  <2> QED
    BY <2>1, <2>2 DEF TypeInv, TypeOK
<1>10. ASSUME NEW r \in Ranks, ReceiveMessagesNonBlocking(r)
       PROVE  TypeInv'
  <2>1. PICK n \in Neighbours(r) : ReceiveMessage(r, n)
    BY <1>10 DEF ReceiveMessagesNonBlocking
  <2>2. UNCHANGED <<pc, currentTs, stop, safeTime, calls>>
    BY <1>10 DEF ReceiveMessagesNonBlocking
  <2> QED
    BY <1>8, <2>1, <2>2 DEF TypeInv, TypeOK
<1>11. ASSUME NEW r \in Ranks, NoMessageHasArrived(r)
       PROVE  TypeInv'
  <2>1. /\ UNCHANGED <<events, currentTs, stop, guarantee, channel, calls>> /\ CalculateSafeTime(r)
        /\ pc' = [pc EXCEPT ![r] = "loop"]
    BY <1>11 DEF NoMessageHasArrived
  <2>2. guarantee'[r] \in [Neighbours(r) -> Nat]
    BY <2>1 DEF TypeInv, TypeOK
  <2>3. safeTime' \in [Ranks -> 0 .. Infinity]
    BY <1>9, <2>1, <2>2
  <2> QED
    BY <2>1, <2>3 DEF TypeInv, TypeOK
<1>12. ASSUME NEW r \in Ranks, HandleArrivingMessagesBlocking(r)
       PROVE  TypeInv'
  <2>1. CalculateSafeTime(r) /\ UNCHANGED <<pc, currentTs, stop, calls>>
    BY <1>12 DEF HandleArrivingMessagesBlocking
  <2>2. CASE UNCHANGED <<events, guarantee, channel>>
    <3>1. guarantee'[r] \in [Neighbours(r) -> Nat]
      BY <2>2 DEF TypeInv, TypeOK
    <3>2. safeTime' \in [Ranks -> 0 .. Infinity]
      BY <1>9, <2>1, <3>1
    <3> QED
      BY <2>1, <2>2, <3>2 DEF TypeInv, TypeOK
  <2>3. ASSUME NEW n \in Neighbours(r), ReceiveMessage(r, n)
        PROVE  TypeInv'
    <3>1. guarantee'[r] \in [Neighbours(r) -> Nat]
      BY <1>8, <2>1, <2>3
    <3>2. safeTime' \in [Ranks -> 0 .. Infinity]
      BY <1>9, <2>1, <3>1
    <3> QED
      BY <1>8, <2>1, <2>3, <3>2 DEF TypeInv, TypeOK
  <2> QED
    BY <1>12, <2>2, <2>3, BlockingReceives
<1>13. ASSUME NEW r \in Ranks, RunReturns(r)
       PROVE  TypeInv'
  BY <1>13 DEF RunReturns, TypeInv, TypeOK
<1>14. CASE UNCHANGED vars
  BY <1>14 DEF vars, TypeInv, TypeOK
<1> QED
  BY <1>2, <1>3, <1>4, <1>5, <1>6, <1>7, <1>10, <1>11, <1>12, <1>13, <1>14 DEF Next, RankStep

\* Every member of every rank and every message keeps its type, and every event
\* list is one the bundles and devices of its rank can have made: see ListOk.
THEOREM NullMessageTypeCorrect == Spec => []TypeInv
BY InitType, StepType, PTL DEF Spec

------------------------------------------------------------------------------
(* What a guarantee says of the events of the rank that gives it.            *)

\* While the device to x is busy, only the end of its transmission lets another
\* packet go; otherwise any event but a null event may.
SentTo(event, x) == event.kind = "sent" /\ event.to = x
Busy(list, x) == \E i \in DOMAIN list : SentTo(list[i], x)
MaySend(list, x, event) == event.kind # "null" /\ (Busy(list, x) => SentTo(event, x))
Sound(list, x, p, d) == \A i \in DOMAIN list : MaySend(list, x, list[i]) => p <= list[i].ts + d

LEMMA SoundAfterInsertion ==
  ASSUME NEW list \in Seq(Events), NEW longer \in Seq(Events), NEW k, NEW event \in Events,
         Lengthened(list, longer, k, event), NEW x, NEW p, NEW d,
         Sound(list, x, p, d), MaySend(longer, x, event) => p <= event.ts + d
  PROVE  /\ Sound(longer, x, p, d)
         /\ Busy(longer, x) <=> Busy(list, x) \/ SentTo(event, x)
<1>1. /\ k \in DOMAIN longer /\ longer[k] = event
      /\ \A i \in DOMAIN list : \E j \in DOMAIN longer : longer[j] = list[i]
      /\ \A j \in DOMAIN longer : longer[j] = event \/ \E i \in DOMAIN list : longer[j] = list[i]
  <2>1. longer[k] = event
    BY DEF Lengthened
  <2> QED
    BY <2>1, ElementsOfLengthened
<1>2. Busy(longer, x) <=> Busy(list, x) \/ SentTo(event, x)
  BY <1>1 DEF Busy
<1>3. ASSUME NEW i \in DOMAIN list, MaySend(longer, x, list[i])
      PROVE  MaySend(list, x, list[i])
  BY <1>2, <1>3 DEF MaySend
<1>4. ASSUME NEW j \in DOMAIN longer, MaySend(longer, x, longer[j])
      PROVE  p <= longer[j].ts + d
  <2>1. CASE longer[j] = event
    BY <1>4, <2>1
  <2>2. ASSUME NEW i \in DOMAIN list, longer[j] = list[i]
        PROVE  p <= longer[j].ts + d
    BY <1>3, <1>4, <2>2 DEF Sound
  <2> QED
    BY <1>1, <2>1, <2>2
<1> QED
  BY <1>2, <1>4 DEF Sound

LEMMA SoundAfterTail ==
  ASSUME NEW list \in Seq(Events), list # <<>>, Ordered(list), NEW x, NEW p \in Nat, NEW d \in Nat,
         Sound(list, x, p, d)
  PROVE  /\ Sound(Tail(list), x, p, d)
         /\ list[1].kind # "null" /\ ~Busy(Tail(list), x) => p <= list[1].ts + d
<1> DEFINE tail == Tail(list)  event == list[1]
<1>1. /\ event \in Events /\ \A i \in DOMAIN list : event.ts <= list[i].ts
      /\ tail \in Seq(Events) /\ Lengthened(tail, list, 1, event)
  BY EventTimes, TailIsOrdered
<1>2. /\ 1 \in DOMAIN list /\ event \in Events
      /\ \A i \in DOMAIN tail : \E j \in DOMAIN list : list[j] = tail[i]
      /\ \A j \in DOMAIN list : list[j] = event \/ \E i \in DOMAIN tail : list[j] = tail[i]
  <2> HIDE DEF tail, event
  <2> QED
    BY <1>1, ElementsOfLengthened
<1>3. Busy(list, x) <=> Busy(tail, x) \/ SentTo(event, x)
  <2> HIDE DEF tail
  <2> QED
    BY <1>2 DEF Busy
<1>4. event.kind # "null" /\ ~Busy(tail, x) => p <= event.ts + d
  <2>1. event.kind # "null" /\ ~Busy(tail, x) => MaySend(list, x, event)
    BY <1>3 DEF MaySend
  <2> QED
    BY <1>2, <2>1 DEF Sound
<1>5. ASSUME NEW i \in DOMAIN tail, MaySend(tail, x, tail[i])
      PROVE  p <= tail[i].ts + d
  <2>1. PICK j \in DOMAIN list : list[j] = tail[i]
    BY <1>2
  <2>2. tail[i].ts \in Nat /\ event.ts \in Nat /\ event.ts <= tail[i].ts
    BY <1>1, <2>1, EventTimes
  <2>3. CASE MaySend(list, x, tail[i])
    BY <2>1, <2>3 DEF Sound
  <2>4. CASE ~MaySend(list, x, tail[i])
    <3>1. SentTo(event, x) /\ ~Busy(tail, x)
      BY <1>3, <1>5, <2>4 DEF MaySend
    <3>2. p <= event.ts + d
      BY <1>4, <3>1 DEF SentTo
    <3> HIDE DEF tail, event
    <3> QED
      BY <2>2, <3>2
  <2> QED
    BY <2>3, <2>4
<1> QED
  BY <1>4, <1>5 DEF Sound

LEMMA SoundIfAlike ==
  ASSUME NEW list \in Seq(Events), NEW other \in Seq(Events), DOMAIN other = DOMAIN list,
         Alike(list, other), NEW x, NEW p, NEW d, Sound(list, x, p, d)
  PROVE  Sound(other, x, p, d) /\ (Busy(other, x) <=> Busy(list, x))
<1>1. \A i \in DOMAIN list : other[i].ts = list[i].ts /\ other[i].kind = list[i].kind
  BY DEF Alike
<1>2. \A i \in DOMAIN list : SentTo(other[i], x) = SentTo(list[i], x)
  BY DEF Alike, SentTo
<1>3. Busy(other, x) = Busy(list, x)
  BY <1>2 DEF Busy
<1>4. \A i \in DOMAIN list : MaySend(other, x, other[i]) = MaySend(list, x, list[i])
  BY <1>1, <1>2, <1>3 DEF MaySend
<1>5. ASSUME NEW i \in DOMAIN other, MaySend(other, x, other[i])
      PROVE  p <= other[i].ts + d
  <2>1. MaySend(list, x, list[i])
    BY <1>4, <1>5
  <2> QED
    BY <1>1, <2>1 DEF Sound
<1> QED
  BY <1>3, <1>5 DEF Sound

\* What is counted from the next event is sound.
LEMMA SoundFromNext ==
  ASSUME NEW list \in Seq(Events), Ordered(list), 1 \in DOMAIN list, NEW x, NEW p \in Nat,
         NEW d \in Nat, p <= list[1].ts + d
  PROVE  Sound(list, x, p, d)
<1>1. ASSUME NEW i \in DOMAIN list
      PROVE  p <= list[i].ts + d
  <2>1. list[1].ts \in Nat /\ list[i].ts \in Nat /\ DOMAIN list = 1 .. Len(list) /\ Len(list) \in Nat
    BY EventTimes
  <2>2. list[1].ts <= list[i].ts
    BY <2>1 DEF Ordered
  <2> QED
    BY <2>1, <2>2
<1> QED
  BY <1>1 DEF Sound

\* Null events do not send packets.
LEMMA SoundAfterNullEvent ==
  ASSUME NEW r \in Ranks, NEW n \in Neighbours(r), NEW list \in Seq(Events), NEW now \in Nat,
         NEW stopped, ListOk(list, r, stopped), NEW x, NEW p, NEW d, Sound(list, x, p, d)
  PROVE  /\ Sound(ScheduleNullMessageEvent(list, r, n, now), x, p, d)
         /\ Busy(ScheduleNullMessageEvent(list, r, n, now), x) <=> Busy(list, x)
<1> DEFINE longer == ScheduleNullMessageEvent(list, r, n, now)
<1>1. longer \in Seq(Events)
  BY NullEventInserted
<1>2. PICK k, t : /\ NullEvent(t, n) \in Events /\ t \in Nat
                  /\ Lengthened(list, longer, k, NullEvent(t, n))
  BY NullEventInserted
<1>3. NullEvent(t, n).kind = "null"
  BY DEF NullEvent
<1> DEFINE event == NullEvent(t, n)
<1>4. ~MaySend(longer, x, event) /\ ~SentTo(event, x)
  BY <1>3 DEF MaySend, SentTo
<1> HIDE DEF longer, event
<1>5. Sound(longer, x, p, d) /\ (Busy(longer, x) <=> Busy(list, x) \/ SentTo(event, x))
  BY <1>1, <1>2, <1>4, SoundAfterInsertion DEF event
<1> QED
  BY <1>4, <1>5 DEF longer

------------------------------------------------------------------------------
(* No packet arrives before a guarantee of its sender.                       *)

\* A step of one rank leaves the others as they are, but for their channels.
LEMMA OthersAlone ==
  ASSUME TypeInv, NEW r \in Ranks, RankStep(r), NEW n \in Ranks, n # r
  PROVE  /\ events'[n] = events[n] /\ pc'[n] = pc[n] /\ currentTs'[n] = currentTs[n]
         /\ safeTime'[n] = safeTime[n] /\ guarantee'[n] = guarantee[n]
<1> DEFINE Alone == /\ events'[n] = events[n] /\ pc'[n] = pc[n] /\ currentTs'[n] = currentTs[n]
                    /\ safeTime'[n] = safeTime[n] /\ guarantee'[n] = guarantee[n]
<1>0. /\ DOMAIN events = Ranks /\ DOMAIN pc = Ranks /\ DOMAIN currentTs = Ranks
      /\ DOMAIN safeTime = Ranks /\ DOMAIN guarantee = Ranks
  BY DEF TypeInv, TypeOK
<1>1. Schedule(r) => Alone
  BY <1>0 DEF Schedule
<1>2. SendPacket(r) => Alone
  <2> SUFFICES ASSUME SendPacket(r) PROVE Alone
    OBVIOUS
  <2>1. PICK m, d, tx, list : Sends(r, m, d, tx, list)
    BY SendPacketSends
  <2>2. UNCHANGED <<pc, currentTs, stop, safeTime, guarantee>>
    BY SendPacketSends
  <2> QED
    BY <1>0, <2>1, <2>2 DEF Sends
<1>3. HandlerReturns(r) => Alone
  BY <1>0 DEF HandlerReturns
<1>4. ProcessApp(r) => Alone
  BY <1>0 DEF ProcessApp, TakeEvent
<1>5. ProcessStop(r) => Alone
  BY <1>0 DEF ProcessStop, TakeEvent
<1>6. NullMessageEventHandler(r) => Alone
  BY <1>0 DEF NullMessageEventHandler, TakeEvent
<1>7. \A m \in Neighbours(r) :
        ReceiveMessage(r, m) => events'[n] = events[n] /\ guarantee'[n] = guarantee[n]
  BY <1>0 DEF ReceiveMessage
<1>8. CalculateSafeTime(r) => safeTime'[n] = safeTime[n]
  BY <1>0 DEF CalculateSafeTime
<1>9. ReceiveMessagesNonBlocking(r) => Alone
  BY <1>7 DEF ReceiveMessagesNonBlocking
<1>10. NoMessageHasArrived(r) => Alone
  BY <1>0, <1>8 DEF NoMessageHasArrived
<1>11. HandleArrivingMessagesBlocking(r) => Alone
  BY <1>7, <1>8, BlockingReceives DEF HandleArrivingMessagesBlocking
<1>12. RunReturns(r) => Alone
  BY <1>0 DEF RunReturns
<1> QED
  BY <1>1, <1>2, <1>3, <1>4, <1>5, <1>6, <1>9, <1>10, <1>11, <1>12 DEF RankStep

\* The guarantee p that n gave to x holds for what n may still send.
Promised(n, x, p) ==
  /\ Sound(events[n], x, p, Delay(n, x))
  /\ pc[n] = "handler" /\ ~Busy(events[n], x) => p <= currentTs[n] + Delay(n, x)

\* A[r][n]: the highest guarantee r has received from n.  What n has promised r
\* is that and what is on its way.
Given(A, n, r) ==
  {A[r][n]} \cup {channel[n][r][i].guarantee : i \in DOMAIN channel[n][r]}

\* p also holds for what n sends because of a packet that has yet to reach it.
Reach(A, n, x, p) == \A m \in Neighbours(n) : p <= A[n][m] + Delay(n, x)

\* From n to r: r does not run ahead of what it has been promised; packets keep
\* to it and to what was sent before them; n keeps its promises.
LinkInv(A, n, r) ==
  /\ safeTime[r] <= A[r][n] /\ guarantee[r][n] <= A[r][n] /\ currentTs[r] <= A[r][n]
  /\ \A j \in DOMAIN channel[n][r] : channel[n][r][j].time # 0 =>
       /\ A[r][n] <= channel[n][r][j].time
       /\ \A i \in 1 .. j - 1 : channel[n][r][i].guarantee <= channel[n][r][j].time
  /\ \A p \in Given(A, n, r) : Reach(A, n, r, p) /\ Promised(n, r, p)

LinksInv(A) ==
  /\ A \in [Ranks -> [Ranks -> Nat]]
  /\ \A r \in Ranks : NotPast(events[r], currentTs[r])
  /\ \A r \in Ranks : \A n \in Neighbours(r) : LinkInv(A, n, r)

GuaranteeInv == TypeInv /\ \E A : LinksInv(A)

LEMMA GivenType ==
  ASSUME TypeInv, NEW A, LinksInv(A), NEW r \in Ranks, NEW n \in Neighbours(r)
  PROVE  /\ Given(A, n, r) \subseteq Nat /\ A[r][n] \in Nat
         /\ \A i \in DOMAIN channel[n][r] : /\ channel[n][r][i] \in Messages
                                             /\ channel[n][r][i].time \in Nat
                                             /\ channel[n][r][i].guarantee \in Nat
                                             /\ channel[n][r][i].guarantee \in Given(A, n, r)
<1>1. channel[n][r] \in Seq(Messages) /\ n \in Ranks
  BY StateTypes, RankConstants
<1>2. A[r][n] \in Nat
  BY <1>1 DEF LinksInv
<1>3. \A i \in DOMAIN channel[n][r] : channel[n][r][i] \in Messages
  BY <1>1, ElementOfSeq
<1>4. \A m \in Messages : m.time \in Nat /\ m.guarantee \in Nat
  BY RankConstants DEF Messages
<1> QED
  BY <1>2, <1>3, <1>4 DEF Given

\* A packet received is not before what its receiver was promised.
LEMMA ReceivedInTime ==
  ASSUME TypeInv, NEW A, LinksInv(A), NEW r \in Ranks, NEW n \in Neighbours(r), ReceiveMessage(r, n)
  PROVE  LET message == Head(channel[n][r])
         IN /\ message.time \in Nat /\ message.guarantee \in Nat
            /\ message.guarantee \in Given(A, n, r)
            /\ message.time # 0 => A[r][n] <= message.time
            /\ A[r][n] \in Nat
<1> DEFINE message == Head(channel[n][r])
<1>1. message = channel[n][r][1] /\ channel[n][r] # <<>> /\ channel[n][r] \in Seq(Messages)
  BY ReceiveTypes, StateTypes
<1>2. 1 \in DOMAIN channel[n][r]
  BY <1>1
<1> HIDE DEF message
<1>3. message.time # 0 => A[r][n] <= message.time
  BY <1>1, <1>2 DEF LinksInv, LinkInv
<1> QED
  BY <1>1, <1>2, <1>3, GivenType DEF message

\* The end of the transmission to x is the only event that blocks the channel.
LEMMA DeviceIsFree ==
  ASSUME SingleChannels, TypeInv, NEW r \in Ranks, NEW n \in Neighbours(r), NEW d \in Links[r][n],
         ~IsBusy(r, n, d)
  PROVE  ~Busy(events[r], n) /\ d = Delay(r, n)
<1>1. n \in Ranks /\ Delay(r, n) \in Links[r][n]
  BY BundleDelays
<1>2. ASSUME NEW i \in DOMAIN events[r], SentTo(events[r][i], n)
      PROVE  FALSE
  <2>1. EventOk(events[r][i], r) /\ events[r][i].kind = "sent" /\ events[r][i].to = n
    BY <1>2 DEF TypeInv, ListOk, SentTo
  <2>2. events[r][i].delay \in Links[r][n]
    BY <2>1 DEF EventOk
  <2>3. events[r][i].delay = d
    BY <1>1, <2>2 DEF SingleChannels
  <2> QED
    BY <2>1, <2>3 DEF IsBusy
<1>3. d = Delay(r, n)
  BY <1>1 DEF SingleChannels
<1> QED
  BY <1>2, <1>3 DEF Busy

\* A promise outlives every step.
LEMMA PromiseIsKept ==
  ASSUME SingleChannels, TypeInv, NEW A, LinksInv(A), NEW r \in Ranks, RankStep(r),
         NEW x \in Neighbours(r), NEW p \in Nat, Reach(A, r, x, p), Promised(r, x, p)
  PROVE  Promised(r, x, p)'
<1> DEFINE list == events[r]
<1>0. /\ list \in Seq(Events) /\ ListOk(list, r, stop[r]) /\ Ordered(list)
      /\ currentTs[r] \in Nat /\ Delay(r, x) \in Nat /\ x \in Ranks
      /\ Sound(list, x, p, Delay(r, x))
      /\ pc[r] = "handler" /\ ~Busy(list, x) => p <= currentTs[r] + Delay(r, x)
      /\ r \in DOMAIN events /\ DOMAIN pc = Ranks
  BY StateTypes, BundleDelays DEF Promised, ListOk, TypeInv, TypeOK
<1>1. CASE Schedule(r)
  <2>1. PICK d \in Delays : events' = [events EXCEPT ![r] = InsertEvent(@, App(currentTs[r] + d))]
    BY <1>1 DEF Schedule
  <2> DEFINE event == App(currentTs[r] + d)  longer == InsertEvent(list, event)
  <2>2. d \in Nat /\ event \in Events /\ event.kind = "app" /\ event.ts = currentTs[r] + d
    <3>1. d \in Nat /\ currentTs[r] + d \in Nat
      BY <1>0, RankAssumption
    <3> QED
      BY <3>1, EventTypes
  <2>3. events'[r] = longer
    BY <1>0, <2>1
  <2> HIDE DEF event, list
  <2>4. longer \in Seq(Events) /\ \E k : Lengthened(list, longer, k, event)
    BY <1>0, <2>2, InsertEventOrdered
  <2>5. ~SentTo(event, x)
    BY <2>2 DEF SentTo
  <2>6. MaySend(longer, x, event) => p <= event.ts + Delay(r, x)
    <3>1. MaySend(longer, x, event) => ~Busy(longer, x)
      BY <2>5 DEF MaySend
    <3>2. Busy(list, x) => Busy(longer, x)
      <4> HIDE DEF longer
      <4>1. PICK k : Lengthened(list, longer, k, event)
        BY <2>4
      <4> QED
        BY <1>0, <2>2, <2>4, <4>1, ElementsOfLengthened DEF Busy
    <3>3. ~Busy(list, x) => p <= currentTs[r] + Delay(r, x)
      BY <1>0, <1>1 DEF Schedule
    <3> QED
      BY <1>0, <2>2, <3>1, <3>2, <3>3
  <2>7. Sound(longer, x, p, Delay(r, x)) /\ (Busy(longer, x) <=> Busy(list, x))
    <3> HIDE DEF longer
    <3> QED
      BY <1>0, <2>2, <2>4, <2>5, <2>6, SoundAfterInsertion
  <2> HIDE DEF longer
  <2>8. UNCHANGED <<pc, currentTs>>
    BY <1>1 DEF Schedule
  <2> QED
    BY <1>0, <2>3, <2>7, <2>8 DEF Promised
<1>2. CASE SendPacket(r)
  <2>1. PICK n, d, tx, more : Sends(r, n, d, tx, more)
    BY <1>2, SendPacketSends
  <2>2. pc[r] = "handler" /\ UNCHANGED <<pc, currentTs>>
    BY <1>2, SendPacketSends
  <2> DEFINE event == TransmitComplete(currentTs[r] + tx, n, d)
             other == Cancelled(more, n)
             longer == ScheduleNullMessageEvent(other, r, n, currentTs[r])
  <2>3. /\ n \in Neighbours(r) /\ d \in Links[r][n] /\ ~IsBusy(r, n, d)
        /\ events' = [events EXCEPT ![r] = longer]
    BY <2>1 DEF Sends
  <2>4. /\ tx \in Nat /\ d \in Nat /\ n \in Ranks /\ event \in Events /\ more \in Seq(Events)
        /\ \E k : Lengthened(list, more, k, event)
        /\ other \in Seq(Events) /\ ListOk(other, r, stop[r])
    BY <2>1, StateTypes, SendsFacts
  <2>5. event.kind = "sent" /\ event.to = n /\ event.ts = currentTs[r] + tx
    BY DEF TransmitComplete
  <2>6. ~Busy(list, n)
    BY <2>3, DeviceIsFree
  <2>7. events'[r] = longer
    BY <1>0, <2>3
  <2> HIDE DEF event, list, longer, other
  <2>8. PICK k : Lengthened(list, more, k, event)
    BY <2>4
  <2>9. MaySend(more, x, event) => p <= event.ts + Delay(r, x)
    <3>1. CASE x = n
      <4>1. p <= currentTs[r] + Delay(r, x)
        BY <1>0, <2>2, <2>6, <3>1
      <4> QED
        BY <1>0, <2>4, <2>5, <4>1
    <3>2. CASE x # n
      <4>1. ~SentTo(event, x)
        BY <2>5, <3>2 DEF SentTo
      <4>2. MaySend(more, x, event) => ~Busy(list, x)
        BY <1>0, <2>4, <2>8, <4>1, ElementsOfLengthened DEF Busy, MaySend
      <4> QED
        BY <1>0, <2>2, <2>4, <2>5, <4>2
    <3> QED
      BY <3>1, <3>2
  <2>10. /\ Sound(more, x, p, Delay(r, x))
         /\ Busy(more, x) <=> Busy(list, x) \/ SentTo(event, x)
    BY <1>0, <2>4, <2>8, <2>9, SoundAfterInsertion
  <2>11. Sound(other, x, p, Delay(r, x)) /\ (Busy(other, x) <=> Busy(more, x))
    <3>1. /\ other \in Seq(Events) /\ DOMAIN other = DOMAIN more /\ Alike(more, other)
      BY <2>4, CancelledIsAlike DEF other
    <3> QED
      BY <2>4, <2>10, <3>1, SoundIfAlike
  <2>12. Sound(longer, x, p, Delay(r, x)) /\ (Busy(longer, x) <=> Busy(other, x))
    BY <1>0, <2>3, <2>4, <2>11, SoundAfterNullEvent DEF longer
  <2>13. ~Busy(longer, x) => p <= currentTs[r] + Delay(r, x)
    BY <1>0, <2>2, <2>10, <2>11, <2>12
  <2> QED
    BY <2>2, <2>7, <2>12, <2>13 DEF Promised
<1>3. CASE HandlerReturns(r)
  <2>1. events' = events /\ pc'[r] = "arriving"
    BY <1>0, <1>3 DEF HandlerReturns
  <2> QED
    BY <1>0, <2>1 DEF Promised
<1>4. ASSUME NEW kinds, TakeEvent(r, kinds), events[r][1].kind # "null",
             events' = [events EXCEPT ![r] = Tail(events[r])]
      PROVE  Promised(r, x, p)'
  <2>1. /\ list # <<>> /\ currentTs'[r] = list[1].ts
    BY <1>4, TakeTypes
  <2>2. events'[r] = Tail(list)
    BY <1>0, <1>4
  <2>3. list[1].kind # "null"
    BY <1>4
  <2> HIDE DEF list
  <2>4. /\ Sound(Tail(list), x, p, Delay(r, x))
        /\ ~Busy(Tail(list), x) => p <= list[1].ts + Delay(r, x)
    BY <1>0, <2>1, <2>3, SoundAfterTail
  <2> QED
    BY <2>1, <2>2, <2>4 DEF Promised
<1>5. CASE ProcessApp(r)
  <2>1. TakeEvent(r, {"app", "sent"}) /\ events' = [events EXCEPT ![r] = Tail(events[r])]
    BY <1>5 DEF ProcessApp
  <2>2. events[r][1].kind \in {"app", "sent"}
    BY <2>1, TakeTypes
  <2> QED
    BY <1>4, <2>1, <2>2
<1>6. CASE ProcessStop(r)
  <2>1. TakeEvent(r, {"stop"}) /\ events' = [events EXCEPT ![r] = Tail(events[r])]
    BY <1>6 DEF ProcessStop
  <2>2. events[r][1].kind \in {"stop"}
    BY <2>1, TakeTypes
  <2> QED
    BY <1>4, <2>1, <2>2
<1>7. CASE NullMessageEventHandler(r)
  <2>1. /\ TakeEvent(r, {"null"}) /\ pc' = [pc EXCEPT ![r] = "arriving"]
    BY <1>7 DEF NullMessageEventHandler
  <2>2. pc'[r] = "arriving" /\ list # <<>> /\ list[1].kind \in {"null"} /\ list[1].ts \in Nat
    BY <1>0, <2>1, TakeTypes
  <2>3. Tail(list) \in Seq(Events) /\ ListOk(Tail(list), r, stop[r])
    BY <2>1, <2>2, TakeTypes
  <2>4. Sound(Tail(list), x, p, Delay(r, x))
    <3> HIDE DEF list
    <3> QED
      BY <1>0, <2>2, SoundAfterTail
  <2>5. CASE list[1].cancelled
    <3>1. events'[r] = Tail(list)
      BY <1>0, <1>7, <2>5 DEF NullMessageEventHandler
    <3> QED
      BY <2>2, <2>4, <3>1 DEF Promised
  <2>6. CASE ~list[1].cancelled
    <3> DEFINE longer == ScheduleNullMessageEvent(Tail(list), r, list[1].to, list[1].ts)
    <3>1. list[1].to \in Neighbours(r) /\ events' = [events EXCEPT ![r] = longer]
      BY <1>7, <2>6, NullMessageSends
    <3>2. events'[r] = longer
      BY <1>0, <3>1
    <3>3. Sound(longer, x, p, Delay(r, x))
      <4> HIDE DEF list
      <4> QED
        BY <2>2, <2>3, <2>4, <3>1, SoundAfterNullEvent
    <3> HIDE DEF longer
    <3> QED
      BY <2>2, <3>2, <3>3 DEF Promised
  <2> QED
    BY <2>5, <2>6
<1>8. ASSUME NEW n \in Neighbours(r), ReceiveMessage(r, n), pc[r] # "handler"
      PROVE  Sound(events'[r], x, p, Delay(r, x))
  <2> DEFINE message == Head(channel[n][r])
             event == App(message.time)
             longer == InsertEvent(list, event)
  <2>1. /\ message.time \in Nat /\ A[r][n] \in Nat
        /\ message.time # 0 => A[r][n] <= message.time
    BY <1>8, ReceivedInTime
  <2>2. /\ message.time # 0 => events' = [events EXCEPT ![r] = longer]
        /\ message.time = 0 => events' = events
    BY <1>8, ReceiveTypes
  <2>3. event \in Events /\ event.kind = "app" /\ event.ts = message.time
    <3> HIDE DEF message
    <3> QED
      BY <2>1, EventTypes
  <2>4. p <= A[r][n] + Delay(r, x)
    BY DEF Reach
  <2>5. message.time # 0 => events'[r] = longer
    BY <1>0, <2>2
  <2> HIDE DEF message, event, list
  <2>6. longer \in Seq(Events) /\ \E k : Lengthened(list, longer, k, event)
    BY <1>0, <2>3, InsertEventOrdered
  <2>7. CASE message.time # 0
    <3>1. p <= event.ts + Delay(r, x)
      BY <1>0, <2>1, <2>3, <2>4, <2>7
    <3> HIDE DEF longer
    <3>2. Sound(longer, x, p, Delay(r, x))
      BY <1>0, <2>3, <2>6, <3>1, SoundAfterInsertion
    <3> QED
      BY <2>5, <2>7, <3>2
  <2>8. CASE message.time = 0
    BY <1>0, <2>2, <2>8 DEF list
  <2> QED
    BY <2>7, <2>8
<1>9. CASE ReceiveMessagesNonBlocking(r)
  <2>1. PICK n \in Neighbours(r) : ReceiveMessage(r, n)
    BY <1>9 DEF ReceiveMessagesNonBlocking
  <2>2. pc[r] = "arriving" /\ pc' = pc
    BY <1>9 DEF ReceiveMessagesNonBlocking
  <2> QED
    BY <1>8, <2>1, <2>2 DEF Promised
<1>10. CASE NoMessageHasArrived(r)
  <2>1. events' = events /\ pc'[r] = "loop"
    BY <1>0, <1>10 DEF NoMessageHasArrived
  <2> QED
    BY <1>0, <2>1 DEF Promised
<1>11. CASE HandleArrivingMessagesBlocking(r)
  <2>1. pc[r] = "loop" /\ pc' = pc
    BY <1>11 DEF HandleArrivingMessagesBlocking
  <2>2. CASE UNCHANGED <<events, guarantee, channel>>
    BY <2>1, <2>2 DEF Promised
  <2>3. CASE \E n \in Neighbours(r) : ReceiveMessage(r, n)
    BY <1>8, <2>1, <2>3 DEF Promised
  <2> QED
    BY <1>11, <2>2, <2>3, BlockingReceives
<1>12. CASE RunReturns(r)
  <2>1. events' = events /\ pc'[r] = "returned"
    BY <1>0, <1>12 DEF RunReturns
  <2> QED
    BY <1>0, <2>1 DEF Promised
<1> QED
  BY <1>1, <1>2, <1>3, <1>5, <1>6, <1>7, <1>9, <1>10, <1>11, <1>12 DEF RankStep

\* The clock of a rank and its safe time stay below what it has been promised.
LEMMA ClocksStayBelow ==
  ASSUME TypeInv, TypeInv', NEW A, LinksInv(A), NEW s \in Ranks, RankStep(s),
         NEW B \in [Ranks -> [Ranks -> Nat]],
         \A r \in Ranks : \A n \in Neighbours(r) :
           A[r][n] <= B[r][n] /\ guarantee'[r][n] <= B[r][n]
  PROVE  \A r \in Ranks : \A n \in Neighbours(r) :
           safeTime'[r] <= B[r][n] /\ currentTs'[r] <= B[r][n]
<1> SUFFICES ASSUME NEW r \in Ranks, NEW n \in Neighbours(r)
             PROVE  safeTime'[r] <= B[r][n] /\ currentTs'[r] <= B[r][n]
  OBVIOUS
<1>1. /\ n \in Ranks /\ A[r][n] \in Nat /\ B[r][n] \in Nat
      /\ A[r][n] <= B[r][n] /\ guarantee'[r][n] <= B[r][n]
      /\ safeTime[r] <= A[r][n] /\ currentTs[r] <= A[r][n]
      /\ safeTime[r] \in Nat /\ currentTs[r] \in Nat
  BY GivenType, StateTypes, RankConstants DEF LinksInv, LinkInv
<1>2. safeTime[r] <= B[r][n] /\ currentTs[r] <= B[r][n]
  BY <1>1
<1>3. CASE r # s
  BY <1>2, <1>3, OthersAlone
<1>4. CASE r = s
  <2>1. ASSUME NEW kinds, TakeEvent(s, kinds), safeTime' = safeTime
        PROVE  safeTime'[r] <= B[r][n] /\ currentTs'[r] <= B[r][n]
    <3>1. currentTs'[r] = events[r][1].ts /\ events[r][1].ts \in Nat /\ events[r][1].ts <= safeTime[r]
      BY <1>4, <2>1, TakeTypes
    <3> QED
      BY <1>1, <1>2, <2>1, <3>1
  <2>2. ASSUME CalculateSafeTime(s), currentTs' = currentTs
        PROVE  safeTime'[r] <= B[r][n] /\ currentTs'[r] <= B[r][n]
    <3>1. guarantee'[r] \in [Neighbours(r) -> Nat] /\ r \in DOMAIN safeTime /\ guarantee'[r][n] \in Nat
      BY DEF TypeInv, TypeOK
    <3> DEFINE t == Min({Infinity} \cup Range(guarantee'[r]))
    <3>2. t \in 0 .. Infinity /\ t <= guarantee'[r][n]
      BY <3>1, SafeTimeType
    <3>3. safeTime'[r] = t
      BY <1>4, <2>2, <3>1 DEF CalculateSafeTime
    <3> HIDE DEF t
    <3>4. t \in Nat
      BY <3>2, RankConstants
    <3> QED
      BY <1>1, <1>2, <2>2, <3>1, <3>2, <3>3, <3>4
  <2>3. ProcessApp(s) => TakeEvent(s, {"app", "sent"}) /\ safeTime' = safeTime
    BY DEF ProcessApp
  <2>4. ProcessStop(s) => TakeEvent(s, {"stop"}) /\ safeTime' = safeTime
    BY DEF ProcessStop
  <2>5. NullMessageEventHandler(s) => TakeEvent(s, {"null"}) /\ safeTime' = safeTime
    BY DEF NullMessageEventHandler
  <2>6. NoMessageHasArrived(s) \/ HandleArrivingMessagesBlocking(s) =>
          CalculateSafeTime(s) /\ currentTs' = currentTs
    BY DEF NoMessageHasArrived, HandleArrivingMessagesBlocking
  <2>7. Schedule(s) \/ SendPacket(s) \/ HandlerReturns(s) \/ ReceiveMessagesNonBlocking(s)
        \/ RunReturns(s) => UNCHANGED <<safeTime, currentTs>>
    BY DEF Schedule, SendPacket, HandlerReturns, ReceiveMessagesNonBlocking, RunReturns
  <2> QED
    BY <1>2, <2>1, <2>2, <2>3, <2>4, <2>5, <2>6, <2>7 DEF RankStep
<1> QED
  BY <1>3, <1>4

\* No step puts an event into the past of its rank.
LEMMA PastIsPast ==
  ASSUME TypeInv, NEW A, LinksInv(A), NEW r \in Ranks, RankStep(r)
  PROVE  NotPast(events'[r], currentTs'[r])
<1> DEFINE list == events[r]  now == currentTs[r]
<1>0. /\ list \in Seq(Events) /\ ListOk(list, r, stop[r]) /\ now \in Nat
      /\ NotPast(list, now) /\ r \in DOMAIN events
  BY StateTypes DEF LinksInv
<1>1. CASE Schedule(r)
  <2>1. PICK d \in Delays : events' = [events EXCEPT ![r] = InsertEvent(@, App(currentTs[r] + d))]
    BY <1>1 DEF Schedule
  <2> DEFINE event == App(now + d)
  <2>2. events'[r] = InsertEvent(list, event) /\ currentTs' = currentTs
    BY <1>0, <1>1, <2>1 DEF Schedule
  <2>3. d \in Nat /\ now + d \in Nat
    BY <1>0, RankAssumption
  <2>4. event \in Events /\ event.kind = "app" /\ event.ts = now + d
    <3> HIDE DEF now
    <3> QED
      BY <2>3, EventTypes
  <2>5. EventOk(event, r) /\ now <= event.ts
    BY <1>0, <2>3, <2>4 DEF EventOk
  <2> HIDE DEF event, list, now
  <2>6. NotPast(InsertEvent(list, event), now)
    BY <1>0, <2>4, <2>5, InsertionKeepsList
  <2> QED
    BY <2>2, <2>6 DEF now
<1>2. CASE SendPacket(r)
  <2>1. PICK n, d, tx, more : Sends(r, n, d, tx, more)
    BY <1>2, SendPacketSends
  <2>2. currentTs' = currentTs
    BY <1>2, SendPacketSends
  <2> DEFINE other == Cancelled(more, n)
             longer == ScheduleNullMessageEvent(other, r, n, now)
  <2>3. n \in Neighbours(r) /\ events' = [events EXCEPT ![r] = longer]
    BY <2>1 DEF Sends
  <2>4. /\ more \in Seq(Events) /\ ListOk(more, r, stop[r]) /\ NotPast(more, now)
        /\ other \in Seq(Events) /\ ListOk(other, r, stop[r])
    BY <1>0, <2>1, StateTypes, SendsFacts
  <2>5. events'[r] = longer
    BY <1>0, <2>3
  <2>6. NotPast(other, now)
    <3>1. /\ DOMAIN other = DOMAIN more /\ Alike(more, other)
      BY <2>4, CancelledIsAlike
    <3> HIDE DEF other, now
    <3> QED
      BY <2>4, <3>1, AlikeKeepsList
  <2> HIDE DEF other, now
  <2>7. NotPast(longer, now)
    BY <1>0, <2>3, <2>4, <2>6, NullEventInserted
  <2> QED
    BY <2>2, <2>5, <2>7 DEF now
<1>3. ASSUME NEW kinds, TakeEvent(r, kinds), events' = [events EXCEPT ![r] = Tail(events[r])]
      PROVE  NotPast(events'[r], currentTs'[r])
  <2>1. NotPast(Tail(list), list[1].ts) /\ currentTs'[r] = list[1].ts
    BY <1>3, TakeTypes
  <2>2. events'[r] = Tail(list)
    BY <1>0, <1>3
  <2> QED
    BY <2>1, <2>2
<1>4. CASE ProcessApp(r)
  BY <1>3, <1>4 DEF ProcessApp
<1>5. CASE ProcessStop(r)
  BY <1>3, <1>5 DEF ProcessStop
<1>6. CASE NullMessageEventHandler(r)
  <2>1. TakeEvent(r, {"null"})
    BY <1>6 DEF NullMessageEventHandler
  <2>2. CASE list[1].cancelled
    BY <1>3, <1>6, <2>1, <2>2 DEF NullMessageEventHandler
  <2>3. CASE ~list[1].cancelled
    <3> DEFINE longer == ScheduleNullMessageEvent(Tail(list), r, list[1].to, list[1].ts)
    <3>1. events' = [events EXCEPT ![r] = longer] /\ NotPast(longer, list[1].ts)
      BY <1>6, <2>3, NullMessageSends
    <3>2. events'[r] = longer
      BY <1>0, <3>1
    <3>3. currentTs'[r] = list[1].ts
      BY <2>1, TakeTypes
    <3> QED
      BY <3>1, <3>2, <3>3
  <2> QED
    BY <2>2, <2>3
<1>7. ASSUME NEW n \in Neighbours(r), ReceiveMessage(r, n), currentTs' = currentTs
      PROVE  NotPast(events'[r], currentTs'[r])
  <2> DEFINE message == Head(channel[n][r])  event == App(message.time)
  <2>1. /\ message.time \in Nat /\ A[r][n] \in Nat
        /\ message.time # 0 => A[r][n] <= message.time
    BY <1>7, ReceivedInTime
  <2>2. /\ message.time # 0 => events' = [events EXCEPT ![r] = InsertEvent(list, event)]
        /\ message.time = 0 => events' = events
    BY <1>7, ReceiveTypes
  <2>3. event \in Events /\ event.kind = "app" /\ event.ts = message.time
    <3> HIDE DEF message
    <3> QED
      BY <2>1, EventTypes
  <2>4. EventOk(event, r)
    BY <2>3 DEF EventOk
  <2>5. currentTs[r] <= A[r][n]
    BY DEF LinksInv, LinkInv
  <2>6. message.time # 0 => events'[r] = InsertEvent(list, event)
    BY <1>0, <2>2
  <2> HIDE DEF message, event, list, now
  <2>7. CASE message.time # 0
    <3>1. now <= event.ts
      BY <1>0, <2>1, <2>3, <2>5, <2>7 DEF now
    <3>2. NotPast(InsertEvent(list, event), now)
      BY <1>0, <2>3, <2>4, <3>1, InsertionKeepsList
    <3> QED
      BY <1>7, <2>6, <2>7, <3>2 DEF now
  <2>8. CASE message.time = 0
    BY <1>0, <1>7, <2>2, <2>8 DEF list, now
  <2> QED
    BY <2>7, <2>8
<1>8. CASE ReceiveMessagesNonBlocking(r)
  BY <1>7, <1>8 DEF ReceiveMessagesNonBlocking
<1>9. CASE HandleArrivingMessagesBlocking(r)
  <2>1. currentTs' = currentTs
    BY <1>9 DEF HandleArrivingMessagesBlocking
  <2>2. CASE UNCHANGED <<events, guarantee, channel>>
    BY <1>0, <2>1, <2>2
  <2>3. CASE \E n \in Neighbours(r) : ReceiveMessage(r, n)
    BY <1>7, <2>1, <2>3
  <2> QED
    BY <1>9, <2>2, <2>3, BlockingReceives
<1>10. HandlerReturns(r) \/ NoMessageHasArrived(r) \/ RunReturns(r) =>
         UNCHANGED <<events, currentTs>>
  BY DEF HandlerReturns, NoMessageHasArrived, RunReturns
<1> QED
  BY <1>0, <1>1, <1>2, <1>4, <1>5, <1>6, <1>8, <1>9, <1>10 DEF RankStep

\* What CalculateGuaranteeTime returns holds for the events of the list.
LEMMA NewPromise ==
  ASSUME TypeInv, NEW A, LinksInv(A), NEW r \in Ranks, NEW x \in Neighbours(r),
         NEW list \in Seq(Events), Ordered(list), 1 \in DOMAIN list
  PROVE  LET g == CalculateGuaranteeTime(r, x, list)
         IN g \in Nat /\ Reach(A, r, x, g) /\ Sound(list, x, g, Delay(r, x))
<1> DEFINE g == CalculateGuaranteeTime(r, x, list)
<1>1. /\ safeTime[r] \in Nat /\ Delay(r, x) \in Nat
  BY StateTypes, BundleDelays
<1>2. g \in Nat /\ g <= list[1].ts + Delay(r, x) /\ g <= safeTime[r] + Delay(r, x)
  BY <1>1, GuaranteeTimeType
<1> HIDE DEF g
<1>3. ASSUME NEW m \in Neighbours(r)
      PROVE  g <= A[r][m] + Delay(r, x)
  <2>1. safeTime[r] <= A[r][m] /\ A[r][m] \in Nat
    BY GivenType DEF LinksInv, LinkInv
  <2> QED
    BY <1>1, <1>2, <2>1
<1>4. Sound(list, x, g, Delay(r, x))
  BY <1>1, <1>2, SoundFromNext
<1> QED
  BY <1>2, <1>3, <1>4 DEF Reach, g

\* A message goes from r to n: r keeps its guarantee, and if it is a packet it
\* keeps to all that r has promised.
NewMessage(A, r, n, message) ==
  /\ n \in Neighbours(r) /\ message \in Messages
  /\ channel' = [channel EXCEPT ![r][n] = Append(@, message)]
  /\ guarantee' = guarantee
  /\ Reach(A, r, n, message.guarantee)
  /\ Promised(r, n, message.guarantee)'
  /\ message.time # 0 => \A p \in Given(A, r, n) : p <= message.time

LEMMA PacketIsNew ==
  ASSUME SingleChannels, TypeInv, NEW A, LinksInv(A), NEW r \in Ranks, SendPacket(r)
  PROVE  \E n, message : NewMessage(A, r, n, message)
<1>1. PICK n, d, tx, list : Sends(r, n, d, tx, list)
  BY SendPacketSends
<1>2. /\ pc[r] = "handler" /\ UNCHANGED <<pc, currentTs, guarantee>>
  BY SendPacketSends
<1> DEFINE g == CalculateGuaranteeTime(r, n, list)
           message == Packet(currentTs[r] + tx + d, g)
           event == TransmitComplete(currentTs[r] + tx, n, d)
           other == Cancelled(list, n)
           longer == ScheduleNullMessageEvent(other, r, n, currentTs[r])
<1>3. /\ message \in Messages /\ n \in Neighbours(r) /\ 1 \in DOMAIN list /\ list \in Seq(Events)
      /\ channel' = [channel EXCEPT ![r][n] = Append(@, message)]
  BY <1>1, SendPacketTypes
<1>4. /\ events[r] \in Seq(Events) /\ currentTs[r] \in Nat /\ r \in DOMAIN events
  BY StateTypes
<1>5. /\ d \in Nat /\ tx \in Nat /\ n \in Ranks /\ ListOk(list, r, stop[r])
      /\ event \in Events /\ \E k : Lengthened(events[r], list, k, event)
      /\ other \in Seq(Events) /\ ListOk(other, r, stop[r])
  BY <1>1, StateTypes, SendsFacts
<1>6. d \in Links[r][n] /\ ~IsBusy(r, n, d) /\ events' = [events EXCEPT ![r] = longer]
  BY <1>1 DEF Sends
<1>7. ~Busy(events[r], n) /\ d = Delay(r, n)
  BY <1>3, <1>6, DeviceIsFree
<1>8. g \in Nat /\ Reach(A, r, n, g) /\ Sound(list, n, g, Delay(r, n))
  BY <1>3, <1>5, NewPromise DEF ListOk
<1>9. message.time = currentTs[r] + tx + d /\ message.guarantee = g
  BY DEF Packet
<1>10. SentTo(event, n)
  <2>1. currentTs[r] + tx \in Nat
    BY <1>4, <1>5
  <2>2. event.kind = "sent" /\ event.to = n
    BY <1>5, <2>1, EventTypes
  <2> QED
    BY <2>2 DEF SentTo
<1>11. events'[r] = longer
  BY <1>4, <1>6
<1> HIDE DEF g, message, event, other, longer
<1>12. Sound(longer, n, g, Delay(r, n)) /\ Busy(longer, n)
  <2>1. Busy(list, n)
    BY <1>3, <1>4, <1>5, <1>10, ElementsOfLengthened DEF Busy, Lengthened
  <2>2. other \in Seq(Events) /\ DOMAIN other = DOMAIN list /\ Alike(list, other)
    BY <1>3, CancelledIsAlike DEF other
  <2>3. Sound(other, n, g, Delay(r, n)) /\ Busy(other, n)
    BY <1>3, <1>8, <2>1, <2>2, SoundIfAlike
  <2> QED
    BY <1>3, <1>4, <1>5, <2>3, SoundAfterNullEvent DEF longer
<1> PICK sent : sent = message
  OBVIOUS
<1>13. Promised(r, n, sent.guarantee)'
  <2> PICK h : h = g
    OBVIOUS
  <2>1. Promised(r, n, h)'
    BY <1>11, <1>12 DEF Promised
  <2>2. sent.guarantee = h
    BY <1>9
  <2> QED
    BY <2>1, <2>2
<1>14. ASSUME NEW p \in Given(A, r, n)
       PROVE  p <= sent.time
  <2>1. Promised(r, n, p) /\ p \in Nat /\ r \in Neighbours(n) /\ n \in Ranks
    BY <1>3, <1>14, GivenType, RankConstants DEF LinksInv, LinkInv
  <2>2. p <= currentTs[r] + Delay(r, n)
    BY <1>2, <1>7, <2>1 DEF Promised
  <2> QED
    BY <1>4, <1>5, <1>7, <1>9, <2>1, <2>2
<1>15. NewMessage(A, r, n, sent)
  BY <1>2, <1>3, <1>8, <1>9, <1>13, <1>14 DEF NewMessage
<1> QED
  BY <1>15

LEMMA NullMessageIsNew ==
  ASSUME TypeInv, NEW A, LinksInv(A), NEW r \in Ranks, NullMessageEventHandler(r),
         ~events[r][1].cancelled
  PROVE  \E n, message : NewMessage(A, r, n, message)
<1> DEFINE event == events[r][1]
           list == Tail(events[r])
           n == event.to
           g == CalculateGuaranteeTime(r, n, list)
           longer == ScheduleNullMessageEvent(list, r, n, event.ts)
<1>1. TakeEvent(r, {"null"}) /\ pc' = [pc EXCEPT ![r] = "arriving"] /\ guarantee' = guarantee
  BY DEF NullMessageEventHandler
<1>2. /\ n \in Neighbours(r) /\ 1 \in DOMAIN list /\ NullMessage(g) \in Messages
      /\ channel' = [channel EXCEPT ![r][n] = Append(@, NullMessage(g))]
      /\ events' = [events EXCEPT ![r] = longer]
  BY NullMessageSends
<1>3. /\ list \in Seq(Events) /\ event.ts \in Nat /\ ListOk(list, r, stop[r])
  <2>1. event.kind \in {"null"}
    BY <1>1, TakeTypes
  <2> QED
    BY <1>1, <2>1, TakeTypes
<1>4. events'[r] = longer /\ pc'[r] = "arriving"
  BY <1>1, <1>2, StateTypes DEF TypeInv, TypeOK
<1> HIDE DEF list, event
<1>5. g \in Nat /\ Reach(A, r, n, g) /\ Sound(list, n, g, Delay(r, n))
  BY <1>2, <1>3, NewPromise DEF ListOk
<1> HIDE DEF g, n
<1>6. Sound(longer, n, g, Delay(r, n))
  BY <1>2, <1>3, <1>5, SoundAfterNullEvent
<1> HIDE DEF longer
<1> PICK to, sent, h : to = n /\ sent = NullMessage(g) /\ h = g
  OBVIOUS
<1>7. sent.time = 0 /\ sent.guarantee = h
  BY DEF NullMessage, Packet
<1>8. Promised(r, to, h)'
  BY <1>4, <1>6 DEF Promised
<1>9. NewMessage(A, r, to, sent)
  BY <1>1, <1>2, <1>5, <1>7, <1>8 DEF NewMessage
<1> QED
  BY <1>9

\* Every promise of every rank outlives a step of one of them.
LEMMA PromisesAreKept ==
  ASSUME SingleChannels, TypeInv, NEW A, LinksInv(A), NEW s \in Ranks, RankStep(s),
         NEW r \in Ranks, NEW n \in Neighbours(r), NEW p \in Nat,
         Reach(A, n, r, p), Promised(n, r, p)
  PROVE  Promised(n, r, p)'
<1>1. n \in Ranks /\ r \in Neighbours(n)
  BY RankConstants
<1>2. CASE n = s
  BY <1>1, <1>2, PromiseIsKept
<1>3. CASE n # s
  <2>1. events'[n] = events[n] /\ pc'[n] = pc[n] /\ currentTs'[n] = currentTs[n]
    BY <1>1, <1>3, OthersAlone
  <2> QED
    BY <2>1 DEF Promised
<1> QED
  BY <1>2, <1>3

\* A step after which A still is the highest guarantee received.
LEMMA LinksWithoutReceipt ==
  ASSUME SingleChannels, TypeInv, TypeInv', NEW A, LinksInv(A), NEW s \in Ranks, RankStep(s),
         guarantee' = guarantee,
         channel' = channel \/ \E n, message : NewMessage(A, s, n, message)
  PROVE  LinksInv(A)'
<1>1. A \in [Ranks -> [Ranks -> Nat]]
  BY DEF LinksInv
<1>2. \A r \in Ranks : NotPast(events'[r], currentTs'[r])
  <2> SUFFICES ASSUME NEW r \in Ranks PROVE NotPast(events'[r], currentTs'[r])
    OBVIOUS
  <2>1. CASE r = s
    BY <2>1, PastIsPast
  <2>2. CASE r # s
    <3>1. events'[r] = events[r] /\ currentTs'[r] = currentTs[r]
      BY <2>2, OthersAlone
    <3> QED
      BY <3>1 DEF LinksInv
  <2> QED
    BY <2>1, <2>2
<1>3. ASSUME NEW r \in Ranks, NEW n \in Neighbours(r)
      PROVE  LinkInv(A, n, r)'
  <2>0. LinkInv(A, n, r) /\ n \in Ranks /\ r \in Neighbours(n)
    BY RankConstants DEF LinksInv
  <2>1. safeTime'[r] <= A[r][n] /\ currentTs'[r] <= A[r][n] /\ guarantee'[r][n] <= A[r][n]
    <3>1. \A q \in Ranks : \A m \in Neighbours(q) :
            A[q][m] <= A[q][m] /\ guarantee'[q][m] <= A[q][m]
      <4> SUFFICES ASSUME NEW q \in Ranks, NEW m \in Neighbours(q)
                   PROVE  A[q][m] <= A[q][m] /\ guarantee'[q][m] <= A[q][m]
        OBVIOUS
      <4>1. A[q][m] \in Nat /\ guarantee[q][m] <= A[q][m]
        BY GivenType DEF LinksInv, LinkInv
      <4> QED
        BY <4>1
    <3> QED
      BY <1>1, <3>1, ClocksStayBelow
  <2>2. \A p \in Given(A, n, r) : Reach(A, n, r, p) /\ Promised(n, r, p)'
    <3> SUFFICES ASSUME NEW p \in Given(A, n, r)
                 PROVE  Reach(A, n, r, p) /\ Promised(n, r, p)'
      OBVIOUS
    <3>1. p \in Nat /\ Reach(A, n, r, p) /\ Promised(n, r, p)
      BY <2>0, GivenType DEF LinkInv
    <3> QED
      BY <3>1, PromisesAreKept
  <2>3. CASE channel'[n][r] = channel[n][r]
    <3>1. Given(A, n, r)' = Given(A, n, r)
      BY <2>3 DEF Given
    <3>2. \A p \in Given(A, n, r)' : Reach(A, n, r, p) /\ Promised(n, r, p)'
      BY <2>2, <3>1
    <3>3. \A j \in DOMAIN channel'[n][r] : channel'[n][r][j].time # 0 =>
            /\ A[r][n] <= channel'[n][r][j].time
            /\ \A i \in 1 .. j - 1 : channel'[n][r][i].guarantee <= channel'[n][r][j].time
      BY <2>0, <2>3 DEF LinkInv
    <3> QED
      BY <2>1, <3>2, <3>3 DEF LinkInv, Reach
  <2>4. ASSUME NEW message, n = s, NewMessage(A, s, r, message)
        PROVE  LinkInv(A, n, r)'
    <3> DEFINE c == channel[n][r]  l == Len(channel[n][r])
    <3>1. /\ message \in Messages /\ Reach(A, n, r, message.guarantee)
          /\ Promised(n, r, message.guarantee)'
          /\ message.time # 0 => \A p \in Given(A, n, r) : p <= message.time
          /\ channel' = [channel EXCEPT ![n][r] = Append(@, message)]
      BY <2>4 DEF NewMessage
    <3>2. channel'[n][r] = Append(c, message)
      BY <2>0, <3>1, SendTypes
    <3>3. /\ c \in Seq(Messages) /\ l \in Nat /\ DOMAIN c = 1 .. l
      BY StateTypes, LenProperties
    <3>4. /\ DOMAIN channel'[n][r] = 1 .. l + 1
          /\ channel'[n][r][l + 1] = message
          /\ \A i \in 1 .. l : channel'[n][r][i] = c[i]
      BY <3>1, <3>2, <3>3, AppendProperties
    <3>5. Given(A, n, r)' = Given(A, n, r) \cup {message.guarantee}
      <4>1. \A i \in 1 .. l + 1 : i \in 1 .. l \/ i = l + 1
        BY <3>3
      <4>2. \A i \in 1 .. l : i \in 1 .. l + 1
        BY <3>3
      <4>3. l + 1 \in 1 .. l + 1
        BY <3>3
      <4> HIDE DEF l, c
      <4>4. {channel'[n][r][i].guarantee : i \in 1 .. l + 1} =
              {c[i].guarantee : i \in 1 .. l} \cup {message.guarantee}
        BY <3>4, <4>1, <4>2, <4>3
      <4> QED
        BY <3>3, <3>4, <4>4 DEF Given, c
    <3>6. \A p \in Given(A, n, r)' : Reach(A, n, r, p) /\ Promised(n, r, p)'
      <4> SUFFICES ASSUME NEW p \in Given(A, n, r) \cup {message.guarantee}
                   PROVE  Reach(A, n, r, p) /\ Promised(n, r, p)'
        BY <3>5
      <4>1. CASE p = message.guarantee
        BY <3>1, <4>1
      <4>2. CASE p \in Given(A, n, r)
        BY <2>2, <4>2
      <4> QED
        BY <4>1, <4>2
    <3>7. ASSUME NEW j \in 1 .. l + 1, channel'[n][r][j].time # 0
          PROVE  /\ A[r][n] <= channel'[n][r][j].time
                 /\ \A i \in 1 .. j - 1 : channel'[n][r][i].guarantee <= channel'[n][r][j].time
      <4>1. CASE j \in 1 .. l
        <5>1. channel'[n][r][j] = c[j] /\ \A i \in 1 .. j - 1 : channel'[n][r][i] = c[i]
          <6>1. l \in Nat
            BY <3>3
          <6> HIDE DEF l, c
          <6>2. \A i \in 1 .. j - 1 : i \in 1 .. l
            BY <4>1, <6>1
          <6> QED
            BY <3>4, <4>1, <6>2
        <5> QED
          BY <2>0, <3>3, <3>7, <4>1, <5>1 DEF LinkInv
      <4>2. CASE j = l + 1
        <5>1. channel'[n][r][j] = message /\ \A p \in Given(A, n, r) : p <= message.time
          BY <3>1, <3>4, <3>7, <4>2
        <5>2. \A i \in 1 .. j - 1 : channel'[n][r][i] = c[i] /\ i \in DOMAIN c
          BY <3>3, <3>4, <4>2
        <5>3. A[r][n] \in Given(A, n, r) /\ \A i \in DOMAIN c : c[i].guarantee \in Given(A, n, r)
          BY GivenType DEF Given
        <5> QED
          BY <5>1, <5>2, <5>3
      <4> QED
        BY <3>3, <4>1, <4>2
    <3>8. \A j \in DOMAIN channel'[n][r] : channel'[n][r][j].time # 0 =>
            /\ A[r][n] <= channel'[n][r][j].time
            /\ \A i \in 1 .. j - 1 : channel'[n][r][i].guarantee <= channel'[n][r][j].time
      BY <3>4, <3>7
    <3> HIDE DEF c, l
    <3> QED
      BY <2>1, <3>6, <3>8 DEF LinkInv, Reach
  <2>5. CASE channel' = channel
    BY <2>3, <2>5
  <2>6. CASE \E m, message : NewMessage(A, s, m, message)
    <3>1. PICK m, message : NewMessage(A, s, m, message)
      BY <2>6
    <3>2. CASE n = s /\ r = m
      BY <2>4, <3>1, <3>2
    <3>3. CASE ~(n = s /\ r = m)
      <4>1. channel'[n][r] = channel[n][r]
        BY <2>0, <3>1, <3>3, SendTypes DEF NewMessage
      <4> QED
        BY <2>3, <4>1
    <3> QED
      BY <3>2, <3>3
  <2> QED
    BY <2>5, <2>6
<1> QED
  BY <1>1, <1>2, <1>3 DEF LinksInv

\* A step in which r receives a message from n.
LEMMA LinksAfterReceipt ==
  ASSUME SingleChannels, TypeInv, TypeInv', NEW A, LinksInv(A), NEW s \in Ranks, RankStep(s),
         NEW m \in Neighbours(s), ReceiveMessage(s, m)
  PROVE  \E B : LinksInv(B)'
<1> DEFINE message == Head(channel[m][s])
<1>1. /\ message \in Messages /\ message = channel[m][s][1] /\ channel[m][s] # <<>>
      /\ channel' = [channel EXCEPT ![m][s] = Tail(channel[m][s])]
      /\ guarantee' = [guarantee EXCEPT ![s][m] = message.guarantee]
      /\ Tail(channel[m][s]) \in Seq(Messages)
  BY ReceiveTypes
<1>2. /\ message.guarantee \in Nat /\ message.guarantee \in Given(A, m, s) /\ A[s][m] \in Nat
      /\ m \in Ranks /\ s \in Neighbours(m) /\ A \in [Ranks -> [Ranks -> Nat]]
  BY ReceivedInTime, RankConstants DEF LinksInv
<1> PICK g : g = message.guarantee
  OBVIOUS
<1> HIDE DEF message
<1>3. PICK B \in [Ranks -> [Ranks -> Nat]] :
        \A r, n \in Ranks : B[r][n] = IF r = s /\ n = m /\ g >= A[s][m] THEN g ELSE A[r][n]
  <2> DEFINE B == [r \in Ranks |-> [n \in Ranks |->
                     IF r = s /\ n = m /\ g >= A[s][m] THEN g ELSE A[r][n]]]
  <2>1. \A r, n \in Ranks : (IF r = s /\ n = m /\ g >= A[s][m] THEN g ELSE A[r][n]) \in Nat
    BY <1>2
  <2>2. B \in [Ranks -> [Ranks -> Nat]]
    BY <2>1
  <2> QED
    BY <2>2
<1>4. \A r, n \in Ranks : B[r][n] \in Nat /\ A[r][n] \in Nat /\ A[r][n] <= B[r][n]
  BY <1>2, <1>3
<1>5. B[s][m] \in {A[s][m], g} /\ g <= B[s][m]
  BY <1>2, <1>3
<1>6. /\ guarantee'[s][m] = g
      /\ \A r \in Ranks : \A n \in Neighbours(r) : ~(r = s /\ n = m) =>
           guarantee'[r][n] = guarantee[r][n] /\ B[r][n] = A[r][n]
  <2>1. DOMAIN guarantee = Ranks /\ guarantee[s] \in [Neighbours(s) -> Nat]
    BY DEF TypeInv, TypeOK
  <2>2. \A r \in Ranks : \A n \in Neighbours(r) : n \in Ranks
    BY RankConstants
  <2>3. guarantee' = [guarantee EXCEPT ![s][m] = g]
    BY <1>1
  <2>4. /\ guarantee'[s][m] = g
        /\ \A r \in Ranks : \A n \in Neighbours(r) : ~(r = s /\ n = m) =>
             guarantee'[r][n] = guarantee[r][n]
    BY <2>1, <2>3
  <2>5. \A r \in Ranks : \A n \in Neighbours(r) : ~(r = s /\ n = m) => B[r][n] = A[r][n]
    BY <1>3, <2>2
  <2> QED
    BY <2>4, <2>5
<1>7. \A r \in Ranks : \A n \in Neighbours(r) :
        A[r][n] <= B[r][n] /\ guarantee'[r][n] <= B[r][n]
  <2> SUFFICES ASSUME NEW r \in Ranks, NEW n \in Neighbours(r)
               PROVE  A[r][n] <= B[r][n] /\ guarantee'[r][n] <= B[r][n]
    OBVIOUS
  <2>1. n \in Ranks /\ guarantee[r][n] <= A[r][n]
    BY RankConstants DEF LinksInv, LinkInv
  <2>2. CASE r = s /\ n = m
    BY <1>2, <1>4, <1>5, <1>6, <2>2
  <2>3. CASE ~(r = s /\ n = m)
    BY <1>4, <1>6, <2>1, <2>3
  <2> QED
    BY <2>2, <2>3
<1>8. \A r \in Ranks : NotPast(events'[r], currentTs'[r])
  <2> SUFFICES ASSUME NEW r \in Ranks PROVE NotPast(events'[r], currentTs'[r])
    OBVIOUS
  <2>1. CASE r = s
    BY <2>1, PastIsPast
  <2>2. CASE r # s
    <3>1. events'[r] = events[r] /\ currentTs'[r] = currentTs[r]
      BY <2>2, OthersAlone
    <3> QED
      BY <3>1 DEF LinksInv
  <2> QED
    BY <2>1, <2>2
<1>9. /\ DOMAIN channel = Ranks /\ \A r \in Ranks : channel[r] \in [Neighbours(r) -> Seq(Messages)]
  BY DEF TypeInv, TypeOK
<1>10. /\ channel'[m][s] = Tail(channel[m][s])
       /\ \A n \in Ranks : \A r \in Neighbours(n) : ~(n = m /\ r = s) => channel'[n][r] = channel[n][r]
  BY <1>1, <1>2, <1>9, ChannelsUpdated
<1>11. ASSUME NEW r \in Ranks, NEW n \in Neighbours(r)
       PROVE  LinkInv(B, n, r)'
  <2>0. LinkInv(A, n, r) /\ n \in Ranks /\ r \in Neighbours(n)
    BY RankConstants DEF LinksInv
  <2>1. safeTime'[r] <= B[r][n] /\ currentTs'[r] <= B[r][n] /\ guarantee'[r][n] <= B[r][n]
    BY <1>7, ClocksStayBelow
  <2>2. \A p \in Given(A, n, r) : Reach(B, n, r, p) /\ Promised(n, r, p)'
    <3> SUFFICES ASSUME NEW p \in Given(A, n, r)
                 PROVE  Reach(B, n, r, p) /\ Promised(n, r, p)'
      OBVIOUS
    <3>1. p \in Nat /\ Reach(A, n, r, p) /\ Promised(n, r, p)
      BY <2>0, GivenType DEF LinkInv
    <3>2. ASSUME NEW q \in Neighbours(n)
          PROVE  p <= B[n][q] + Delay(n, r)
      <4>1. /\ p <= A[n][q] + Delay(n, r) /\ A[n][q] \in Nat /\ B[n][q] \in Nat
            /\ A[n][q] <= B[n][q] /\ Delay(n, r) \in Nat
        BY <1>4, <2>0, <3>1, RankConstants, BundleDelays DEF Reach
      <4> QED
        BY <3>1, <4>1
    <3> QED
      BY <3>1, <3>2, PromisesAreKept DEF Reach
  <2>3. CASE ~(n = m /\ r = s)
    <3>1. channel'[n][r] = channel[n][r] /\ B[r][n] = A[r][n]
      BY <1>6, <1>10, <2>0, <2>3
    <3>2. Given(B, n, r)' = Given(A, n, r)
      BY <3>1 DEF Given
    <3>3. \A p \in Given(B, n, r)' : Reach(B, n, r, p) /\ Promised(n, r, p)'
      BY <2>2, <3>2
    <3>4. \A j \in DOMAIN channel'[n][r] : channel'[n][r][j].time # 0 =>
            /\ B[r][n] <= channel'[n][r][j].time
            /\ \A i \in 1 .. j - 1 : channel'[n][r][i].guarantee <= channel'[n][r][j].time
      BY <2>0, <3>1 DEF LinkInv
    <3> QED
      BY <2>1, <3>3, <3>4 DEF LinkInv, Reach
  <2>4. CASE n = m /\ r = s
    <3> DEFINE c == channel[m][s]  l == Len(channel[m][s])
    <3>0. c \in Seq(Messages) /\ c # <<>>
      BY <1>1, <1>2, StateTypes
    <3>1. /\ c \in Seq(Messages) /\ c # <<>> /\ l \in Nat /\ DOMAIN c = 1 .. l /\ l # 0
      BY <3>0, LenProperties
    <3>2. /\ DOMAIN channel'[m][s] = 1 .. l - 1
          /\ \A i \in 1 .. l - 1 : channel'[m][s][i] = c[i + 1]
      BY <1>10, <3>1
    <3> HIDE DEF c, l
    <3>3. \A i \in 1 .. l - 1 : i + 1 \in 1 .. l
      BY <3>1
    <3>4. 1 \in DOMAIN c /\ c[1].guarantee = g
      BY <1>1, <3>1 DEF c
    <3>5. \A p \in Given(B, m, s)' : p \in Given(A, m, s)
      <4>1. B[s][m] \in Given(A, m, s)
        BY <1>2, <1>5 DEF Given
      <4>2. \A i \in 1 .. l - 1 : channel'[m][s][i].guarantee \in Given(A, m, s)
        BY <1>2, <3>1, <3>2, <3>3, GivenType DEF c
      <4> QED
        BY <3>2, <4>1, <4>2 DEF Given
    <3>6. \A p \in Given(B, m, s)' : Reach(B, m, s, p) /\ Promised(m, s, p)'
      BY <2>2, <2>4, <3>5
    <3>7. ASSUME NEW j \in 1 .. l - 1, channel'[m][s][j].time # 0
          PROVE  /\ B[s][m] <= channel'[m][s][j].time
                 /\ \A i \in 1 .. j - 1 : channel'[m][s][i].guarantee <= channel'[m][s][j].time
      <4>1. channel'[m][s][j] = c[j + 1] /\ j + 1 \in DOMAIN c /\ 1 \in 1 .. (j + 1) - 1
        <5>1. j \in Nat /\ j # 0
          BY <3>1
        <5>2. 1 \in 1 .. (j + 1) - 1
          BY <5>1
        <5> QED
          BY <3>1, <3>2, <3>3, <5>2
      <4>2. /\ A[s][m] <= c[j + 1].time
            /\ \A i \in 1 .. (j + 1) - 1 : c[i].guarantee <= c[j + 1].time
        BY <2>0, <2>4, <3>7, <4>1 DEF LinkInv, c
      <4>3. g <= c[j + 1].time
        BY <3>4, <4>1, <4>2
      <4>4. ASSUME NEW i \in 1 .. j - 1
            PROVE  channel'[m][s][i].guarantee <= channel'[m][s][j].time
        <5>1. i \in 1 .. l - 1 /\ i + 1 \in 1 .. (j + 1) - 1
          BY <3>1
        <5> QED
          BY <3>2, <4>1, <4>2, <5>1
      <4> QED
        BY <1>5, <4>1, <4>2, <4>3, <4>4
    <3>8. \A j \in DOMAIN channel'[m][s] : channel'[m][s][j].time # 0 =>
            /\ B[s][m] <= channel'[m][s][j].time
            /\ \A i \in 1 .. j - 1 : channel'[m][s][i].guarantee <= channel'[m][s][j].time
      BY <3>2, <3>7
    <3> QED
      BY <2>1, <2>4, <3>6, <3>8 DEF LinkInv, Reach
  <2> QED
    BY <2>3, <2>4
<1>12. LinksInv(B)'
  BY <1>8, <1>11 DEF LinksInv
<1> QED
  BY <1>12

LEMMA GuaranteeStep ==
  ASSUME SingleChannels, GuaranteeInv, [Next]_vars
  PROVE  GuaranteeInv'
<1>1. TypeInv /\ TypeInv'
  BY StepType DEF GuaranteeInv
<1>2. PICK A : LinksInv(A)
  BY DEF GuaranteeInv
<1>3. CASE UNCHANGED vars
  <2>1. UNCHANGED <<pc, events, currentTs, safeTime, guarantee, channel>>
    BY <1>3 DEF vars
  <2>2. \A n, x, p : Promised(n, x, p) => Promised(n, x, p)'
    BY <2>1 DEF Promised
  <2>3. \A n, r : Given(A, n, r)' = Given(A, n, r)
    BY <2>1 DEF Given
  <2>4. \A n, r : LinkInv(A, n, r) => LinkInv(A, n, r)'
    BY <2>1, <2>2, <2>3 DEF LinkInv, Reach
  <2>5. LinksInv(A)'
    BY <1>2, <2>1, <2>4 DEF LinksInv
  <2> QED
    BY <1>1, <2>5 DEF GuaranteeInv
<1>4. ASSUME NEW s \in Ranks, RankStep(s)
      PROVE  GuaranteeInv'
  <2>1. CASE SendPacket(s)
    <3>1. (\E n, message : NewMessage(A, s, n, message)) /\ guarantee' = guarantee
      BY <1>1, <1>2, <2>1, PacketIsNew, SendPacketSends
    <3>2. LinksInv(A)'
      BY <1>1, <1>2, <1>4, <3>1, LinksWithoutReceipt
    <3> QED
      BY <1>1, <3>2 DEF GuaranteeInv
  <2>2. CASE NullMessageEventHandler(s)
    <3>1. guarantee' = guarantee
      BY <2>2 DEF NullMessageEventHandler
    <3>2. channel' = channel \/ \E n, message : NewMessage(A, s, n, message)
      <4>1. CASE events[s][1].cancelled
        BY <2>2, <4>1 DEF NullMessageEventHandler
      <4>2. CASE ~events[s][1].cancelled
        BY <1>1, <1>2, <2>2, <4>2, NullMessageIsNew
      <4> QED
        BY <4>1, <4>2
    <3>3. LinksInv(A)'
      BY <1>1, <1>2, <1>4, <3>1, <3>2, LinksWithoutReceipt
    <3> QED
      BY <1>1, <3>3 DEF GuaranteeInv
  <2>3. CASE ReceiveMessagesNonBlocking(s) \/ HandleArrivingMessagesBlocking(s)
    <3>1. ASSUME NEW m \in Neighbours(s), ReceiveMessage(s, m)
          PROVE  \E B : LinksInv(B)'
      BY <1>1, <1>2, <1>4, <3>1, LinksAfterReceipt
    <3>2. CASE channel' = channel /\ guarantee' = guarantee
      <4>1. LinksInv(A)'
        BY <1>1, <1>2, <1>4, <3>2, LinksWithoutReceipt
      <4> QED
        BY <1>1, <4>1 DEF GuaranteeInv
    <3>3. CASE \E m \in Neighbours(s) : ReceiveMessage(s, m)
      BY <1>1, <3>1, <3>3 DEF GuaranteeInv
    <3> QED
      BY <2>3, <3>2, <3>3, BlockingReceives DEF ReceiveMessagesNonBlocking
  <2>4. CASE Schedule(s) \/ HandlerReturns(s) \/ ProcessApp(s) \/ ProcessStop(s)
             \/ NoMessageHasArrived(s) \/ RunReturns(s)
    <3>1. channel' = channel /\ guarantee' = guarantee
      BY <2>4 DEF Schedule, HandlerReturns, ProcessApp, ProcessStop, NoMessageHasArrived, RunReturns
    <3>2. LinksInv(A)'
      BY <1>1, <1>2, <1>4, <3>1, LinksWithoutReceipt
    <3> QED
      BY <1>1, <3>2 DEF GuaranteeInv
  <2> QED
    BY <1>4, <2>1, <2>2, <2>3, <2>4 DEF RankStep
<1> QED
  BY <1>3, <1>4 DEF Next

LEMMA GuaranteeInit == Init => GuaranteeInv
<1> SUFFICES ASSUME Init PROVE GuaranteeInv
  OBVIOUS
<1>1. TypeInv
  BY InitType
<1> PICK A : A = [r \in Ranks |-> [n \in Ranks |-> 0]]
  OBVIOUS
<1>2. A \in [Ranks -> [Ranks -> Nat]] /\ \A r, n \in Ranks : A[r][n] = 0
  OBVIOUS
<1>3. ASSUME NEW r \in Ranks
      PROVE  /\ NotPast(events[r], currentTs[r]) /\ currentTs[r] = 0 /\ safeTime[r] = 0
             /\ pc[r] = "loop" /\ Ordered(events[r]) /\ events[r] \in Seq(Events)
  <2>1. events[r] \in InitialLists(r) /\ currentTs[r] = 0
    BY DEF Init
  <2>2. NotPast(events[r], 0) /\ events[r] \in Seq(Events) /\ ListOk(events[r], r, FALSE)
    BY <2>1, InitialListsOk
  <2>3. Ordered(events[r])
    BY <2>2 DEF ListOk
  <2> QED
    BY <2>1, <2>2, <2>3 DEF Init
<1>4. ASSUME NEW r \in Ranks, NEW n \in Neighbours(r)
      PROVE  LinkInv(A, n, r)
  <2>1. n \in Ranks /\ r \in Neighbours(n)
    BY RankConstants
  <2> DEFINE d == Delay(n, r)
  <2>2. d \in Nat /\ 0 <= d
    BY <2>1, BundleDelays
  <2>3. channel[n][r] = <<NullMessage(d)>> /\ guarantee[r][n] = 0
    BY <2>1 DEF Init
  <2>4. /\ DOMAIN channel[n][r] = {1} /\ channel[n][r][1] = NullMessage(d)
        /\ NullMessage(d).time = 0 /\ NullMessage(d).guarantee = d
    BY <2>3 DEF NullMessage, Packet
  <2> HIDE DEF d
  <2>5. A[r][n] = 0
    BY <1>2, <2>1
  <2>6. Given(A, n, r) = {0, d}
    BY <2>4, <2>5 DEF Given
  <2>7. ASSUME NEW p \in {0, d}
        PROVE  Reach(A, n, r, p) /\ Promised(n, r, p)
    <3>1. p \in Nat /\ p <= d
      BY <2>2
    <3>2. ASSUME NEW q \in Neighbours(n)
          PROVE  p <= A[n][q] + d
      <4>1. A[n][q] = 0
        BY <1>2, <2>1, RankConstants
      <4> QED
        BY <2>2, <3>1, <4>1
    <3>3. ASSUME NEW i \in DOMAIN events[n]
          PROVE  p <= events[n][i].ts + d
      <4>1. events[n][i].ts \in Nat
        BY <1>3, <2>1, EventTimes
      <4> QED
        BY <2>2, <3>1, <4>1
    <3>4. pc[n] # "handler"
      BY <1>3, <2>1
    <3> QED
      BY <3>2, <3>3, <3>4 DEF Reach, Promised, Sound, d
  <2>8. /\ safeTime[r] <= A[r][n] /\ guarantee[r][n] <= A[r][n] /\ currentTs[r] <= A[r][n]
    BY <1>3, <2>3, <2>5
  <2>9. \A j \in DOMAIN channel[n][r] : channel[n][r][j].time = 0
    BY <2>4
  <2>10. \A p \in Given(A, n, r) : Reach(A, n, r, p) /\ Promised(n, r, p)
    BY <2>6, <2>7
  <2> QED
    BY <2>8, <2>9, <2>10 DEF LinkInv
<1> QED
  BY <1>1, <1>2, <1>3, <1>4 DEF GuaranteeInv, LinksInv

LEMMA GuaranteeInvariant == ASSUME SingleChannels PROVE Spec => []GuaranteeInv
BY GuaranteeInit, GuaranteeStep, PTL DEF Spec

\* For any number of ranks and any delays: no packet reaches a rank before the
\* guarantee it has from the sender, or before one that is on its way ahead of
\* the packet.
THEOREM GuaranteesAreKept == ASSUME SingleChannels PROVE Spec => []GuaranteeIsKept
<1>1. GuaranteeInv => GuaranteeIsKept
  <2> SUFFICES ASSUME GuaranteeInv, NEW r \in Ranks, NEW n \in Neighbours(r),
                      NEW j \in DOMAIN channel[n][r], channel[n][r][j].time # 0
               PROVE  /\ channel[n][r][j].time >= guarantee[r][n]
                      /\ \A i \in 1 .. j - 1 : channel[n][r][j].time >= channel[n][r][i].guarantee
    BY DEF GuaranteeIsKept
  <2>1. PICK A : LinksInv(A)
    BY DEF GuaranteeInv
  <2>2. /\ A[r][n] \in Nat /\ channel[n][r][j].time \in Nat
        /\ \A i \in DOMAIN channel[n][r] : channel[n][r][i].guarantee \in Nat
    BY <2>1, GivenType DEF GuaranteeInv
  <2>3. /\ guarantee[r][n] <= A[r][n] /\ A[r][n] <= channel[n][r][j].time
        /\ \A i \in 1 .. j - 1 : channel[n][r][i].guarantee <= channel[n][r][j].time
    BY <2>1 DEF LinksInv, LinkInv
  <2>4. guarantee[r][n] \in Nat
    BY StateTypes DEF GuaranteeInv
  <2>5. \A i \in 1 .. j - 1 : i \in DOMAIN channel[n][r]
    <3>1. channel[n][r] \in Seq(Messages)
      BY StateTypes DEF GuaranteeInv
    <3> QED
      BY <3>1, LenProperties
  <2> QED
    BY <2>2, <2>3, <2>4, <2>5
<1> QED
  BY <1>1, GuaranteeInvariant, PTL

------------------------------------------------------------------------------
(* The events and packets of a rank, as the sequential order sees them.      *)

Lists == [Ranks -> Seq(Events)]
AreChannels(c) ==
  DOMAIN c = Ranks /\ \A r \in Ranks : c[r] \in [Neighbours(r) -> Seq(Messages)]

ApplicationsOf(t) == {e \in Events : IsApplication(e) /\ e.ts = t}
PacketsOf(t) == {m \in Messages : t # 0 /\ m.time = t}

LEMMA CountsAreCounts ==
  /\ \A list \in Seq(Events) : \A t :
       ApplicationAt(list, t) = CountIn(list, ApplicationsOf(t)) /\ ApplicationAt(list, t) \in Nat
  /\ \A c \in Seq(Messages) : \A t :
       ArrivalsAt(c, t) = CountIn(c, PacketsOf(t)) /\ ArrivalsAt(c, t) \in Nat
<1>1. ASSUME NEW list \in Seq(Events), NEW t
      PROVE  ApplicationAt(list, t) = CountIn(list, ApplicationsOf(t))
  <2>1. {i \in DOMAIN list : IsApplication(list[i]) /\ list[i].ts = t} =
          {i \in DOMAIN list : list[i] \in ApplicationsOf(t)}
    BY EventTimes DEF ApplicationsOf
  <2> QED
    BY <2>1 DEF ApplicationAt, CountIn
<1>2. ASSUME NEW c \in Seq(Messages), NEW t
      PROVE  ArrivalsAt(c, t) = CountIn(c, PacketsOf(t))
  <2>1. {i \in DOMAIN c : t # 0 /\ c[i].time = t} = {i \in DOMAIN c : c[i] \in PacketsOf(t)}
    BY ElementOfSeq DEF PacketsOf
  <2> QED
    BY <2>1 DEF ArrivalsAt, CountIn
<1>3. ASSUME NEW S, NEW list \in Seq(S), NEW T
      PROVE  CountIn(list, T) \in Nat
  <2>1. DOMAIN list = 1 .. Len(list) /\ Len(list) \in Nat
    BY LenProperties
  <2>2. IsFiniteSet(DOMAIN list)
    BY <2>1, FS_Interval
  <2>3. {i \in DOMAIN list : list[i] \in T} \in SUBSET DOMAIN list
    OBVIOUS
  <2> QED
    BY <2>2, <2>3, FS_Subset, FS_CardinalityType DEF CountIn
<1> QED
  BY <1>1, <1>2, <1>3

LEMMA CountsOfLengthened ==
  /\ \A list, longer \in Seq(Events) : \A e \in Events : \A k, t :
       Lengthened(list, longer, k, e) =>
         ApplicationAt(longer, t) =
           ApplicationAt(list, t) + IF IsApplication(e) /\ e.ts = t THEN 1 ELSE 0
  /\ \A c, longer \in Seq(Messages) : \A m \in Messages : \A k, t :
       Lengthened(c, longer, k, m) =>
         ArrivalsAt(longer, t) = ArrivalsAt(c, t) + IF t # 0 /\ m.time = t THEN 1 ELSE 0
<1>1. ASSUME NEW list \in Seq(Events), NEW longer \in Seq(Events), NEW e \in Events, NEW k, NEW t,
             Lengthened(list, longer, k, e)
      PROVE  ApplicationAt(longer, t) =
               ApplicationAt(list, t) + IF IsApplication(e) /\ e.ts = t THEN 1 ELSE 0
  <2>1. e \in ApplicationsOf(t) <=> IsApplication(e) /\ e.ts = t
    BY DEF ApplicationsOf
  <2>2. CountIn(longer, ApplicationsOf(t)) =
          CountIn(list, ApplicationsOf(t)) + IF e \in ApplicationsOf(t) THEN 1 ELSE 0
    BY <1>1, CountOfLengthened
  <2> QED
    BY <2>1, <2>2, CountsAreCounts
<1>2. ASSUME NEW c \in Seq(Messages), NEW longer \in Seq(Messages), NEW m \in Messages, NEW k,
             NEW t, Lengthened(c, longer, k, m)
      PROVE  ArrivalsAt(longer, t) = ArrivalsAt(c, t) + IF t # 0 /\ m.time = t THEN 1 ELSE 0
  <2>1. m \in PacketsOf(t) <=> t # 0 /\ m.time = t
    BY DEF PacketsOf
  <2>2. CountIn(longer, PacketsOf(t)) =
          CountIn(c, PacketsOf(t)) + IF m \in PacketsOf(t) THEN 1 ELSE 0
    BY <1>2, CountOfLengthened
  <2> QED
    BY <2>1, <2>2, CountsAreCounts
<1> QED
  BY <1>1, <1>2

LEMMA CountsOfAlike ==
  ASSUME NEW list \in Seq(Events), NEW other \in Seq(Events), DOMAIN other = DOMAIN list,
         Alike(list, other), NEW t
  PROVE  ApplicationAt(other, t) = ApplicationAt(list, t)
<1>1. \A i \in DOMAIN list : other[i].ts = list[i].ts /\ other[i].kind = list[i].kind
  BY DEF Alike
<1>2. {i \in DOMAIN other : IsApplication(other[i]) /\ other[i].ts = t} =
        {i \in DOMAIN list : IsApplication(list[i]) /\ list[i].ts = t}
  BY <1>1 DEF IsApplication
<1> QED
  BY <1>2 DEF ApplicationAt

LEMMA CountsPositive ==
  /\ \A list \in Seq(Events) : \A t :
       ApplicationAt(list, t) > 0 => \E i \in DOMAIN list : list[i].ts = t
  /\ \A c \in Seq(Messages) : \A t :
       ArrivalsAt(c, t) > 0 => \E i \in DOMAIN c : t # 0 /\ c[i].time = t
<1>1. ASSUME NEW list, NEW t, ~(\E i \in DOMAIN list : list[i].ts = t)
      PROVE  ApplicationAt(list, t) = 0
  <2>1. {i \in DOMAIN list : IsApplication(list[i]) /\ list[i].ts = t} = {}
    BY <1>1
  <2> QED
    BY <2>1, FS_EmptySet DEF ApplicationAt
<1>2. ASSUME NEW c, NEW t, ~(\E i \in DOMAIN c : t # 0 /\ c[i].time = t)
      PROVE  ArrivalsAt(c, t) = 0
  <2>1. {i \in DOMAIN c : t # 0 /\ c[i].time = t} = {}
    BY <1>2
  <2> QED
    BY <2>1, FS_EmptySet DEF ArrivalsAt
<1> QED
  BY <1>1, <1>2

LEMMA ArrivalsType ==
  ASSUME NEW c, AreChannels(c), NEW r \in Ranks, NEW t
  PROVE  /\ \A n \in Neighbours(r) : c[n][r] \in Seq(Messages) /\ ArrivalsAt(c[n][r], t) \in Nat
         /\ Arrivals(c, r, t) \in Nat
         /\ Arrivals(c, r, t) > 0 =>
              \E n \in Neighbours(r) : \E i \in DOMAIN c[n][r] : t # 0 /\ c[n][r][i].time = t
<1> DEFINE from == [n \in Neighbours(r) |-> ArrivalsAt(c[n][r], t)]
<1>1. \A n \in Neighbours(r) : c[n][r] \in Seq(Messages) /\ ArrivalsAt(c[n][r], t) \in Nat
  <2>1. \A n \in Neighbours(r) : n \in Ranks /\ r \in Neighbours(n)
    BY RankConstants
  <2>2. \A n \in Neighbours(r) : c[n][r] \in Seq(Messages)
    BY <2>1 DEF AreChannels
  <2> QED
    BY <2>2, CountsAreCounts
<1>2. from \in [Neighbours(r) -> Nat] /\ \A n \in Neighbours(r) : from[n] = ArrivalsAt(c[n][r], t)
  BY <1>1
<1>3. Arrivals(c, r, t) = MapThenSumSet(LAMBDA n : from[n], Neighbours(r))
  BY DEF Arrivals
<1> HIDE DEF from
<1>4. IsFiniteSet(Neighbours(r))
  BY RankConstants
<1>5. CASE Neighbours(r) = {}
  <2>1. \A n \in Neighbours(r) : from[n] = 0
    BY <1>5
  <2>2. Arrivals(c, r, t) = 0
    BY <1>2, <1>3, <1>4, <2>1, SumOfNoughts
  <2> QED
    BY <1>1, <2>2
<1>6. CASE Neighbours(r) # {}
  <2>1. Arrivals(c, r, t) \in Nat
    BY <1>2, <1>3, <1>4, <1>6, SummandBelowSum
  <2>2. ASSUME \A n \in Neighbours(r) : from[n] = 0
        PROVE  Arrivals(c, r, t) = 0
    BY <1>2, <1>3, <1>4, <2>2, SumOfNoughts
  <2>3. ASSUME NEW n \in Neighbours(r), from[n] # 0
        PROVE  \E i \in DOMAIN c[n][r] : t # 0 /\ c[n][r][i].time = t
    <3>1. ArrivalsAt(c[n][r], t) > 0
      BY <1>1, <1>2, <2>3
    <3> QED
      BY <1>1, <3>1, CountsPositive
  <2> QED
    BY <1>1, <2>1, <2>2, <2>3
<1> QED
  BY <1>5, <1>6

\* Of the channels only that from r to n may differ.
SameButFor(c, d, r, n) ==
  \A s \in Ranks : \A q \in Neighbours(s) : ~(s = r /\ q = n) => d[s][q] = c[s][q]

\* One channel to r changes.
LEMMA ArrivalsUpdate ==
  ASSUME NEW c, NEW d, AreChannels(c), AreChannels(d), NEW r \in Ranks, NEW n \in Neighbours(r),
         SameButFor(c, d, n, r), NEW t
  PROVE  /\ Arrivals(d, r, t) = Arrivals(c, r, t) - ArrivalsAt(c[n][r], t) + ArrivalsAt(d[n][r], t)
         /\ \A q \in Ranks : q # r => Arrivals(d, q, t) = Arrivals(c, q, t)
<1>1. \A q \in Ranks : \A m \in Neighbours(q) : m \in Ranks /\ q \in Neighbours(m)
  BY RankConstants
<1> DEFINE f == [m \in Neighbours(r) |-> ArrivalsAt(c[m][r], t)]
           g == [m \in Neighbours(r) |-> ArrivalsAt(d[m][r], t)]
<1>2. /\ f \in [Neighbours(r) -> Nat] /\ g \in [Neighbours(r) -> Nat]
      /\ f[n] = ArrivalsAt(c[n][r], t) /\ g[n] = ArrivalsAt(d[n][r], t)
  BY ArrivalsType
<1>3. \A m \in Neighbours(r) : m # n => g[m] = f[m]
  BY <1>1 DEF SameButFor
<1>4. /\ Arrivals(c, r, t) = MapThenSumSet(LAMBDA m : f[m], Neighbours(r))
      /\ Arrivals(d, r, t) = MapThenSumSet(LAMBDA m : g[m], Neighbours(r))
  BY DEF Arrivals
<1> HIDE DEF f, g
<1>5. Arrivals(d, r, t) = Arrivals(c, r, t) - f[n] + g[n]
  <2>1. PICK S, F, G : S = Neighbours(r) /\ F = f /\ G = g
    OBVIOUS
  <2>2. /\ IsFiniteSet(S) /\ n \in S /\ F \in [S -> Nat] /\ G \in [S -> Nat]
        /\ \A m \in S : m # n => G[m] = F[m]
    BY <1>2, <1>3, <2>1, RankConstants
  <2>3. MapThenSumSet(LAMBDA m : G[m], S) = MapThenSumSet(LAMBDA m : F[m], S) - F[n] + G[n]
    BY <2>2, SumUpdate
  <2> QED
    BY <1>4, <2>1, <2>3
<1>6. ASSUME NEW q \in Ranks, q # r
      PROVE  Arrivals(d, q, t) = Arrivals(c, q, t)
  <2> DEFINE h == [m \in Neighbours(q) |-> ArrivalsAt(c[m][q], t)]
             k == [m \in Neighbours(q) |-> ArrivalsAt(d[m][q], t)]
  <2>1. k = h
    BY <1>1, <1>6 DEF SameButFor
  <2>2. /\ Arrivals(c, q, t) = MapThenSumSet(LAMBDA m : h[m], Neighbours(q))
        /\ Arrivals(d, q, t) = MapThenSumSet(LAMBDA m : k[m], Neighbours(q))
    BY DEF Arrivals
  <2> HIDE DEF h, k
  <2> QED
    BY <2>1, <2>2
<1> QED
  BY <1>2, <1>5, <1>6

LEMMA PendingType ==
  ASSUME NEW lists \in Lists, NEW c, AreChannels(c)
  PROVE  /\ Pending(lists, c) \in [Ranks -> [Times -> Nat]]
         /\ \A r \in Ranks : \A t \in Times :
              /\ Pending(lists, c)[r][t] = ApplicationAt(lists[r], t) + Arrivals(c, r, t)
              /\ ApplicationAt(lists[r], t) \in Nat /\ Arrivals(c, r, t) \in Nat
<1>1. \A r \in Ranks : \A t \in Times :
        ApplicationAt(lists[r], t) \in Nat /\ Arrivals(c, r, t) \in Nat
  BY CountsAreCounts, ArrivalsType DEF Lists
<1> QED
  BY <1>1 DEF Pending

\* An event or a packet more, or less.
LEMMA PendingUpdate ==
  ASSUME NEW lists \in Lists, NEW more \in Lists, NEW c, NEW d, AreChannels(c), AreChannels(d),
         NEW r \in Ranks, NEW t \in Times, NEW k \in Int,
         \A n \in Ranks : \A s \in Times :
           ApplicationAt(more[n], s) + Arrivals(d, n, s) =
             ApplicationAt(lists[n], s) + Arrivals(c, n, s) + IF n = r /\ s = t THEN k ELSE 0
  PROVE  Pending(more, d) = Changed(Pending(lists, c), r, t, k)
<1> DEFINE f == Pending(lists, c)  g == Pending(more, d)
<1>1. f \in [Ranks -> [Times -> Nat]] /\ g \in [Ranks -> [Times -> Nat]]
  BY PendingType
<1>2. ASSUME NEW n \in Ranks, NEW s \in Times
      PROVE  g[n][s] = IF n = r /\ s = t THEN g[r][t] ELSE f[n][s]
  <2>1. /\ f[n][s] = ApplicationAt(lists[n], s) + Arrivals(c, n, s)
        /\ g[n][s] = ApplicationAt(more[n], s) + Arrivals(d, n, s)
        /\ ApplicationAt(lists[n], s) \in Nat /\ Arrivals(c, n, s) \in Nat
    BY PendingType
  <2> HIDE DEF f, g
  <2> QED
    BY <2>1
<1>3. g[r][t] = f[r][t] + k /\ g[r][t] \in Nat
  <2>1. /\ f[r][t] = ApplicationAt(lists[r], t) + Arrivals(c, r, t)
        /\ g[r][t] = ApplicationAt(more[r], t) + Arrivals(d, r, t)
        /\ ApplicationAt(lists[r], t) \in Nat /\ Arrivals(c, r, t) \in Nat
    BY PendingType
  <2> HIDE DEF f, g
  <2> QED
    BY <1>1, <2>1
<1> HIDE DEF f, g
<1>4. g = [f EXCEPT ![r][t] = g[r][t]]
  BY <1>1, <1>2, <1>3, TableUpdate
<1> QED
  BY <1>3, <1>4 DEF Changed, f, g

LEMMA PendingKept ==
  ASSUME NEW lists \in Lists, NEW more \in Lists, NEW c, NEW d, AreChannels(c), AreChannels(d),
         \A n \in Ranks : \A s \in Times :
           ApplicationAt(more[n], s) + Arrivals(d, n, s) =
             ApplicationAt(lists[n], s) + Arrivals(c, n, s)
  PROVE  Pending(more, d) = Pending(lists, c)
BY DEF Pending

\* Only the list of r changes, by events of one time.
LEMMA PendingListUpdate ==
  ASSUME NEW lists \in Lists, NEW more \in Lists, NEW c, AreChannels(c),
         NEW r \in Ranks, NEW t \in Times, NEW k \in Int,
         \A n \in Ranks : n # r => more[n] = lists[n],
         \A s \in Times :
           ApplicationAt(more[r], s) = ApplicationAt(lists[r], s) + IF s = t THEN k ELSE 0
  PROVE  Pending(more, c) = Changed(Pending(lists, c), r, t, k)
<1>1. ASSUME NEW n \in Ranks, NEW s \in Times
      PROVE  ApplicationAt(more[n], s) + Arrivals(c, n, s) =
               ApplicationAt(lists[n], s) + Arrivals(c, n, s) + IF n = r /\ s = t THEN k ELSE 0
  <2>1. /\ ApplicationAt(lists[n], s) \in Nat /\ Arrivals(c, n, s) \in Nat
        /\ ApplicationAt(more[n], s) \in Nat
    BY PendingType
  <2>2. CASE n = r
    BY <2>1, <2>2
  <2>3. CASE n # r
    BY <2>1, <2>3
  <2> QED
    BY <2>2, <2>3
<1> QED
  BY <1>1, PendingUpdate

\* The lists and channels of a step, as tables are made of them.
LEMMA StepTables ==
  ASSUME TypeInv, TypeInv', NEW r \in Ranks, RankStep(r)
  PROVE  /\ events \in Lists /\ events' \in Lists
         /\ AreChannels(channel) /\ AreChannels(channel')
         /\ \A n \in Ranks : n # r => events'[n] = events[n]
BY OthersAlone DEF TypeInv, TypeOK, Lists, AreChannels

\* What comes first in the list of a rank comes first of all that is there for it.
LEMMA NothingIsEarlier ==
  ASSUME TypeInv, NEW A, LinksInv(A), NEW r \in Ranks, NEW kinds, TakeEvent(r, kinds)
  PROVE  LET t == events[r][1].ts
         IN /\ t \in Times /\ currentTs[r] <= t
            /\ \A s \in Times : Pending(events, channel)[r][s] > 0 => s >= t
<1> DEFINE t == events[r][1].ts
<1>1. /\ t \in Times /\ t \in Nat /\ t <= safeTime[r] /\ events[r] \in Seq(Events)
      /\ currentTs[r] <= t
  BY TakeTypes DEF LinksInv
<1>2. /\ events[r] # <<>> /\ Ordered(events[r])
  BY TakeTypes, StateTypes DEF ListOk
<1>3. \A i \in DOMAIN events[r] : t <= events[r][i].ts
  BY <1>1, <1>2, EventTimes, TailIsOrdered
<1>4. events \in Lists /\ AreChannels(channel)
  BY DEF TypeInv, TypeOK, Lists, AreChannels
<1> HIDE DEF t
<1>5. ASSUME NEW s \in Times, Pending(events, channel)[r][s] > 0
      PROVE  s >= t
  <2>1. /\ Pending(events, channel)[r][s] = ApplicationAt(events[r], s) + Arrivals(channel, r, s)
        /\ ApplicationAt(events[r], s) \in Nat /\ Arrivals(channel, r, s) \in Nat
    BY <1>4, PendingType
  <2>2. s \in Nat
    BY RankConstants
  <2>3. CASE ApplicationAt(events[r], s) > 0
    <3>1. PICK i \in DOMAIN events[r] : events[r][i].ts = s
      BY <1>1, <2>3, CountsPositive
    <3> QED
      BY <1>1, <1>3, <2>2, <3>1
  <2>4. CASE Arrivals(channel, r, s) > 0
    <3>1. PICK n \in Neighbours(r) : \E i \in DOMAIN channel[n][r] : s # 0 /\ channel[n][r][i].time = s
      BY <1>4, <2>4, ArrivalsType
    <3>2. PICK i \in DOMAIN channel[n][r] : s # 0 /\ channel[n][r][i].time = s
      BY <3>1
    <3>3. A[r][n] <= s /\ safeTime[r] <= A[r][n]
      BY <3>2 DEF LinksInv, LinkInv
    <3>4. A[r][n] \in Nat /\ safeTime[r] \in Nat
      BY GivenType, StateTypes
    <3> QED
      BY <1>1, <2>2, <3>3, <3>4
  <2> QED
    BY <1>5, <2>1, <2>3, <2>4
<1> QED
  BY <1>1, <1>5 DEF t

\* An event is taken from a list.
LEMMA PendingAfterTake ==
  ASSUME TypeInv, NEW r \in Ranks, NEW kinds, TakeEvent(r, kinds)
  PROVE  LET event == events[r][1]
         IN /\ event.ts \in Times
            /\ \A s : ApplicationAt(events[r], s) = ApplicationAt(Tail(events[r]), s)
                        + IF IsApplication(event) /\ event.ts = s THEN 1 ELSE 0
            /\ \A s : ApplicationAt(events[r], s) \in Nat /\ ApplicationAt(Tail(events[r]), s) \in Nat
<1> DEFINE event == events[r][1]  list == events[r]  tail == Tail(events[r])
<1>1. /\ event \in Events /\ event.ts \in Times /\ list \in Seq(Events) /\ tail \in Seq(Events)
      /\ Lengthened(tail, list, 1, event)
  BY TakeTypes
<1> HIDE DEF event, list, tail
<1>2. \A s : ApplicationAt(list, s) = ApplicationAt(tail, s)
                + IF IsApplication(event) /\ event.ts = s THEN 1 ELSE 0
  BY <1>1, CountsOfLengthened
<1>3. \A s : ApplicationAt(list, s) \in Nat /\ ApplicationAt(tail, s) \in Nat
  BY <1>1, CountsAreCounts
<1> QED
  BY <1>1, <1>2, <1>3 DEF event, list, tail

\* An event of the application or the end of the simulation is processed.
LEMMA ApplicationIsProcessed ==
  ASSUME TypeInv, TypeInv', NEW A, LinksInv(A), NEW r \in Ranks, RankStep(r), NEW kinds,
         TakeEvent(r, kinds), IsApplication(events[r][1]),
         events' = [events EXCEPT ![r] = Tail(@)], channel' = channel
  PROVE  Order!Process(r, events[r][1].ts)
<1> DEFINE t == events[r][1].ts  f == Pending(events, channel)
<1>1. /\ t \in Times /\ currentTs[r] <= t /\ \A s \in Times : f[r][s] > 0 => s >= t
  BY NothingIsEarlier
<1>2. /\ events \in Lists /\ events' \in Lists /\ AreChannels(channel)
      /\ \A n \in Ranks : n # r => events'[n] = events[n]
  BY StepTables
<1>3. events'[r] = Tail(events[r])
  BY StateTypes
<1>4. \A s : /\ ApplicationAt(events[r], s) = ApplicationAt(events'[r], s) + IF t = s THEN 1 ELSE 0
             /\ ApplicationAt(events[r], s) \in Nat /\ ApplicationAt(events'[r], s) \in Nat
  BY <1>3, PendingAfterTake
<1> HIDE DEF t
<1>5. \A s \in Times : ApplicationAt(events'[r], s) = ApplicationAt(events[r], s) + IF s = t THEN -1 ELSE 0
  BY <1>4
<1>6. Pending(events', channel) = Changed(f, r, t, -1)
  <2>1. PICK k \in Int : k = -1
    OBVIOUS
  <2>2. PICK lists, more, c, u : lists = events /\ more = events' /\ c = channel /\ u = t
    OBVIOUS
  <2>3. /\ lists \in Lists /\ more \in Lists /\ AreChannels(c) /\ u \in Times
        /\ \A n \in Ranks : n # r => more[n] = lists[n]
    BY <1>1, <1>2, <2>2
  <2>4. \A s \in Times :
          ApplicationAt(more[r], s) = ApplicationAt(lists[r], s) + IF s = u THEN k ELSE 0
    BY <1>5, <2>1, <2>2
  <2>5. Pending(more, c) = Changed(Pending(lists, c), r, u, k)
    BY <2>3, <2>4, PendingListUpdate
  <2> QED
    BY <2>1, <2>2, <2>5
<1>7. f[r][t] \in Nat /\ f[r][t] > 0
  <2>1. /\ f[r][t] = ApplicationAt(events[r], t) + Arrivals(channel, r, t)
        /\ ApplicationAt(events[r], t) \in Nat /\ Arrivals(channel, r, t) \in Nat
    BY <1>1, <1>2, PendingType
  <2> HIDE DEF f
  <2>2. ApplicationAt(events[r], t) > 0
    BY <1>4
  <2> QED
    BY <2>1, <2>2
<1>8. currentTs' = [currentTs EXCEPT ![r] = t] /\ currentTs[r] \in Nat /\ t \in Nat
  BY <1>1, TakeTypes, StateTypes, RankConstants DEF t
<1>9. Pending(events, channel)' = [f EXCEPT ![r][t] = @ - 1]
  <2> HIDE DEF f
  <2>1. f[r][t] + -1 = f[r][t] - 1
    BY <1>7
  <2>2. Pending(events', channel') = Changed(f, r, t, -1)
    BY <1>6
  <2> QED
    BY <2>1, <2>2 DEF Changed
<1>10. Order!Times = Times
  BY DEF Order!Times, Times
<1> QED
  <2>1. t >= currentTs[r]
    BY <1>1, <1>8
  <2>2. Order!Process(r, t)
    BY <1>1, <1>7, <1>8, <1>9, <1>10, <2>1 DEF Order!Process
  <2> QED
    BY <2>2 DEF t

\* What a message adds to the packets of time t.
PacketAt(m, t) == IF t # 0 /\ m.time = t THEN 1 ELSE 0

\* Only the channel from r to n is longer, by message m.
LongerBy(c, d, r, n, m) ==
  /\ AreChannels(c) /\ AreChannels(d) /\ SameButFor(c, d, r, n)
  /\ \E k : Lengthened(c[r][n], d[r][n], k, m)

LEMMA ArrivalsOfLengthened ==
  ASSUME NEW c, NEW d, NEW r \in Ranks, NEW n \in Neighbours(r), NEW m \in Messages,
         LongerBy(c, d, r, n, m)
  PROVE  \A t : /\ Arrivals(d, n, t) = Arrivals(c, n, t) + PacketAt(m, t)
               /\ \A q \in Ranks : q # n => Arrivals(d, q, t) = Arrivals(c, q, t)
<1> USE DEF LongerBy
<1>1. n \in Ranks /\ r \in Neighbours(n)
  BY RankConstants
<1>2. c[r][n] \in Seq(Messages) /\ d[r][n] \in Seq(Messages)
  BY DEF AreChannels
<1>3. ASSUME NEW t
      PROVE  /\ Arrivals(d, n, t) = Arrivals(c, n, t) + PacketAt(m, t)
             /\ \A q \in Ranks : q # n => Arrivals(d, q, t) = Arrivals(c, q, t)
  <2>1. /\ Arrivals(d, n, t) = Arrivals(c, n, t) - ArrivalsAt(c[r][n], t) + ArrivalsAt(d[r][n], t)
        /\ \A s \in Ranks : s # n => Arrivals(d, s, t) = Arrivals(c, s, t)
    BY <1>1, ArrivalsUpdate
  <2>2. ArrivalsAt(d[r][n], t) = ArrivalsAt(c[r][n], t) + PacketAt(m, t)
    BY <1>2, CountsOfLengthened DEF PacketAt
  <2>3. ArrivalsAt(c[r][n], t) \in Nat /\ Arrivals(c, n, t) \in Nat
    BY <1>1, <1>2, CountsAreCounts, ArrivalsType
  <2>4. PacketAt(m, t) \in Nat
    BY DEF PacketAt
  <2> QED
    BY <2>1, <2>2, <2>3, <2>4
<1> QED
  BY <1>3

\* A message is sent by r to n.
LEMMA ArrivalsAfterSend ==
  ASSUME TypeInv, TypeInv', NEW r \in Ranks, NEW n \in Neighbours(r), NEW message \in Messages,
         channel' = [channel EXCEPT ![r][n] = Append(@, message)]
  PROVE  \A t : /\ Arrivals(channel', n, t) = Arrivals(channel, n, t) + PacketAt(message, t)
               /\ \A q \in Ranks : q # n => Arrivals(channel', q, t) = Arrivals(channel, q, t)
<1>1. PICK c, d : c = channel /\ d = channel'
  OBVIOUS
<1>2. AreChannels(c) /\ AreChannels(d)
  <2>1. AreChannels(c)
    BY <1>1 DEF TypeInv, TypeOK, AreChannels
  <2>2. AreChannels(d)
    BY <1>1 DEF TypeInv, TypeOK, AreChannels
  <2> QED
    BY <2>1, <2>2
<1>3. d[r][n] = Append(c[r][n], message)
  BY <1>1, SendTypes
<1>0. SameButFor(c, d, r, n)
  BY <1>1, SendTypes DEF SameButFor
<1>4. c[r][n] \in Seq(Messages)
  BY <1>2 DEF AreChannels
<1>5. \E k : Lengthened(c[r][n], d[r][n], k, message)
  BY <1>3, <1>4, AppendLengthens
<1>6. LongerBy(c, d, r, n, message)
  BY <1>0, <1>2, <1>5 DEF LongerBy
<1>7. \A t : /\ Arrivals(d, n, t) = Arrivals(c, n, t) + PacketAt(message, t)
            /\ \A q \in Ranks : q # n => Arrivals(d, q, t) = Arrivals(c, q, t)
  BY <1>6, ArrivalsOfLengthened
<1> QED
  BY <1>1, <1>7

\* An event that is not of the application only moves the clock.
LEMMA ClockAdvances ==
  ASSUME TypeInv, NEW A, LinksInv(A), NEW r \in Ranks, NEW kinds, TakeEvent(r, kinds),
         Pending(events', channel') = Pending(events, channel)
  PROVE  Order!Advance(r, events[r][1].ts)
<1> DEFINE t == events[r][1].ts
<1>1. /\ t \in Times /\ currentTs[r] <= t
      /\ \A s \in Times : Pending(events, channel)[r][s] > 0 => s >= t
  BY NothingIsEarlier
<1>2. currentTs' = [currentTs EXCEPT ![r] = t] /\ currentTs[r] \in Nat /\ t \in Nat
  BY <1>1, TakeTypes, StateTypes, RankConstants
<1> HIDE DEF t
<1>3. t >= currentTs[r] /\ Order!Times = Times
  BY <1>1, <1>2 DEF Order!Times, Times
<1>4. Order!Advance(r, t)
  BY <1>1, <1>2, <1>3 DEF Order!Advance
<1> QED
  BY <1>4 DEF t

LEMMA ProcessAppInOrder ==
  ASSUME TypeInv, TypeInv', NEW A, LinksInv(A), NEW r \in Ranks, RankStep(r),
         ProcessApp(r) \/ ProcessStop(r)
  PROVE  Order!Next
<1>1. PICK kinds : /\ TakeEvent(r, kinds) /\ kinds \in {{"app", "sent"}, {"stop"}}
                   /\ events' = [events EXCEPT ![r] = Tail(@)] /\ channel' = channel
  BY DEF ProcessApp, ProcessStop
<1> DEFINE event == events[r][1]
<1>2. event.ts \in Times /\ event.kind \in {"app", "sent", "stop"}
  <2>1. event.ts \in Times /\ event.kind \in kinds
    BY <1>1, TakeTypes
  <2> QED
    BY <1>1, <2>1
<1>3. Order!Times = Times
  BY DEF Order!Times, Times
<1>4. CASE event.kind # "sent"
  <2>1. IsApplication(event)
    BY <1>2, <1>4 DEF IsApplication
  <2>2. Order!Process(r, event.ts)
    BY <1>1, <2>1, ApplicationIsProcessed
  <2> QED
    BY <1>2, <1>3, <2>2 DEF Order!Next
<1>5. CASE event.kind = "sent"
  <2>1. ~IsApplication(event)
    BY <1>5 DEF IsApplication
  <2>2. /\ events \in Lists /\ events' \in Lists /\ AreChannels(channel) /\ AreChannels(channel')
        /\ \A n \in Ranks : n # r => events'[n] = events[n]
    BY StepTables
  <2>3. events'[r] = Tail(events[r])
    BY <1>1, StateTypes
  <2>4. \A s : /\ ApplicationAt(events[r], s) = ApplicationAt(events'[r], s)
    <3>1. \A s : /\ ApplicationAt(events[r], s) = ApplicationAt(Tail(events[r]), s)
                       + IF IsApplication(event) /\ event.ts = s THEN 1 ELSE 0
                 /\ ApplicationAt(Tail(events[r]), s) \in Nat
      BY <1>1, PendingAfterTake
    <3> QED
      BY <2>1, <2>3, <3>1
  <2>5. \A n \in Ranks : \A s \in Times :
          ApplicationAt(events'[n], s) + Arrivals(channel', n, s) =
            ApplicationAt(events[n], s) + Arrivals(channel, n, s)
    BY <1>1, <2>2, <2>4
  <2>6. Pending(events', channel') = Pending(events, channel)
    BY <2>5 DEF Pending
  <2>7. Order!Advance(r, event.ts)
    BY <1>1, <2>6, ClockAdvances
  <2> QED
    BY <1>2, <1>3, <2>7 DEF Order!Next
<1> QED
  BY <1>4, <1>5

LEMMA NullMessagesInOrder ==
  ASSUME TypeInv, TypeInv', NEW A, LinksInv(A), NEW r \in Ranks, RankStep(r),
         NullMessageEventHandler(r)
  PROVE  Order!Next
<1> DEFINE event == events[r][1]
           tail == Tail(events[r])
<1>1. TakeEvent(r, {"null"})
  BY DEF NullMessageEventHandler
<1>2. /\ event.ts \in Times /\ event.ts \in Nat /\ tail \in Seq(Events) /\ ~IsApplication(event)
      /\ stop[r] = FALSE /\ ListOk(tail, r, stop[r])
  <2>1. event.kind \in {"null"}
    BY <1>1, TakeTypes
  <2>2. ~IsApplication(event)
    BY <2>1 DEF IsApplication
  <2> QED
    BY <1>1, <2>1, <2>2, TakeTypes
<1>3. /\ events \in Lists /\ events' \in Lists /\ AreChannels(channel) /\ AreChannels(channel')
      /\ \A n \in Ranks : n # r => events'[n] = events[n]
  BY StepTables
<1>4. \A s : ApplicationAt(events[r], s) = ApplicationAt(tail, s)
  <2>1. \A s : /\ ApplicationAt(events[r], s) = ApplicationAt(tail, s)
                    + IF IsApplication(event) /\ event.ts = s THEN 1 ELSE 0
               /\ ApplicationAt(tail, s) \in Nat
    BY <1>1, PendingAfterTake
  <2> QED
    BY <1>2, <2>1
<1>5. /\ \A s : ApplicationAt(events'[r], s) = ApplicationAt(events[r], s)
      /\ \A q \in Ranks : \A t : Arrivals(channel', q, t) = Arrivals(channel, q, t)
  <2>1. CASE event.cancelled
    <3>1. events' = [events EXCEPT ![r] = tail] /\ channel' = channel
      BY <2>1 DEF NullMessageEventHandler
    <3>2. events'[r] = tail
      BY <3>1, StateTypes
    <3> QED
      BY <1>4, <3>1, <3>2
  <2>2. CASE ~event.cancelled
    <3> DEFINE n == event.to
               g == CalculateGuaranteeTime(r, n, tail)
               longer == ScheduleNullMessageEvent(tail, r, n, event.ts)
    <3>1. /\ n \in Neighbours(r) /\ NullMessage(g) \in Messages
          /\ channel' = [channel EXCEPT ![r][n] = Append(@, NullMessage(g))]
          /\ events' = [events EXCEPT ![r] = longer] /\ longer \in Seq(Events)
          /\ \E k, t : /\ NullEvent(t, n) \in Events /\ t \in Nat
                        /\ Lengthened(tail, longer, k, NullEvent(t, n))
      BY <2>2, NullMessageSends
    <3>2. events'[r] = longer
      BY <3>1, StateTypes
    <3>3. PICK k, t : NullEvent(t, n) \in Events /\ Lengthened(tail, longer, k, NullEvent(t, n))
      BY <3>1
    <3>4. ~IsApplication(NullEvent(t, n)) /\ NullMessage(g).time = 0
      BY DEF NullEvent, IsApplication, NullMessage, Packet
    <3> HIDE DEF tail, event, g, n, longer
    <3>5. ASSUME NEW s
          PROVE  ApplicationAt(longer, s) = ApplicationAt(tail, s)
      <4>1. ApplicationAt(longer, s) = ApplicationAt(tail, s)
              + IF IsApplication(NullEvent(t, n)) /\ NullEvent(t, n).ts = s THEN 1 ELSE 0
        BY <1>2, <3>1, <3>3, CountsOfLengthened
      <4>2. ApplicationAt(tail, s) \in Nat
        BY <1>2, CountsAreCounts
      <4> QED
        BY <3>4, <4>1, <4>2
    <3>6. ASSUME NEW q \in Ranks, NEW u
          PROVE  Arrivals(channel', q, u) = Arrivals(channel, q, u)
      <4>1. PICK message, x : message = NullMessage(g) /\ x = n
        OBVIOUS
      <4>2. /\ x \in Neighbours(r) /\ message \in Messages
            /\ channel' = [channel EXCEPT ![r][x] = Append(@, message)]
        BY <3>1, <4>1
      <4>3. /\ Arrivals(channel', x, u) = Arrivals(channel, x, u) + PacketAt(message, u)
            /\ \A s \in Ranks : s # x => Arrivals(channel', s, u) = Arrivals(channel, s, u)
        BY <4>2, ArrivalsAfterSend
      <4>4. Arrivals(channel, q, u) \in Nat
        BY <1>3, ArrivalsType
      <4>5. PacketAt(message, u) = 0
        BY <3>4, <4>1 DEF PacketAt
      <4> QED
        BY <4>3, <4>4, <4>5
    <3> QED
      BY <1>4, <3>2, <3>5, <3>6
  <2> QED
    BY <2>1, <2>2
<1>6. \A n \in Ranks : \A s \in Times :
        ApplicationAt(events'[n], s) + Arrivals(channel', n, s) =
          ApplicationAt(events[n], s) + Arrivals(channel, n, s)
  BY <1>3, <1>5
<1>7. Pending(events', channel') = Pending(events, channel)
  BY <1>6 DEF Pending
<1>8. Order!Advance(r, event.ts) /\ Order!Times = Times
  BY <1>1, <1>7, ClockAdvances DEF Order!Times, Times
<1> QED
  BY <1>2, <1>8 DEF Order!Next

\* A rank schedules an event of its own.
LEMMA ScheduleInOrder ==
  ASSUME TypeInv, TypeInv', NEW r \in Ranks, RankStep(r), Schedule(r)
  PROVE  Order!Next
<1>1. PICK d \in Delays :
        /\ currentTs[r] + d <= MaxTime
        /\ events' = [events EXCEPT ![r] = InsertEvent(@, App(currentTs[r] + d))]
  BY DEF Schedule
<1>2. channel' = channel /\ currentTs' = currentTs
  BY DEF Schedule
<1> DEFINE t == currentTs[r] + d
           event == App(t)
           longer == InsertEvent(events[r], event)
           f == Pending(events, channel)
<1>3. /\ currentTs[r] \in Nat /\ d \in Nat /\ events[r] \in Seq(Events) /\ r \in DOMAIN events
      /\ MaxTime \in Nat
  BY StateTypes, RankAssumption
<1>4. t \in Nat /\ t \in Times /\ t >= currentTs[r]
  BY <1>1, <1>3 DEF Times
<1> HIDE DEF t
<1>5. event \in Events /\ event.ts = t /\ IsApplication(event)
  BY <1>4, EventTypes DEF IsApplication
<1>6. events'[r] = longer
  BY <1>1, <1>3 DEF t
<1> HIDE DEF event
<1>7. longer \in Seq(Events) /\ \E k : Lengthened(events[r], longer, k, event)
  BY <1>3, <1>5, InsertEventOrdered
<1> HIDE DEF longer
<1>8. \A s : /\ ApplicationAt(longer, s) = ApplicationAt(events[r], s)
                   + IF IsApplication(event) /\ event.ts = s THEN 1 ELSE 0
             /\ ApplicationAt(events[r], s) \in Nat
  BY <1>3, <1>5, <1>7, CountsOfLengthened, CountsAreCounts
<1>9. /\ events \in Lists /\ events' \in Lists /\ AreChannels(channel)
      /\ \A n \in Ranks : n # r => events'[n] = events[n]
  BY StepTables
<1>10. Pending(events', channel) = Changed(f, r, t, 1)
  <2>1. PICK lists, more, c, u : lists = events /\ more = events' /\ c = channel /\ u = t
    OBVIOUS
  <2>2. /\ lists \in Lists /\ more \in Lists /\ AreChannels(c) /\ u \in Times
        /\ \A n \in Ranks : n # r => more[n] = lists[n]
    BY <1>4, <1>9, <2>1
  <2>3. \A s \in Times :
          ApplicationAt(more[r], s) = ApplicationAt(lists[r], s) + IF s = u THEN 1 ELSE 0
    BY <1>5, <1>6, <1>8, <2>1
  <2>4. Pending(more, c) = Changed(Pending(lists, c), r, u, 1)
    BY <2>2, <2>3, PendingListUpdate
  <2> QED
    BY <2>1, <2>4
<1>11. Pending(events', channel') = [f EXCEPT ![r][t] = @ + 1]
  BY <1>2, <1>10 DEF Changed
<1>12. Order!Schedule(r, t) /\ Order!Times = Times
  BY <1>2, <1>4, <1>11 DEF Order!Schedule, Order!Times, Times
<1> QED
  BY <1>4, <1>12 DEF Order!Next

\* A packet is sent to n: there is one more for n.
LEMMA PendingAfterSend ==
  ASSUME TypeInv, TypeInv', NEW r \in Ranks, RankStep(r), NEW n \in Neighbours(r),
         NEW message \in Messages, message.time # 0,
         channel' = [channel EXCEPT ![r][n] = Append(@, message)],
         \A s : ApplicationAt(events'[r], s) = ApplicationAt(events[r], s)
  PROVE  Pending(events', channel') = Changed(Pending(events, channel), n, message.time, 1)
<1>1. PICK lists, more, c, d : lists = events /\ more = events' /\ c = channel /\ d = channel'
  OBVIOUS
<1>2. /\ lists \in Lists /\ more \in Lists /\ AreChannels(c) /\ AreChannels(d)
      /\ \A q \in Ranks : q # r => more[q] = lists[q]
  BY <1>1, StepTables
<1>3. \A q \in Ranks : \A s : ApplicationAt(more[q], s) = ApplicationAt(lists[q], s)
  BY <1>1, <1>2
<1>4. \A s : /\ Arrivals(d, n, s) = Arrivals(c, n, s) + PacketAt(message, s)
             /\ \A q \in Ranks : q # n => Arrivals(d, q, s) = Arrivals(c, q, s)
  BY <1>1, ArrivalsAfterSend
<1> DEFINE t == message.time
<1>5. n \in Ranks /\ t \in Times /\ t # 0
  BY RankConstants DEF Messages
<1>6. \A s : PacketAt(message, s) = IF s = t THEN 1 ELSE 0
  BY <1>5 DEF PacketAt
<1> HIDE DEF t
<1>7. ASSUME NEW q \in Ranks, NEW s \in Times
      PROVE  ApplicationAt(more[q], s) + Arrivals(d, q, s) =
               ApplicationAt(lists[q], s) + Arrivals(c, q, s) + IF q = n /\ s = t THEN 1 ELSE 0
  <2>1. /\ ApplicationAt(lists[q], s) \in Nat /\ Arrivals(c, q, s) \in Nat
    BY <1>2, PendingType
  <2>2. CASE q = n
    <3>1. CASE s = t
      <4>1. Arrivals(d, q, s) = Arrivals(c, q, s) + 1
        BY <1>4, <1>6, <2>2, <3>1
      <4> QED
        BY <1>3, <2>1, <2>2, <3>1, <4>1
    <3>2. CASE s # t
      <4>1. Arrivals(d, q, s) = Arrivals(c, q, s) + 0
        BY <1>4, <1>6, <2>2, <3>2
      <4> QED
        BY <1>3, <2>1, <3>2, <4>1
    <3> QED
      BY <3>1, <3>2
  <2>3. CASE q # n
    <3>1. Arrivals(d, q, s) = Arrivals(c, q, s)
      BY <1>4, <2>3
    <3> QED
      BY <1>3, <2>1, <2>3, <3>1
  <2> QED
    BY <2>2, <2>3
<1>8. Pending(more, d) = Changed(Pending(lists, c), n, t, 1)
  BY <1>2, <1>5, <1>7, PendingUpdate
<1> QED
  BY <1>1, <1>8 DEF t

\* A message is received: what was on its way is in the list.
LEMMA PendingAfterReceipt ==
  ASSUME TypeInv, TypeInv', NEW r \in Ranks, RankStep(r), NEW n \in Neighbours(r),
         ReceiveMessage(r, n)
  PROVE  Pending(events', channel') = Pending(events, channel)
<1>1. PICK lists, more, c, d : lists = events /\ more = events' /\ c = channel /\ d = channel'
  OBVIOUS
<1>2. /\ lists \in Lists /\ more \in Lists /\ AreChannels(c) /\ AreChannels(d)
      /\ \A q \in Ranks : q # r => more[q] = lists[q]
  BY <1>1, StepTables
<1>3. PICK m : m = Head(channel[n][r])
  OBVIOUS
<1>4. n \in Ranks /\ r \in Neighbours(n)
  BY RankConstants
<1>5. /\ m \in Messages /\ m = c[n][r][1]
      /\ d = [c EXCEPT ![n][r] = Tail(c[n][r])] /\ Tail(c[n][r]) \in Seq(Messages)
      /\ Lengthened(Tail(c[n][r]), c[n][r], 1, m)
  BY <1>1, <1>3, ReceiveTypes
<1>6. /\ d[n][r] = Tail(c[n][r])
      /\ \A s \in Ranks : \A q \in Neighbours(s) : ~(s = n /\ q = r) => d[s][q] = c[s][q]
  <2> DEFINE tail == Tail(c[n][r])
  <2>1. tail \in Seq(Messages) /\ d = [c EXCEPT ![n][r] = tail]
    BY <1>5
  <2> HIDE DEF tail
  <2>2. LET e == [c EXCEPT ![n][r] = tail]
        IN /\ e[n][r] = tail
           /\ \A s \in Ranks : \A q \in Neighbours(s) : ~(s = n /\ q = r) => e[s][q] = c[s][q]
    BY <1>2, <1>4, <2>1, ChannelsUpdated DEF AreChannels
  <2> QED
    BY <2>1, <2>2 DEF tail
<1>7. LongerBy(d, c, n, r, m) /\ m \in Messages
  <2>1. SameButFor(d, c, n, r)
    BY <1>6 DEF SameButFor
  <2> QED
    BY <1>2, <1>5, <1>6, <2>1 DEF LongerBy
<1>8. \A s : /\ Arrivals(c, r, s) = Arrivals(d, r, s) + PacketAt(m, s)
             /\ \A q \in Ranks : q # r => Arrivals(c, q, s) = Arrivals(d, q, s)
  BY <1>4, <1>7, ArrivalsOfLengthened
<1>9. \A s : ApplicationAt(more[r], s) = ApplicationAt(lists[r], s) + PacketAt(m, s)
  <2>1. CASE m.time = 0
    <3>1. more[r] = lists[r]
      BY <1>1, <1>3, <2>1, ReceiveTypes
    <3>2. \A s : PacketAt(m, s) = 0 /\ ApplicationAt(lists[r], s) \in Nat
      BY <1>2, <2>1, CountsAreCounts DEF PacketAt, Lists
    <3> QED
      BY <3>1, <3>2
  <2>2. CASE m.time # 0
    <3> DEFINE event == App(m.time)
               longer == InsertEvent(events[r], event)
    <3>1. /\ event \in Events /\ events' = [events EXCEPT ![r] = longer]
          /\ events[r] \in Seq(Events) /\ r \in DOMAIN events
      BY <1>3, <2>2, ReceiveTypes, StateTypes
    <3>2. m.time \in Nat
      BY <1>5, RankConstants DEF Messages
    <3>3. IsApplication(event) /\ event.ts = m.time
      BY <3>2, EventTypes DEF IsApplication
    <3> HIDE DEF event
    <3>4. longer \in Seq(Events) /\ \E k : Lengthened(events[r], longer, k, event)
      BY <3>1, InsertEventOrdered
    <3> HIDE DEF longer
    <3>5. \A s : /\ ApplicationAt(longer, s) = ApplicationAt(events[r], s)
                       + IF IsApplication(event) /\ event.ts = s THEN 1 ELSE 0
      BY <3>1, <3>4, CountsOfLengthened
    <3>6. \A s : PacketAt(m, s) = IF m.time = s THEN 1 ELSE 0
      BY <2>2 DEF PacketAt
    <3>7. more[r] = longer /\ lists[r] = events[r]
      BY <1>1, <3>1
    <3> QED
      BY <3>3, <3>5, <3>6, <3>7
  <2> QED
    BY <2>1, <2>2
<1>10. ASSUME NEW q \in Ranks, NEW s \in Times
       PROVE  ApplicationAt(more[q], s) + Arrivals(d, q, s) =
                ApplicationAt(lists[q], s) + Arrivals(c, q, s)
  <2>1. /\ ApplicationAt(lists[q], s) \in Nat /\ Arrivals(c, q, s) \in Nat
        /\ Arrivals(d, q, s) \in Nat /\ PacketAt(m, s) \in Nat
    BY <1>2, PendingType DEF PacketAt
  <2>2. CASE q = r
    BY <1>8, <1>9, <2>1, <2>2
  <2>3. CASE q # r
    BY <1>2, <1>8, <2>1, <2>3
  <2> QED
    BY <2>2, <2>3
<1>11. Pending(more, d) = Pending(lists, c)
  BY <1>2, <1>10, PendingKept
<1> QED
  BY <1>1, <1>11

\* A packet is sent that does not arrive in the past of its receiver.
LEMMA SendInOrder ==
  ASSUME SingleChannels, TypeInv, TypeInv', NEW A, LinksInv(A), NEW r \in Ranks, RankStep(r),
         SendPacket(r)
  PROVE  Order!Next
<1>1. PICK n, d, tx, list : Sends(r, n, d, tx, list)
  BY SendPacketSends
<1>2. pc[r] = "handler" /\ currentTs' = currentTs
  BY SendPacketSends
<1>3. PICK t, message : /\ t = currentTs[r] + tx + d
                        /\ message = Packet(t, CalculateGuaranteeTime(r, n, list))
  OBVIOUS
<1>4. /\ n \in Neighbours(r) /\ message \in Messages /\ message.time = t
      /\ channel' = [channel EXCEPT ![r][n] = Append(@, message)]
  BY <1>1, <1>3, SendPacketTypes DEF Packet
<1>5. /\ n \in Ranks /\ r \in Neighbours(n) /\ d \in Links[r][n] /\ d \in Nat /\ d > 0 /\ tx \in Nat
      /\ currentTs[r] \in Nat /\ currentTs[n] \in Nat /\ ~IsBusy(r, n, d)
  <2>1. n \in Ranks /\ r \in Neighbours(n)
    BY <1>4, RankConstants
  <2>2. d \in Links[r][n] /\ tx \in TxTimes /\ ~IsBusy(r, n, d)
    BY <1>1 DEF Sends
  <2>3. currentTs[r] \in Nat /\ currentTs[n] \in Nat
    BY <2>1, StateTypes
  <2> QED
    BY <2>1, <2>2, <2>3, RankAssumption
<1>6. t \in Nat /\ t \in Times /\ t # 0 /\ t >= currentTs[r] + d
  BY <1>1, <1>3, <1>5, RankConstants DEF Times, Sends
<1>7. t >= currentTs[n]
  <2>1. ~Busy(events[r], n) /\ d = Delay(r, n)
    BY <1>4, <1>5, DeviceIsFree
  <2>2. currentTs[n] <= A[n][r] /\ A[n][r] \in Nat
    BY <1>4, <1>5, GivenType DEF LinksInv, LinkInv
  <2>3. A[n][r] \in Given(A, r, n)
    BY DEF Given
  <2>4. Promised(r, n, A[n][r])
    BY <1>5, <2>3 DEF LinksInv, LinkInv
  <2>5. A[n][r] <= currentTs[r] + Delay(r, n)
    BY <1>2, <2>1, <2>4 DEF Promised
  <2> QED
    BY <1>5, <1>6, <2>1, <2>2, <2>5
<1>8. \A s : ApplicationAt(events'[r], s) = ApplicationAt(events[r], s)
  <2> DEFINE event == TransmitComplete(currentTs[r] + tx, n, d)
             other == Cancelled(list, n)
             longer == ScheduleNullMessageEvent(other, r, n, currentTs[r])
  <2>1. /\ events[r] \in Seq(Events) /\ ListOk(events[r], r, stop[r]) /\ r \in DOMAIN events
        /\ safeTime[r] \in Nat
    BY StateTypes
  <2>2. /\ event \in Events /\ list \in Seq(Events) /\ \E k : Lengthened(events[r], list, k, event)
        /\ other \in Seq(Events) /\ ListOk(other, r, stop[r])
    BY <1>1, <1>5, <2>1, SendsFacts
  <2>3. events' = [events EXCEPT ![r] = longer]
    BY <1>1 DEF Sends
  <2>4. ~IsApplication(event)
    BY DEF TransmitComplete, IsApplication
  <2> HIDE DEF event
  <2>5. \A s : ApplicationAt(list, s) = ApplicationAt(events[r], s)
    <3>1. \A s : /\ ApplicationAt(list, s) = ApplicationAt(events[r], s)
                      + IF IsApplication(event) /\ event.ts = s THEN 1 ELSE 0
                 /\ ApplicationAt(events[r], s) \in Nat
      BY <2>1, <2>2, CountsOfLengthened, CountsAreCounts
    <3> QED
      BY <2>4, <3>1
  <2>6. \A s : ApplicationAt(other, s) = ApplicationAt(list, s)
    BY <2>2, CancelledIsAlike, CountsOfAlike
  <2> HIDE DEF other
  <2>7. /\ longer \in Seq(Events)
        /\ \E k, u : NullEvent(u, n) \in Events /\ Lengthened(other, longer, k, NullEvent(u, n))
    BY <1>4, <1>5, <2>2, NullEventInserted
  <2>8. events'[r] = longer
    BY <2>1, <2>3
  <2> HIDE DEF longer
  <2>9. PICK k, u : NullEvent(u, n) \in Events /\ Lengthened(other, longer, k, NullEvent(u, n))
    BY <2>7
  <2>10. \A s : ApplicationAt(longer, s) = ApplicationAt(other, s)
    <3>1. PICK e : e = NullEvent(u, n)
      OBVIOUS
    <3>2. e \in Events /\ Lengthened(other, longer, k, e) /\ ~IsApplication(e)
      BY <2>9, <3>1 DEF NullEvent, IsApplication
    <3>3. \A s : /\ ApplicationAt(longer, s) = ApplicationAt(other, s)
                      + IF IsApplication(e) /\ e.ts = s THEN 1 ELSE 0
                 /\ ApplicationAt(other, s) \in Nat
      BY <2>2, <2>7, <3>2, CountsOfLengthened, CountsAreCounts
    <3> QED
      BY <3>2, <3>3
  <2> QED
    BY <2>5, <2>6, <2>8, <2>10
<1>9. Pending(events', channel') = Changed(Pending(events, channel), n, t, 1)
  BY <1>4, <1>6, <1>8, PendingAfterSend
<1>10. Order!Send(r, n, t) /\ Order!Times = Times
  BY <1>2, <1>5, <1>6, <1>7, <1>9 DEF Order!Send, Order!Times, Times, Changed
<1> QED
  BY <1>5, <1>6, <1>10 DEF Order!Next

\* Every step of the ranks is a step of the sequential order, or none.
LEMMA StepInOrder ==
  ASSUME SingleChannels, TypeInv, TypeInv', NEW A, LinksInv(A), [Next]_vars
  PROVE  [Order!Next]_(Order!vars)
<1>1. CASE UNCHANGED vars
  BY <1>1 DEF vars, Order!vars
<1>2. CASE Next
  <2>1. PICK r \in Ranks : RankStep(r)
    BY <1>2 DEF Next
  <2>2. CASE Schedule(r)
    BY <2>1, <2>2, ScheduleInOrder
  <2>3. CASE SendPacket(r)
    BY <2>1, <2>3, SendInOrder
  <2>4. CASE ProcessApp(r) \/ ProcessStop(r)
    BY <2>1, <2>4, ProcessAppInOrder
  <2>5. CASE NullMessageEventHandler(r)
    BY <2>1, <2>5, NullMessagesInOrder
  <2>6. ASSUME NEW n \in Neighbours(r), ReceiveMessage(r, n), currentTs' = currentTs
        PROVE  UNCHANGED Order!vars
    <3>1. Pending(events', channel') = Pending(events, channel)
      BY <2>1, <2>6, PendingAfterReceipt
    <3> QED
      BY <2>6, <3>1 DEF Order!vars
  <2>7. CASE ReceiveMessagesNonBlocking(r) \/ HandleArrivingMessagesBlocking(r)
    <3>1. currentTs' = currentTs
      BY <2>7 DEF ReceiveMessagesNonBlocking, HandleArrivingMessagesBlocking
    <3>2. CASE UNCHANGED <<events, guarantee, channel>>
      BY <3>1, <3>2 DEF Order!vars
    <3>3. CASE \E n \in Neighbours(r) : ReceiveMessage(r, n)
      BY <2>6, <3>1, <3>3
    <3> QED
      BY <2>7, <3>2, <3>3, BlockingReceives DEF ReceiveMessagesNonBlocking
  <2>8. CASE HandlerReturns(r) \/ NoMessageHasArrived(r) \/ RunReturns(r)
    <3>1. UNCHANGED <<events, currentTs, channel>>
      BY <2>8 DEF HandlerReturns, NoMessageHasArrived, RunReturns
    <3> QED
      BY <3>1 DEF Order!vars
  <2> QED
    BY <2>1, <2>2, <2>3, <2>4, <2>5, <2>7, <2>8 DEF RankStep
<1> QED
  BY <1>1, <1>2

\* With one channel between two ranks the null-message simulator promises what
\* a sequential one does: every rank processes its events in time order, and no
\* packet arrives in the past of its receiver.
THEOREM NullMessageRanksKeepTheOrder == ASSUME SingleChannels PROVE Spec => ImplementsSequentialOrder
<1>1. Init => Order!Init
  <2> SUFFICES ASSUME Init PROVE Order!Init
    OBVIOUS
  <2>1. TypeInv
    BY InitType
  <2>2. Pending(events, channel) \in [Ranks -> [Times -> Nat]]
    BY <2>1, PendingType DEF TypeInv, TypeOK, Lists, AreChannels
  <2>3. Order!Times = Times
    BY DEF Order!Times, Times
  <2> QED
    BY <2>2, <2>3 DEF Init, Order!Init
<1>2. GuaranteeInv /\ GuaranteeInv' /\ [Next]_vars => [Order!Next]_(Order!vars)
  BY StepInOrder DEF GuaranteeInv
<1> QED
  BY <1>1, <1>2, GuaranteeInvariant, PTL DEF Spec, Order!Spec, ImplementsSequentialOrder

==============================================================================
