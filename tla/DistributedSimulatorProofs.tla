---------------------- MODULE DistributedSimulatorProofs ----------------------
(***************************************************************************)
(* Proofs about the granted time window synchronisation, for any number of *)
(* ranks, channels between them, delays, stop times and look-ahead bounds. *)
(***************************************************************************)
EXTENDS DistributedSimulatorImpl, CommonLemmas

Events == [ts : Times, kind : {"app", "stop"}]
Contributions == [rx : Nat, tx : Nat, finished : BOOLEAN, smallest : 0 .. Infinity]

------------------------------------------------------------------------------
(* Event lists. *)

LEMMA RankConstants ==
  /\ MaxTime \in Nat /\ Infinity \in Nat /\ Infinity = MaxTime + 1
  /\ Times \subseteq Nat /\ 0 \in Times
  /\ IsFiniteSet(Ranks) /\ Ranks # {}
BY RankAssumption DEF Times, Infinity

LEMMA EventTimes ==
  /\ \A e \in Events : e.ts \in Times /\ e.ts \in Nat /\ e.ts <= MaxTime
  /\ \A list \in Seq(Events) :
       /\ DOMAIN list = 1 .. Len(list) /\ Len(list) \in Nat
       /\ \A i \in DOMAIN list : list[i] \in Events /\ list[i].ts \in Nat
<1>1. \A e \in Events : e.ts \in Times /\ e.ts \in Nat /\ e.ts <= MaxTime
  BY RankConstants DEF Events, Times
<1>2. ASSUME NEW list \in Seq(Events)
      PROVE  /\ DOMAIN list = 1 .. Len(list) /\ Len(list) \in Nat
             /\ \A i \in DOMAIN list : list[i] \in Events
  BY LenProperties, ElementOfSeq
<1> QED
  BY <1>1, <1>2

\* Scheduler::Insert keeps the order.
LEMMA InsertEventOrdered ==
  ASSUME NEW list \in Seq(Events), NEW event \in Events
  PROVE  /\ InsertEvent(list, event) \in Seq(Events)
         /\ \E k : Lengthened(list, InsertEvent(list, event), k, event)
         /\ Ordered(list) => Ordered(InsertEvent(list, event))
<1>1. HaveTimes(Events)
  BY EventTimes DEF HaveTimes
<1>2. InsertEvent(list, event) = Inserted(list, event)
  BY DEF InsertEvent, Inserted
<1> QED
  BY <1>1, <1>2, InsertedIsOrdered

\* The next event is the earliest, and taking it leaves the order as it is.
LEMMA TailOrdered ==
  ASSUME NEW list \in Seq(Events), list # <<>>, Ordered(list)
  PROVE  /\ list[1] \in Events /\ \A i \in DOMAIN list : list[1].ts <= list[i].ts
         /\ Tail(list) \in Seq(Events) /\ Ordered(Tail(list))
         /\ Lengthened(Tail(list), list, 1, list[1])
<1>1. HaveTimes(Events)
  BY EventTimes DEF HaveTimes
<1> QED
  BY <1>1, TailIsOrdered

\* Events at a time are counted by CountAt.
LEMMA CountAtOfLengthened ==
  ASSUME NEW list \in Seq(Events), NEW longer \in Seq(Events), NEW k, NEW event \in Events,
         Lengthened(list, longer, k, event), NEW t
  PROVE  CountAt(longer, t) = CountAt(list, t) + IF event.ts = t THEN 1 ELSE 0
<1> DEFINE T == {x \in Events : x.ts = t}
<1>1. \A l \in Seq(Events) : CountAt(l, t) = CountIn(l, T)
  <2> SUFFICES ASSUME NEW l \in Seq(Events)
               PROVE  {i \in DOMAIN l : l[i].ts = t} = {i \in DOMAIN l : l[i] \in T}
    BY DEF CountAt, CountIn
  <2> QED
    BY EventTimes
<1>2. event \in T <=> event.ts = t
  OBVIOUS
<1> HIDE DEF T
<1> QED
  BY <1>1, <1>2, CountOfLengthened

LEMMA CountAtPositive ==
  ASSUME NEW list \in Seq(Events), NEW t
  PROVE  /\ CountAt(list, t) \in Nat
         /\ CountAt(list, t) > 0 <=> \E i \in DOMAIN list : list[i].ts = t
<1> DEFINE T == {i \in DOMAIN list : list[i].ts = t}
<1>1. IsFiniteSet(T)
  <2>1. IsFiniteSet(DOMAIN list) /\ T \in SUBSET DOMAIN list
    BY EventTimes, FS_Interval
  <2> QED
    BY <2>1, FS_Subset
<1>2. Cardinality(T) \in Nat /\ (Cardinality(T) = 0 <=> T = {})
  <2> HIDE DEF T
  <2> QED
    BY <1>1, FS_CardinalityType, FS_EmptySet
<1>3. T # {} <=> \E i \in DOMAIN list : list[i].ts = t
  OBVIOUS
<1> QED
  BY <1>2, <1>3 DEF CountAt

------------------------------------------------------------------------------
(* Type correctness. *)

DistTypeOK ==
  /\ pc \in [Ranks -> {"loop", "handler", "receive", "gather"}]
  /\ events \in [Ranks -> Seq(Events)]
  /\ transit \in [Ranks -> Seq(Events)]
  /\ currentTs \in [Ranks -> Times]
  /\ stop \in [Ranks -> BOOLEAN]
  /\ lookAhead \in [Ranks -> 1 .. Infinity]
  /\ grantedTime \in [Ranks -> Nat]
  /\ lbts \in [Ranks -> Contributions]
  /\ globalFinished \in BOOLEAN
  /\ rxCount \in [Ranks -> Nat]
  /\ txCount \in [Ranks -> Nat]

\* CalculateLookAhead: positive, and no channel to a rank is faster than what the
\* rank looks ahead by.
LEMMA LookAheadType ==
  ASSUME NEW r \in Ranks, NEW bound \in Bounds
  PROVE  /\ LookAhead(r, bound) \in 1 .. Infinity
         /\ \A n \in Ranks : \A d \in Links[n][r] : LookAhead(r, bound) <= d
<1> DEFINE own == [n \in Ranks |-> OwnLookAhead(n, bound)]
           known == {OwnLookAhead(n, bound) : n \in Ranks} \ {Infinity}
<1>1. bound \in 1 .. Infinity /\ Infinity \in Nat /\ Infinity = MaxTime + 1 /\ MaxTime \in Nat
  BY RankConstants, DistributedAssumption
<1>2. ASSUME NEW n \in Ranks
      PROVE  /\ own[n] \in 1 .. Infinity
             /\ \A m \in Ranks : \A d \in Links[n][m] : own[n] <= d
  <2> DEFINE delays == UNION {Links[n][m] : m \in Ranks}
             T == {bound} \cup delays
  <2>1. \A m \in Ranks : Links[n][m] \subseteq Nat \ {0}
    BY RankAssumption
  <2>2. T \subseteq Nat /\ 0 \notin T /\ bound \in T
    BY <1>1, <2>1
  <2>3. \A m \in Ranks : \A d \in Links[n][m] : d \in T
    OBVIOUS
  <2>4. own[n] = Min(T)
    BY DEF OwnLookAhead
  <2> HIDE DEF T
  <2>5. Min(T) \in T /\ \A x \in T : Min(T) <= x
    BY <2>2, MinOfNumbers
  <2>6. Min(T) \in Nat /\ Min(T) # 0 /\ Min(T) <= bound
    BY <2>2, <2>5
  <2> QED
    BY <1>1, <2>3, <2>4, <2>5, <2>6
<1>3. known \in SUBSET (1 .. MaxTime)
  BY <1>1, <1>2
<1>4. known # {} => Max(known) \in 1 .. MaxTime
  <2> HIDE DEF known
  <2> QED
    BY <1>1, <1>3, MaxOfPositions
<1>5. LookAhead(r, bound) = IF own[r] = Infinity /\ known # {} THEN Max(known) ELSE own[r]
  BY DEF LookAhead
<1>6. LookAhead(r, bound) \in 1 .. Infinity /\ LookAhead(r, bound) <= own[r]
  <2> HIDE DEF known, own
  <2>1. own[r] \in 1 .. Infinity
    BY <1>2
  <2>2. CASE own[r] = Infinity /\ known # {}
    BY <1>1, <1>4, <1>5, <2>2
  <2>3. CASE ~(own[r] = Infinity /\ known # {})
    BY <1>1, <1>5, <2>1, <2>3
  <2> QED
    BY <2>2, <2>3
<1>7. ASSUME NEW n \in Ranks, NEW d \in Links[n][r]
      PROVE  LookAhead(r, bound) <= d
  <2>1. d \in Links[r][n] /\ d \in Nat
    BY RankAssumption
  <2>2. own[r] <= d
    BY <1>2, <2>1
  <2>3. own[r] \in Nat /\ LookAhead(r, bound) \in Nat
    BY <1>1, <1>2, <1>6
  <2> HIDE DEF own
  <2> QED
    BY <1>6, <2>1, <2>2, <2>3
<1> QED
  BY <1>6, <1>7

\* The next event of a rank.
LEMMA NextTsType ==
  ASSUME DistTypeOK, NEW r \in Ranks
  PROVE  /\ NextTs(r) \in 0 .. Infinity
         /\ IsLocalFinished(r) \in BOOLEAN
         /\ ~IsLocalFinished(r) => /\ events[r] \in Seq(Events) /\ events[r] # <<>> /\ ~stop[r]
                                   /\ events[r][1] \in Events /\ NextTs(r) = events[r][1].ts
                                   /\ NextTs(r) \in Times /\ 1 \in DOMAIN events[r]
<1>1. events[r] \in Seq(Events)
  BY DEF DistTypeOK
<1>2. ASSUME ~IsLocalFinished(r)
      PROVE  /\ events[r] # <<>> /\ ~stop[r] /\ 1 \in DOMAIN events[r]
             /\ events[r][1] \in Events /\ NextTs(r) = events[r][1].ts /\ NextTs(r) \in Times
  <2>1. events[r] # <<>> /\ ~stop[r] /\ NextTs(r) = events[r][1].ts
    BY <1>2 DEF IsLocalFinished, NextTs
  <2>2. 1 \in DOMAIN events[r]
    BY <1>1, <2>1
  <2> QED
    BY <1>1, <2>1, <2>2, EventTimes
<1>3. IsLocalFinished(r) => NextTs(r) = Infinity
  BY DEF NextTs
<1> QED
  BY <1>1, <1>2, <1>3, RankConstants DEF IsLocalFinished, Times

LEMMA InitDistType == Init => DistTypeOK
<1> SUFFICES ASSUME Init PROVE DistTypeOK
  OBVIOUS
<1>1. events \in [Ranks -> Seq(Events)]
  <2>1. PICK told \in SUBSET Ranks, t \in StopTimes :
          events = [r \in Ranks |-> IF r \in told THEN InsertEvent(<<App(Start[r])>>, StopEvent(t))
                                    ELSE <<App(Start[r])>>]
    BY DEF Init
  <2>2. \A r \in Ranks : App(Start[r]) \in Events
    BY DistributedAssumption DEF App, Events
  <2>3. StopEvent(t) \in Events
    BY DistributedAssumption DEF StopEvent, Events
  <2>4. \A r \in Ranks : <<App(Start[r])>> \in Seq(Events)
    BY <2>2
  <2>5. \A r \in Ranks : InsertEvent(<<App(Start[r])>>, StopEvent(t)) \in Seq(Events)
    BY <2>3, <2>4, InsertEventOrdered
  <2> QED
    BY <2>1, <2>4, <2>5
<1>2. lookAhead \in [Ranks -> 1 .. Infinity]
  BY LookAheadType DEF Init
<1>3. grantedTime \in [Ranks -> Nat]
  BY <1>2, RankConstants DEF Init
<1>4. lbts \in [Ranks -> Contributions]
  BY RankConstants DEF Init, Contributions
<1>5. transit \in [Ranks -> Seq(Events)]
  BY DEF Init
<1> QED
  BY <1>1, <1>2, <1>3, <1>4, <1>5, RankConstants DEF Init, DistTypeOK

LEMMA StepDistType ==
  ASSUME DistTypeOK, [Next]_vars
  PROVE  DistTypeOK'
<1>1. ASSUME NEW r \in Ranks, Schedule(r)
      PROVE  DistTypeOK'
  <2>1. PICK d \in Delays :
          /\ currentTs[r] + d <= MaxTime
          /\ events' = [events EXCEPT ![r] = InsertEvent(@, App(currentTs[r] + d))]
    BY <1>1 DEF Schedule
  <2>2. App(currentTs[r] + d) \in Events
    <3>1. currentTs[r] \in Nat /\ d \in Nat
      BY RankAssumption DEF DistTypeOK, Times
    <3>2. currentTs[r] + d \in Times
      BY <2>1, <3>1, RankAssumption DEF Times
    <3> QED
      BY <3>2 DEF App, Events
  <2>3. InsertEvent(events[r], App(currentTs[r] + d)) \in Seq(Events)
    BY <2>2, InsertEventOrdered DEF DistTypeOK
  <2>4. events' \in [Ranks -> Seq(Events)]
    BY <2>1, <2>3 DEF DistTypeOK
  <2> QED
    BY <1>1, <2>4 DEF Schedule, DistTypeOK, windowVars, mpiVars
<1>2. ASSUME NEW r \in Ranks, SendPacket(r)
      PROVE  DistTypeOK'
  <2>0. PICK n \in Neighbours(r) : \E d \in Links[r][n], tx \in TxTimes :
          /\ currentTs[r] + tx + d <= MaxTime
          /\ transit' = [transit EXCEPT ![n] = InsertEvent(@, App(currentTs[r] + tx + d))]
    BY <1>2 DEF SendPacket
  <2>1. PICK d \in Links[r][n], tx \in TxTimes :
          /\ currentTs[r] + tx + d <= MaxTime
          /\ transit' = [transit EXCEPT ![n] = InsertEvent(@, App(currentTs[r] + tx + d))]
    BY <2>0
  <2>2. n \in Ranks /\ d \in Nat /\ tx \in Nat
    BY RankAssumption DEF Neighbours
  <2>3. App(currentTs[r] + tx + d) \in Events
    <3>1. currentTs[r] \in Nat /\ MaxTime \in Nat
      BY RankConstants DEF DistTypeOK
    <3>2. currentTs[r] + tx + d \in Times
      BY <2>1, <2>2, <3>1 DEF Times
    <3> QED
      BY <3>2 DEF App, Events
  <2>4. InsertEvent(transit[n], App(currentTs[r] + tx + d)) \in Seq(Events)
    BY <2>2, <2>3, InsertEventOrdered DEF DistTypeOK
  <2>5. transit' \in [Ranks -> Seq(Events)]
    BY <2>1, <2>4 DEF DistTypeOK
  <2>6. txCount' \in [Ranks -> Nat]
    BY <1>2 DEF SendPacket, DistTypeOK
  <2> QED
    BY <1>2, <2>5, <2>6 DEF SendPacket, DistTypeOK, rankVars, windowVars
<1>3. ASSUME NEW r \in Ranks, HandlerReturns(r)
      PROVE  DistTypeOK'
  BY <1>3 DEF HandlerReturns, DistTypeOK, rankVars, windowVars, mpiVars
<1>4. ASSUME NEW r \in Ranks, ProcessOneEvent(r)
      PROVE  DistTypeOK'
  <2>1. NextTs(r) \in Times /\ events[r] \in Seq(Events) /\ events[r] # <<>>
    BY <1>4, NextTsType DEF ProcessOneEvent
  <2>2. Tail(events[r]) \in Seq(Events)
    BY <2>1, TailShortens
  <2>3. /\ events' = [events EXCEPT ![r] = Tail(@)]
        /\ currentTs' = [currentTs EXCEPT ![r] = NextTs(r)]
        /\ UNCHANGED <<windowVars, mpiVars>>
    BY <1>4 DEF ProcessOneEvent
  <2>4. /\ stop' = stop \/ stop' = [stop EXCEPT ![r] = TRUE]
        /\ pc' = pc \/ pc' = [pc EXCEPT ![r] = "handler"]
    BY <1>4 DEF ProcessOneEvent
  <2>5. events' \in [Ranks -> Seq(Events)] /\ currentTs' \in [Ranks -> Times]
    BY <2>1, <2>2, <2>3 DEF DistTypeOK
  <2>6. stop' \in [Ranks -> BOOLEAN]
    BY <2>4 DEF DistTypeOK
  <2>7. pc' \in [Ranks -> {"loop", "handler", "receive", "gather"}]
    BY <2>4 DEF DistTypeOK
  <2> QED
    BY <2>3, <2>5, <2>6, <2>7 DEF DistTypeOK, windowVars, mpiVars
<1>5. ASSUME NEW r \in Ranks, Synchronize(r)
      PROVE  DistTypeOK'
  BY <1>5 DEF Synchronize, DistTypeOK, rankVars, windowVars, mpiVars
<1>6. ASSUME NEW r \in Ranks, ReceiveMessage(r)
      PROVE  DistTypeOK'
  <2>1. PICK i \in DOMAIN transit[r] :
          /\ transit' = [transit EXCEPT ![r] = RemoveAt(@, i)]
          /\ events' = [events EXCEPT ![r] = InsertEvent(@, transit[r][i])]
    BY <1>6 DEF ReceiveMessage
  <2>2. /\ transit[r] \in Seq(Events) /\ events[r] \in Seq(Events)
        /\ transit[r][i] \in Events
    BY EventTimes DEF DistTypeOK
  <2>3. RemoveAt(transit[r], i) \in Seq(Events)
        /\ InsertEvent(events[r], transit[r][i]) \in Seq(Events)
    BY <2>2, RemoveAtShortens, InsertEventOrdered
  <2>4. transit' \in [Ranks -> Seq(Events)] /\ events' \in [Ranks -> Seq(Events)]
    BY <2>1, <2>3 DEF DistTypeOK
  <2>5. rxCount' \in [Ranks -> Nat]
    BY <1>6 DEF ReceiveMessage, DistTypeOK
  <2> QED
    BY <1>6, <2>4, <2>5 DEF ReceiveMessage, DistTypeOK, windowVars
<1>7. ASSUME NEW r \in Ranks, Contribute(r)
      PROVE  DistTypeOK'
  <2>1. [rx |-> rxCount[r], tx |-> txCount[r], finished |-> IsLocalFinished(r),
         smallest |-> NextTs(r)] \in Contributions
    <3>1. rxCount[r] \in Nat /\ txCount[r] \in Nat
      BY DEF DistTypeOK
    <3>2. IsLocalFinished(r) \in BOOLEAN /\ NextTs(r) \in 0 .. Infinity
      BY NextTsType
    <3> QED
      BY <3>1, <3>2 DEF Contributions
  <2>2. lbts' \in [Ranks -> Contributions]
    BY <1>7, <2>1 DEF Contribute, DistTypeOK
  <2> QED
    BY <1>7, <2>2 DEF Contribute, DistTypeOK, rankVars, mpiVars
<1>8. ASSUME Allgather
      PROVE  DistTypeOK'
  <2> DEFINE smallest == Min({lbts[r].smallest : r \in Ranks})
  <2>1. smallest \in Nat
    <3> DEFINE T == {lbts[r].smallest : r \in Ranks}
    <3>0. \A c \in Contributions : c.smallest \in Nat
      BY DEF Contributions
    <3>1. \A r \in Ranks : lbts[r].smallest \in Nat
      BY <3>0 DEF DistTypeOK
    <3>2. T \subseteq Nat /\ T # {}
      BY <3>1, RankConstants
    <3> HIDE DEF T
    <3>3. Min(T) \in Nat
      BY <3>2, MinOfNumbers
    <3> QED
      BY <3>3 DEF T
  <2>2. \/ grantedTime' = grantedTime
        \/ grantedTime' = [r \in Ranks |-> IF lookAhead[r] = Infinity THEN Infinity
                                           ELSE smallest + lookAhead[r]]
    BY <1>8 DEF Allgather
  <2> HIDE DEF smallest
  <2>3. grantedTime' \in [Ranks -> Nat]
    <3>1. \A r \in Ranks : lookAhead[r] \in Nat /\ smallest + lookAhead[r] \in Nat
      BY <2>1, RankConstants DEF DistTypeOK
    <3> QED
      BY <2>2, <3>1, RankConstants DEF DistTypeOK
  <2>4. globalFinished' \in BOOLEAN
    BY <1>8, Zenon DEF Allgather
  <2>5. pc' \in [Ranks -> {"loop", "handler", "receive", "gather"}]
    BY <1>8 DEF Allgather
  <2>6. UNCHANGED <<rankVars, lookAhead, lbts, mpiVars>>
    BY <1>8 DEF Allgather
  <2> QED
    BY <2>3, <2>4, <2>5, <2>6 DEF DistTypeOK, rankVars, mpiVars
<1>9. CASE UNCHANGED vars
  BY <1>9 DEF vars, DistTypeOK, rankVars, windowVars, mpiVars
<1> QED
  BY <1>1, <1>2, <1>3, <1>4, <1>5, <1>6, <1>7, <1>8, <1>9 DEF Next, RankStep

\* Every member of every rank keeps its type.
THEOREM DistTypeCorrect == Spec => []DistTypeOK
BY InitDistType, StepDistType, PTL DEF Spec

------------------------------------------------------------------------------
(* The granted time window. *)

\* Nothing is processed before a rank's clock, which stays within the window;
\* what is on its way to it lies at the end of the window or behind.
ListsInv ==
  \A r \in Ranks :
    /\ Ordered(events[r])
    /\ \A i \in DOMAIN events[r] : currentTs[r] <= events[r][i].ts
    /\ currentTs[r] <= grantedTime[r]
    /\ \A i \in DOMAIN transit[r] : grantedTime[r] <= transit[r][i].ts

\* All windows begin at the same time, before which no rank has an event left.
Window(begin) ==
  \A r \in Ranks :
    /\ grantedTime[r] = IF lookAhead[r] = Infinity THEN Infinity ELSE begin + lookAhead[r]
    /\ ~stop[r] => \A i \in DOMAIN events[r] : begin <= events[r][i].ts
    /\ pc[r] = "handler" => begin <= currentTs[r]

WindowInv ==
  /\ \A r, n \in Ranks : \A d \in Links[r][n] : lookAhead[n] <= d
  /\ \E begin \in 0 .. Infinity : Window(begin)

LEMMA InitWindow == Init => ListsInv /\ WindowInv
<1> SUFFICES ASSUME Init PROVE ListsInv /\ WindowInv
  OBVIOUS
<1>0. DistTypeOK
  BY InitDistType
<1>1. PICK told \in SUBSET Ranks, t \in StopTimes :
        events = [r \in Ranks |-> IF r \in told THEN InsertEvent(<<App(Start[r])>>, StopEvent(t))
                                  ELSE <<App(Start[r])>>]
  BY DEF Init
<1>2. \A r \in Ranks : Ordered(events[r])
  <2>1. \A r \in Ranks : App(Start[r]) \in Events
    BY DistributedAssumption DEF App, Events
  <2>2. StopEvent(t) \in Events
    BY DistributedAssumption DEF StopEvent, Events
  <2>3. \A r \in Ranks : <<App(Start[r])>> \in Seq(Events) /\ Ordered(<<App(Start[r])>>)
    BY <2>1, EventTimes DEF Ordered
  <2>4. \A r \in Ranks : Ordered(InsertEvent(<<App(Start[r])>>, StopEvent(t)))
    BY <2>2, <2>3, InsertEventOrdered
  <2> QED
    BY <1>1, <2>3, <2>4
<1>3. PICK bound \in Bounds : lookAhead = [r \in Ranks |-> LookAhead(r, bound)]
  BY DEF Init
<1>4. \A r, n \in Ranks : \A d \in Links[r][n] : lookAhead[n] <= d
  BY <1>3, LookAheadType
<1>5. \A r \in Ranks : /\ currentTs[r] = 0 /\ transit[r] = <<>> /\ grantedTime[r] = lookAhead[r]
                       /\ lookAhead[r] \in Nat /\ pc[r] = "loop"
                       /\ \A i \in DOMAIN events[r] : 0 <= events[r][i].ts
  BY <1>0, EventTimes, RankConstants DEF Init, DistTypeOK
<1>6. ListsInv
  BY <1>2, <1>5 DEF ListsInv
<1>7. 0 \in 0 .. Infinity /\ Window(0)
  BY <1>5, RankConstants DEF Window
<1> QED
  BY <1>4, <1>6, <1>7 DEF WindowInv

\* What is earlier than a list and an event is earlier than the list with the
\* event, and than what is left of the list.
LEMMA BoundsOfInsertion ==
  ASSUME NEW list \in Seq(Events), NEW event \in Events
  PROVE  \A b : (\A i \in DOMAIN list : b <= list[i].ts) /\ b <= event.ts =>
           \A j \in DOMAIN InsertEvent(list, event) : b <= InsertEvent(list, event)[j].ts
<1> DEFINE longer == InsertEvent(list, event)
<1>1. longer \in Seq(Events) /\ \E k : Lengthened(list, longer, k, event)
  BY InsertEventOrdered
<1> HIDE DEF longer
<1>2. \A j \in DOMAIN longer : longer[j] = event \/ \E i \in DOMAIN list : longer[j] = list[i]
  BY <1>1, ElementsOfLengthened
<1> QED
  BY <1>2 DEF longer

LEMMA BoundsOfRemoval ==
  ASSUME NEW list \in Seq(Events), NEW shorter \in Seq(Events), NEW k, NEW event,
         Lengthened(shorter, list, k, event)
  PROVE  \A b : (\A i \in DOMAIN list : b <= list[i].ts) =>
           \A j \in DOMAIN shorter : b <= shorter[j].ts
BY ElementsOfLengthened

LEMMA ScheduleKeepsWindow ==
  ASSUME DistTypeOK, ListsInv, WindowInv, NEW r \in Ranks, Schedule(r)
  PROVE  ListsInv' /\ WindowInv'
<1>1. PICK d \in Delays :
        /\ currentTs[r] + d <= MaxTime
        /\ events' = [events EXCEPT ![r] = InsertEvent(@, App(currentTs[r] + d))]
  BY DEF Schedule
<1> DEFINE event == App(currentTs[r] + d)
<1>2. /\ events[r] \in Seq(Events) /\ event \in Events /\ event.ts = currentTs[r] + d
      /\ d \in Nat /\ currentTs[r] \in Nat
  <2>1. events[r] \in Seq(Events) /\ d \in Nat /\ currentTs[r] \in Nat /\ MaxTime \in Nat
    BY RankConstants, RankAssumption DEF DistTypeOK
  <2>2. currentTs[r] + d \in Times
    BY <1>1, <2>1 DEF Times
  <2> QED
    BY <2>1, <2>2 DEF App, Events
<1> HIDE DEF event
<1>3. UNCHANGED <<pc, currentTs, stop, lookAhead, grantedTime, transit>> /\ pc[r] = "handler"
  BY DEF Schedule, windowVars, mpiVars
<1>4. /\ events'[r] = InsertEvent(events[r], event)
      /\ \A n \in Ranks : n # r => events'[n] = events[n]
  BY <1>1 DEF DistTypeOK, event
<1>5. ListsInv'
  <2>1. currentTs[r] <= event.ts
    BY <1>2
  <2>2. Ordered(events'[r]) /\ \A i \in DOMAIN events'[r] : currentTs[r] <= events'[r][i].ts
    BY <1>2, <1>4, <2>1, InsertEventOrdered, BoundsOfInsertion DEF ListsInv
  <2> QED
    BY <1>3, <1>4, <2>2 DEF ListsInv
<1>6. PICK begin \in 0 .. Infinity : Window(begin)
  BY DEF WindowInv
<1>7. Window(begin)'
  <2>1. begin <= event.ts /\ begin <= currentTs[r]
    BY <1>2, <1>3, <1>6, RankConstants DEF Window
  <2>2. ~stop[r] => \A i \in DOMAIN events'[r] : begin <= events'[r][i].ts
    BY <1>2, <1>4, <1>6, <2>1, BoundsOfInsertion DEF Window
  <2> QED
    BY <1>3, <1>4, <1>6, <2>2 DEF Window
<1> QED
  BY <1>3, <1>5, <1>7 DEF WindowInv

LEMMA SendPacketKeepsWindow ==
  ASSUME DistTypeOK, ListsInv, WindowInv, NEW r \in Ranks, SendPacket(r)
  PROVE  /\ ListsInv' /\ WindowInv'
         /\ \E n \in Neighbours(r) : \E d \in Links[r][n], tx \in TxTimes :
              /\ n \in Ranks /\ d \in Nat /\ tx \in Nat
              /\ currentTs[r] + tx + d \in Times
              /\ currentTs[n] <= currentTs[r] + tx + d
              /\ App(currentTs[r] + tx + d) \in Events
              /\ transit' = [transit EXCEPT ![n] = InsertEvent(@, App(currentTs[r] + tx + d))]
<1>0. PICK n \in Neighbours(r) : \E d \in Links[r][n], tx \in TxTimes :
        /\ currentTs[r] + tx + d <= MaxTime
        /\ transit' = [transit EXCEPT ![n] = InsertEvent(@, App(currentTs[r] + tx + d))]
  BY DEF SendPacket
<1>1. PICK d \in Links[r][n], tx \in TxTimes :
        /\ currentTs[r] + tx + d <= MaxTime
        /\ transit' = [transit EXCEPT ![n] = InsertEvent(@, App(currentTs[r] + tx + d))]
  BY <1>0
<1>2. n \in Ranks /\ d \in Nat /\ tx \in Nat /\ currentTs[r] \in Nat /\ MaxTime \in Nat
  <2>1. n \in Ranks /\ d \in Nat /\ tx \in Nat
    BY RankAssumption DEF Neighbours
  <2>2. currentTs[r] \in Nat /\ MaxTime \in Nat
    BY RankConstants DEF DistTypeOK
  <2> QED
    BY <2>1, <2>2
<1> DEFINE t == currentTs[r] + tx + d
           event == App(t)
<1>3. t \in Times /\ t \in Nat /\ t <= MaxTime
  BY <1>1, <1>2 DEF Times
<1> HIDE DEF t
<1>4. event \in Events /\ event.ts = t
  BY <1>3 DEF Events, App
<1> HIDE DEF event
<1>5. UNCHANGED <<pc, currentTs, stop, lookAhead, grantedTime, events>> /\ pc[r] = "handler"
  BY DEF SendPacket, rankVars, windowVars
<1>6. PICK begin \in 0 .. Infinity : Window(begin)
  BY DEF WindowInv
<1>7. grantedTime[n] <= t
  <2>1. lookAhead[n] <= d /\ lookAhead[n] \in Nat /\ Infinity = MaxTime + 1 /\ begin \in Nat
    <3>1. lookAhead[n] <= d
      BY <1>2 DEF WindowInv
    <3>2. lookAhead[n] \in 1 .. Infinity
      BY <1>2 DEF DistTypeOK
    <3> QED
      BY <3>1, <3>2, RankConstants
  <2>2. lookAhead[n] # Infinity
    BY <1>1, <1>2, <1>3, <2>1 DEF t
  <2>3. grantedTime[n] = begin + lookAhead[n] /\ begin <= currentTs[r]
    BY <1>2, <1>5, <1>6, <2>2 DEF Window
  <2> QED
    BY <1>2, <2>1, <2>3 DEF t
<1>8. /\ transit'[n] = InsertEvent(transit[n], event) /\ transit[n] \in Seq(Events)
      /\ \A m \in Ranks : m # n => transit'[m] = transit[m]
  BY <1>1, <1>2 DEF DistTypeOK, event, t
<1>9. ListsInv'
  <2>1. \A i \in DOMAIN transit'[n] : grantedTime[n] <= transit'[n][i].ts
    BY <1>2, <1>4, <1>7, <1>8, BoundsOfInsertion DEF ListsInv
  <2> QED
    BY <1>5, <1>8, <2>1 DEF ListsInv
<1>10. WindowInv'
  BY <1>5, <1>6 DEF WindowInv, Window
<1>11. currentTs[n] <= t
  <2>1. currentTs[n] <= grantedTime[n] /\ currentTs[n] \in Nat /\ grantedTime[n] \in Nat
    BY <1>2, RankConstants DEF ListsInv, DistTypeOK
  <2> QED
    BY <1>3, <1>7, <2>1
<1> QED
  BY <1>1, <1>2, <1>3, <1>4, <1>9, <1>10, <1>11 DEF t, event

\* An event is processed when nothing earlier is there or on its way.
LEMMA ProcessKeepsWindow ==
  ASSUME DistTypeOK, ListsInv, WindowInv, NEW r \in Ranks, ProcessOneEvent(r)
  PROVE  /\ ListsInv' /\ WindowInv'
         /\ events[r] \in Seq(Events) /\ events[r] # <<>> /\ Ordered(events[r])
         /\ NextTs(r) = events[r][1].ts /\ NextTs(r) \in Times /\ currentTs[r] <= NextTs(r)
         /\ \A i \in DOMAIN events[r] : NextTs(r) <= events[r][i].ts
         /\ \A i \in DOMAIN transit[r] : NextTs(r) <= transit[r][i].ts
<1>1. /\ events[r] \in Seq(Events) /\ events[r] # <<>> /\ ~stop[r]
      /\ NextTs(r) = events[r][1].ts /\ NextTs(r) \in Times /\ 1 \in DOMAIN events[r]
      /\ NextTs(r) <= grantedTime[r]
  BY NextTsType DEF ProcessOneEvent
<1>2. Ordered(events[r])
  BY DEF ListsInv
<1> DEFINE t == NextTs(r)  tail == Tail(events[r])
<1>3. /\ t \in Nat /\ grantedTime[r] \in Nat /\ currentTs[r] <= t
      /\ transit[r] \in Seq(Events)
  BY <1>1, RankConstants DEF ListsInv, DistTypeOK
<1>4. /\ \A i \in DOMAIN events[r] : t <= events[r][i].ts
      /\ tail \in Seq(Events) /\ Ordered(tail)
      /\ Lengthened(tail, events[r], 1, events[r][1])
  BY <1>1, <1>2, TailOrdered
<1>5. \A i \in DOMAIN transit[r] : t <= transit[r][i].ts
  <2>1. \A i \in DOMAIN transit[r] : transit[r][i].ts \in Nat /\ grantedTime[r] <= transit[r][i].ts
    BY <1>3, EventTimes DEF ListsInv
  <2> QED
    BY <1>1, <1>3, <2>1
<1> HIDE DEF t, tail
<1>6. /\ events' = [events EXCEPT ![r] = tail]
      /\ currentTs' = [currentTs EXCEPT ![r] = t]
      /\ UNCHANGED <<lookAhead, grantedTime, transit>>
  BY DEF ProcessOneEvent, windowVars, mpiVars, t, tail
<1>7. \A n \in Ranks : /\ events'[n] = IF n = r THEN tail ELSE events[n]
                       /\ currentTs'[n] = IF n = r THEN t ELSE currentTs[n]
  BY <1>6 DEF DistTypeOK
<1>8. \A b : (\A i \in DOMAIN events[r] : b <= events[r][i].ts) =>
               \A i \in DOMAIN tail : b <= tail[i].ts
  BY <1>1, <1>4, BoundsOfRemoval
<1>9. ListsInv'
  <2>1. \A i \in DOMAIN tail : t <= tail[i].ts
    BY <1>4, <1>8
  <2>2. t <= grantedTime[r]
    BY <1>1 DEF t
  <2> QED
    BY <1>4, <1>6, <1>7, <2>1, <2>2 DEF ListsInv
<1>10. PICK begin \in 0 .. Infinity : Window(begin)
  BY DEF WindowInv
<1>11. Window(begin)'
  <2>1. begin <= t /\ \A i \in DOMAIN tail : begin <= tail[i].ts
    BY <1>1, <1>8, <1>10 DEF Window, t
  <2>2. /\ \A n \in Ranks : stop'[n] = stop[n] \/ stop'[n] = TRUE
        /\ \A n \in Ranks : n # r => pc'[n] = pc[n]
    BY DEF ProcessOneEvent, DistTypeOK
  <2>3. ASSUME NEW n \in Ranks
        PROVE  /\ ~stop'[n] => \A i \in DOMAIN events'[n] : begin <= events'[n][i].ts
               /\ pc'[n] = "handler" => begin <= currentTs'[n]
    BY <1>7, <1>10, <2>1, <2>2, <2>3 DEF Window
  <2> QED
    BY <1>6, <1>10, <2>3 DEF Window
<1>12. WindowInv'
  BY <1>6, <1>11 DEF WindowInv
<1> QED
  BY <1>1, <1>2, <1>3, <1>4, <1>5, <1>9, <1>12 DEF t

LEMMA ReceiveKeepsWindow ==
  ASSUME DistTypeOK, ListsInv, WindowInv, NEW r \in Ranks, ReceiveMessage(r)
  PROVE  /\ ListsInv' /\ WindowInv'
         /\ \E i \in DOMAIN transit[r] :
              /\ transit[r] \in Seq(Events) /\ events[r] \in Seq(Events)
              /\ transit[r][i] \in Events
              /\ transit' = [transit EXCEPT ![r] = RemoveAt(@, i)]
              /\ events' = [events EXCEPT ![r] = InsertEvent(@, transit[r][i])]
<1>1. PICK i \in DOMAIN transit[r] :
        /\ transit' = [transit EXCEPT ![r] = RemoveAt(@, i)]
        /\ events' = [events EXCEPT ![r] = InsertEvent(@, transit[r][i])]
  BY DEF ReceiveMessage
<1> DEFINE event == transit[r][i]
<1>2. /\ transit[r] \in Seq(Events) /\ events[r] \in Seq(Events)
      /\ event \in Events /\ event.ts \in Nat
  BY EventTimes DEF DistTypeOK
<1>3. grantedTime[r] <= event.ts /\ currentTs[r] <= event.ts
  <2>1. /\ grantedTime[r] <= event.ts /\ currentTs[r] <= grantedTime[r]
        /\ currentTs[r] \in Nat /\ grantedTime[r] \in Nat
    BY RankConstants DEF ListsInv, DistTypeOK
  <2> QED
    BY <1>2, <2>1
<1> HIDE DEF event
<1>4. \A n \in Ranks : /\ events'[n] = IF n = r THEN InsertEvent(events[r], event) ELSE events[n]
                       /\ transit'[n] = IF n = r THEN RemoveAt(transit[r], i) ELSE transit[n]
  BY <1>1 DEF DistTypeOK, event
<1>5. UNCHANGED <<pc, currentTs, stop, lookAhead, grantedTime>> /\ pc[r] = "receive"
  BY DEF ReceiveMessage, windowVars
<1>6. \A j \in DOMAIN RemoveAt(transit[r], i) : grantedTime[r] <= RemoveAt(transit[r], i)[j].ts
  <2>1. RemoveAt(transit[r], i) \in Seq(Events)
        /\ Lengthened(RemoveAt(transit[r], i), transit[r], i, transit[r][i])
    BY <1>2, RemoveAtShortens
  <2> QED
    BY <1>2, <2>1, BoundsOfRemoval DEF ListsInv
<1>7. /\ Ordered(InsertEvent(events[r], event))
      /\ \A b : (\A j \in DOMAIN events[r] : b <= events[r][j].ts) /\ b <= event.ts =>
           \A j \in DOMAIN InsertEvent(events[r], event) : b <= InsertEvent(events[r], event)[j].ts
  BY <1>2, InsertEventOrdered, BoundsOfInsertion DEF ListsInv
<1>8. ListsInv'
  <2>1. \A j \in DOMAIN InsertEvent(events[r], event) :
          currentTs[r] <= InsertEvent(events[r], event)[j].ts
    BY <1>3, <1>7 DEF ListsInv
  <2> QED
    BY <1>4, <1>5, <1>6, <1>7, <2>1 DEF ListsInv
<1>9. PICK begin \in 0 .. Infinity : Window(begin)
  BY DEF WindowInv
<1>10. Window(begin)'
  <2>1. begin <= event.ts
    <3>1. lookAhead[r] \in Nat /\ begin <= Infinity /\ begin \in Nat /\ Infinity \in Nat
      BY RankConstants DEF DistTypeOK
    <3>2. grantedTime[r] = IF lookAhead[r] = Infinity THEN Infinity ELSE begin + lookAhead[r]
      BY <1>9 DEF Window
    <3>3. begin <= grantedTime[r] /\ grantedTime[r] \in Nat
      BY <3>1, <3>2
    <3> QED
      BY <1>2, <1>3, <3>1, <3>3
  <2>2. ~stop[r] => \A j \in DOMAIN InsertEvent(events[r], event) :
                      begin <= InsertEvent(events[r], event)[j].ts
    BY <1>7, <1>9, <2>1 DEF Window
  <2> QED
    BY <1>4, <1>5, <1>9, <2>2 DEF Window
<1>11. WindowInv'
  BY <1>5, <1>10 DEF WindowInv
<1> QED
  BY <1>1, <1>2, <1>8, <1>11 DEF event

LEMMA OtherRankStepsKeepWindow ==
  ASSUME ListsInv, WindowInv, NEW r \in Ranks,
         HandlerReturns(r) \/ Synchronize(r) \/ Contribute(r), DistTypeOK
  PROVE  ListsInv' /\ WindowInv'
<1>1. UNCHANGED <<rankVars, lookAhead, grantedTime, mpiVars>>
  BY DEF HandlerReturns, Synchronize, Contribute, windowVars
<1>2. \A n \in Ranks : pc'[n] = "handler" => pc[n] = "handler"
  BY DEF HandlerReturns, Synchronize, Contribute, DistTypeOK
<1> QED
  BY <1>1, <1>2 DEF rankVars, mpiVars, ListsInv, WindowInv, Window

------------------------------------------------------------------------------
(* Packets on their way. *)

LEMMA TotalUpdate ==
  ASSUME NEW f \in [Ranks -> Nat], NEW g \in [Ranks -> Nat], NEW r \in Ranks,
         \A n \in Ranks : n # r => g[n] = f[n]
  PROVE  Total(f) \in Nat /\ Total(g) \in Nat /\ Total(g) = Total(f) - f[r] + g[r]
<1>1. IsFiniteSet(Ranks)
  BY RankConstants
<1>2. /\ MapThenSumSet(LAMBDA n : f[n], Ranks) \in Nat
      /\ MapThenSumSet(LAMBDA n : g[n], Ranks) \in Nat
      /\ MapThenSumSet(LAMBDA n : g[n], Ranks) =
           MapThenSumSet(LAMBDA n : f[n], Ranks) - f[r] + g[r]
  BY <1>1, SumUpdate
<1> QED
  BY <1>2 DEF Total

\* The packets that are on their way are those sent and not received.
InTransit == [r \in Ranks |-> Len(transit[r])]
CountsInv == Total(txCount) = Total(rxCount) + Total(InTransit)

LEMMA InTransitType ==
  ASSUME DistTypeOK
  PROVE  /\ InTransit \in [Ranks -> Nat]
         /\ Total(InTransit) \in Nat /\ Total(rxCount) \in Nat /\ Total(txCount) \in Nat
         /\ Total(InTransit) = 0 => \A r \in Ranks : transit[r] = <<>>
<1>1. \A r \in Ranks : transit[r] \in Seq(Events) /\ Len(transit[r]) \in Nat
  BY EventTimes DEF DistTypeOK
<1>2. InTransit \in [Ranks -> Nat]
  BY <1>1 DEF InTransit
<1>3. Total(InTransit) \in Nat /\ \A r \in Ranks : InTransit[r] <= Total(InTransit)
  BY <1>2, RankConstants, SummandBelowSum DEF Total
<1>4. Total(rxCount) \in Nat /\ Total(txCount) \in Nat
  BY RankConstants, SummandBelowSum DEF Total, DistTypeOK
<1>5. ASSUME Total(InTransit) = 0, NEW r \in Ranks
      PROVE  transit[r] = <<>>
  <2>1. InTransit[r] = 0 /\ InTransit[r] = Len(transit[r])
    <3>1. InTransit[r] \in Nat /\ InTransit[r] <= 0
      BY <1>2, <1>3, <1>5
    <3> QED
      BY <3>1 DEF InTransit
  <2> QED
    BY <1>1, <2>1
<1> QED
  BY <1>2, <1>3, <1>4, <1>5

\* A list of packets that becomes longer or shorter by one.
LEMMA InTransitUpdate ==
  ASSUME DistTypeOK, DistTypeOK', NEW n \in Ranks,
         \A m \in Ranks : m # n => transit'[m] = transit[m]
  PROVE  Total(InTransit)' = Total(InTransit) - Len(transit[n]) + Len(transit'[n])
<1>1. \A m \in Ranks : Len(transit[m]) \in Nat /\ Len(transit'[m]) \in Nat
  <2>1. \A m \in Ranks : transit[m] \in Seq(Events) /\ transit'[m] \in Seq(Events)
    BY DEF DistTypeOK
  <2> QED
    BY <2>1, EventTimes
<1> DEFINE f == [r \in Ranks |-> Len(transit[r])]
           g == [r \in Ranks |-> Len(transit'[r])]
<1>2. f \in [Ranks -> Nat] /\ g \in [Ranks -> Nat]
  BY <1>1
<1>3. \A m \in Ranks : m # n => g[m] = f[m]
  OBVIOUS
<1>4. f[n] = Len(transit[n]) /\ g[n] = Len(transit'[n])
  OBVIOUS
<1>5. Total(InTransit) = Total(f) /\ Total(InTransit)' = Total(g)
  BY DEF InTransit
<1> HIDE DEF f, g
<1>6. Total(g) = Total(f) - f[n] + g[n]
  BY <1>2, <1>3, TotalUpdate
<1> QED
  BY <1>4, <1>5, <1>6

LEMMA StepKeepsCounts ==
  ASSUME DistTypeOK, ListsInv, WindowInv, CountsInv, [Next]_vars
  PROVE  CountsInv'
<1>0. DistTypeOK'
  BY StepDistType
<1>1. /\ Total(InTransit) \in Nat /\ Total(rxCount) \in Nat /\ Total(txCount) \in Nat
      /\ Total(txCount) = Total(rxCount) + Total(InTransit)
  BY InTransitType DEF CountsInv
<1>2. ASSUME NEW r \in Ranks, SendPacket(r)
      PROVE  CountsInv'
  <2>1. PICK n \in Ranks : \E event \in Events :
          transit' = [transit EXCEPT ![n] = InsertEvent(@, event)]
    BY <1>2, SendPacketKeepsWindow
  <2>2. PICK event \in Events : transit' = [transit EXCEPT ![n] = InsertEvent(@, event)]
    BY <2>1
  <2>3. transit[n] \in Seq(Events)
    BY DEF DistTypeOK
  <2>4. /\ transit'[n] = InsertEvent(transit[n], event)
        /\ \A m \in Ranks : m # n => transit'[m] = transit[m]
    BY <2>2 DEF DistTypeOK
  <2>5. Len(transit'[n]) = Len(transit[n]) + 1 /\ Len(transit[n]) \in Nat
    <3>1. PICK k : Lengthened(transit[n], transit'[n], k, event)
      BY <2>3, <2>4, InsertEventOrdered
    <3> QED
      BY <2>3, <3>1, EventTimes, LenProperties DEF Lengthened
  <2>6. Total(InTransit)' = Total(InTransit) + 1
    BY <1>0, <1>1, <2>4, <2>5, InTransitUpdate
  <2>7. Total(txCount') = Total(txCount) + 1
    <3>1. /\ txCount \in [Ranks -> Nat] /\ txCount' \in [Ranks -> Nat]
          /\ txCount'[r] = txCount[r] + 1 /\ txCount[r] \in Nat
          /\ \A m \in Ranks : m # r => txCount'[m] = txCount[m]
      BY <1>0, <1>2 DEF SendPacket, DistTypeOK
    <3>2. Total(txCount') = Total(txCount) - txCount[r] + txCount'[r]
      BY <3>1, TotalUpdate
    <3> QED
      BY <1>1, <3>1, <3>2
  <2>8. rxCount' = rxCount
    BY <1>2 DEF SendPacket
  <2>9. Total(txCount') = Total(rxCount') + Total(InTransit)'
    BY <1>1, <2>6, <2>7, <2>8
  <2> QED
    BY <2>9 DEF CountsInv
<1>3. ASSUME NEW r \in Ranks, ReceiveMessage(r)
      PROVE  CountsInv'
  <2>1. PICK i \in DOMAIN transit[r] :
          transit[r] \in Seq(Events) /\ transit' = [transit EXCEPT ![r] = RemoveAt(@, i)]
    BY <1>3, ReceiveKeepsWindow
  <2>2. /\ transit'[r] = RemoveAt(transit[r], i)
        /\ \A m \in Ranks : m # r => transit'[m] = transit[m]
    BY <2>1 DEF DistTypeOK
  <2>3. transit'[r] \in Seq(Events) /\ Lengthened(transit'[r], transit[r], i, transit[r][i])
    BY <2>1, <2>2, RemoveAtShortens
  <2>4. Len(transit[r]) = Len(transit'[r]) + 1 /\ Len(transit'[r]) \in Nat
    BY <2>3, EventTimes DEF Lengthened
  <2>5. Total(InTransit)' = Total(InTransit) - 1
    <3>1. Total(InTransit)' = Total(InTransit) - Len(transit[r]) + Len(transit'[r])
      BY <1>0, <2>2, InTransitUpdate
    <3> QED
      BY <1>1, <2>4, <3>1
  <2>6. Total(rxCount') = Total(rxCount) + 1
    <3>1. /\ rxCount \in [Ranks -> Nat] /\ rxCount' \in [Ranks -> Nat]
          /\ rxCount'[r] = rxCount[r] + 1 /\ rxCount[r] \in Nat
          /\ \A m \in Ranks : m # r => rxCount'[m] = rxCount[m]
      BY <1>0, <1>3 DEF ReceiveMessage, DistTypeOK
    <3>2. Total(rxCount') = Total(rxCount) - rxCount[r] + rxCount'[r]
      BY <3>1, TotalUpdate
    <3> QED
      BY <1>1, <3>1, <3>2
  <2>7. txCount' = txCount
    BY <1>3 DEF ReceiveMessage
  <2>8. Total(txCount') = Total(rxCount') + Total(InTransit)'
    BY <1>1, <2>5, <2>6, <2>7
  <2> QED
    BY <2>8 DEF CountsInv
<1>4. ASSUME UNCHANGED mpiVars
      PROVE  CountsInv'
  BY <1>4 DEF CountsInv, InTransit, mpiVars
<1>5. ASSUME NEW r \in Ranks, RankStep(r)
      PROVE  UNCHANGED mpiVars \/ SendPacket(r)
  BY <1>5 DEF RankStep, Schedule, HandlerReturns, ProcessOneEvent, Synchronize, Contribute
<1>6. Allgather \/ UNCHANGED vars => UNCHANGED mpiVars
  BY DEF Allgather, vars
<1> QED
  BY <1>2, <1>3, <1>4, <1>5, <1>6 DEF Next

LEMMA InitCounts == Init => CountsInv
<1> SUFFICES ASSUME Init PROVE CountsInv
  OBVIOUS
<1>1. /\ txCount \in [Ranks -> Nat] /\ \A r \in Ranks : txCount[r] = 0
      /\ rxCount \in [Ranks -> Nat] /\ \A r \in Ranks : rxCount[r] = 0
      /\ InTransit \in [Ranks -> Nat] /\ \A r \in Ranks : InTransit[r] = 0
  BY DEF Init, InTransit
<1>2. Total(txCount) = 0 /\ Total(rxCount) = 0 /\ Total(InTransit) = 0
  BY <1>1, RankConstants, SumOfNoughts DEF Total
<1> QED
  BY <1>2 DEF CountsInv

------------------------------------------------------------------------------
(* The all-gather. *)

\* A rank that waits in the all-gather has contributed what still holds of it.
GatherInv ==
  \A r \in Ranks : pc[r] = "gather" =>
    /\ lbts[r].rx = rxCount[r] /\ lbts[r].tx = txCount[r]
    /\ lbts[r].finished <=> IsLocalFinished(r)
    /\ lbts[r].smallest = NextTs(r)

\* The end, when the ranks have found it, is final.
FinishedInv == globalFinished =>
  \A r \in Ranks : pc[r] = "loop" /\ IsLocalFinished(r) /\ transit[r] = <<>>

LEMMA StepKeepsGather ==
  ASSUME DistTypeOK, GatherInv, [Next]_vars
  PROVE  GatherInv'
<1>1. ASSUME NEW m \in Ranks, RankStep(m) \/ ReceiveMessage(m)
      PROVE  GatherInv'
  <2>1. \A r \in Ranks : r # m =>
          /\ events'[r] = events[r] /\ stop'[r] = stop[r] /\ lbts'[r] = lbts[r]
          /\ rxCount'[r] = rxCount[r] /\ txCount'[r] = txCount[r] /\ pc'[r] = pc[r]
    <3>1. \A r \in Ranks : r # m => events'[r] = events[r] /\ stop'[r] = stop[r]
      BY <1>1 DEF RankStep, Schedule, SendPacket, HandlerReturns, ProcessOneEvent, Synchronize,
                  Contribute, ReceiveMessage, DistTypeOK, rankVars
    <3>2. \A r \in Ranks : r # m => pc'[r] = pc[r] /\ lbts'[r] = lbts[r]
      BY <1>1 DEF RankStep, Schedule, SendPacket, HandlerReturns, ProcessOneEvent, Synchronize,
                  Contribute, ReceiveMessage, DistTypeOK, windowVars
    <3>3. \A r \in Ranks : r # m => rxCount'[r] = rxCount[r] /\ txCount'[r] = txCount[r]
      BY <1>1 DEF RankStep, Schedule, SendPacket, HandlerReturns, ProcessOneEvent, Synchronize,
                  Contribute, ReceiveMessage, DistTypeOK, mpiVars
    <3> QED
      BY <3>1, <3>2, <3>3
  <2>2. pc'[m] = "gather" => Contribute(m)
    BY <1>1 DEF RankStep, Schedule, SendPacket, HandlerReturns, ProcessOneEvent, Synchronize,
                ReceiveMessage, DistTypeOK
  <2>3. ASSUME Contribute(m)
        PROVE  /\ lbts'[m].rx = rxCount'[m] /\ lbts'[m].tx = txCount'[m]
               /\ lbts'[m].finished <=> IsLocalFinished(m)'
               /\ lbts'[m].smallest = NextTs(m)'
    <3>1. lbts'[m] = [rx |-> rxCount[m], tx |-> txCount[m],
                      finished |-> IsLocalFinished(m), smallest |-> NextTs(m)]
      BY <2>3 DEF Contribute, DistTypeOK
    <3>2. UNCHANGED <<rxCount, txCount, events, stop>>
      BY <2>3 DEF Contribute, rankVars, mpiVars
    <3>3. (IsLocalFinished(m)' <=> IsLocalFinished(m)) /\ NextTs(m)' = NextTs(m)
      BY <3>2 DEF IsLocalFinished, NextTs
    <3>4. lbts'[m].finished = IsLocalFinished(m)
      BY <3>1
    <3> QED
      BY <3>1, <3>2, <3>3, <3>4
  <2> SUFFICES ASSUME NEW r \in Ranks, pc'[r] = "gather"
               PROVE  /\ lbts'[r].rx = rxCount'[r] /\ lbts'[r].tx = txCount'[r]
                      /\ lbts'[r].finished <=> IsLocalFinished(r)'
                      /\ lbts'[r].smallest = NextTs(r)'
    BY DEF GatherInv
  <2>4. CASE r = m
    BY <2>2, <2>3, <2>4
  <2>5. CASE r # m
    <3>1. (IsLocalFinished(r)' <=> IsLocalFinished(r)) /\ NextTs(r)' = NextTs(r)
      BY <2>1, <2>5 DEF IsLocalFinished, NextTs
    <3> QED
      BY <2>1, <2>5, <3>1 DEF GatherInv
  <2> QED
    BY <2>4, <2>5
<1>2. CASE Allgather
  BY <1>2 DEF Allgather, GatherInv
<1>3. CASE UNCHANGED vars
  BY <1>3 DEF vars, rankVars, windowVars, mpiVars, GatherInv, IsLocalFinished, NextTs
<1> QED
  BY <1>1, <1>2, <1>3 DEF Next

\* The all-gather gives a window that begins no earlier than the old one.
LEMMA AllgatherKeepsWindow ==
  ASSUME DistTypeOK, ListsInv, WindowInv, CountsInv, GatherInv, Allgather
  PROVE  /\ ListsInv' /\ WindowInv'
         /\ globalFinished' => \A r \in Ranks : IsLocalFinished(r) /\ transit[r] = <<>>
<1> DEFINE T == {lbts[r].smallest : r \in Ranks}
           smallest == Min(T)
           noTransients ==
             Total([r \in Ranks |-> lbts[r].rx]) = Total([r \in Ranks |-> lbts[r].tx])
<1>1. \A r \in Ranks : /\ lbts[r].rx = rxCount[r] /\ lbts[r].tx = txCount[r]
                       /\ lbts[r].finished <=> IsLocalFinished(r)
                       /\ lbts[r].smallest = NextTs(r)
  BY DEF Allgather, GatherInv
<1>2. noTransients => \A r \in Ranks : transit[r] = <<>>
  <2>1. [r \in Ranks |-> lbts[r].rx] = rxCount /\ [r \in Ranks |-> lbts[r].tx] = txCount
    BY <1>1 DEF DistTypeOK
  <2>2. noTransients => Total(rxCount) = Total(txCount)
    BY <2>1
  <2> HIDE DEF noTransients
  <2>3. noTransients => Total(InTransit) = 0
    BY <2>2, InTransitType DEF CountsInv
  <2> QED
    BY <2>3, InTransitType
<1>3. /\ smallest \in 0 .. Infinity
      /\ \A r \in Ranks : smallest <= NextTs(r)
      /\ \E r \in Ranks : smallest = NextTs(r)
  <2>1. T \subseteq Nat /\ T # {} /\ \A r \in Ranks : NextTs(r) \in T
    BY <1>1, NextTsType, RankConstants
  <2>2. \A x \in T : \E r \in Ranks : x = NextTs(r)
    BY <1>1
  <2> HIDE DEF T
  <2>3. smallest \in T /\ \A x \in T : smallest <= x
    BY <2>1, MinOfNumbers
  <2> HIDE DEF smallest
  <2> QED
    BY <2>1, <2>2, <2>3, NextTsType
<1>4. /\ pc' = [r \in Ranks |-> "loop"]
      /\ noTransients => grantedTime' = [r \in Ranks |-> IF lookAhead[r] = Infinity THEN Infinity
                                                         ELSE smallest + lookAhead[r]]
      /\ ~noTransients => grantedTime' = grantedTime
      /\ globalFinished' => noTransients /\ \A r \in Ranks : lbts[r].finished
      /\ UNCHANGED <<events, currentTs, stop, lookAhead, transit>>
  BY DEF Allgather, rankVars, mpiVars
<1> HIDE DEF T, smallest, noTransients
<1>5. PICK begin \in 0 .. Infinity : Window(begin)
  BY DEF WindowInv
<1>6. ASSUME NEW r \in Ranks, ~stop[r], NEW i \in DOMAIN events[r]
      PROVE  smallest <= events[r][i].ts
  <2>1. events[r] \in Seq(Events) /\ events[r] # <<>>
    <3>1. events[r] \in Seq(Events)
      BY DEF DistTypeOK
    <3> QED
      BY <1>6, <3>1
  <2>2. NextTs(r) = events[r][1].ts
    BY <1>6, <2>1 DEF NextTs, IsLocalFinished
  <2>3. events[r][1].ts <= events[r][i].ts /\ events[r][1].ts \in Nat /\ events[r][i].ts \in Nat
    BY <1>6, <2>1, TailOrdered, EventTimes DEF ListsInv
  <2> QED
    BY <1>3, <2>2, <2>3
<1>7. begin <= smallest
  <2>1. PICK r \in Ranks : smallest = NextTs(r)
    BY <1>3
  <2>2. CASE IsLocalFinished(r)
    BY <2>1, <2>2, RankConstants DEF NextTs
  <2>3. CASE ~IsLocalFinished(r)
    BY <1>5, <2>1, <2>3, NextTsType DEF Window
  <2> QED
    BY <2>2, <2>3
<1>10. PICK first \in 0 .. Infinity : first = smallest
  BY <1>3
<1>8. ASSUME noTransients
      PROVE  ListsInv' /\ WindowInv'
  <2>1. \A r \in Ranks : transit'[r] = <<>>
    BY <1>2, <1>4, <1>8
  <2>2. ASSUME NEW r \in Ranks
        PROVE  currentTs[r] <= grantedTime'[r]
    <3>1. lookAhead[r] \in Nat /\ currentTs[r] \in Nat
      <4>1. lookAhead[r] \in 1 .. Infinity /\ currentTs[r] \in Times
        BY DEF DistTypeOK
      <4>2. lookAhead[r] \in Nat
        BY <4>1
      <4>3. currentTs[r] \in Nat
        BY <4>1, RankConstants
      <4> QED
        BY <4>2, <4>3
    <3>4. currentTs[r] <= grantedTime[r]
      BY DEF ListsInv
    <3>2. grantedTime[r] = IF lookAhead[r] = Infinity THEN Infinity ELSE begin + lookAhead[r]
      BY <1>5 DEF Window
    <3>3. grantedTime'[r] = IF lookAhead[r] = Infinity THEN Infinity ELSE first + lookAhead[r]
      BY <1>4, <1>8, <1>10
    <3> QED
      BY <1>7, <1>10, <3>1, <3>2, <3>3, <3>4, RankConstants
  <2>3. ListsInv'
    BY <1>4, <2>1, <2>2 DEF ListsInv
  <2>4. Window(first)'
    BY <1>4, <1>6, <1>8, <1>10 DEF Window
  <2> QED
    BY <1>4, <2>3, <2>4 DEF WindowInv
<1>9. ASSUME ~noTransients
      PROVE  ListsInv' /\ WindowInv'
  BY <1>4, <1>5, <1>9 DEF ListsInv, WindowInv, Window
<1> QED
  BY <1>1, <1>2, <1>4, <1>8, <1>9

------------------------------------------------------------------------------
(* The end. *)

\* The inductive invariant.
DistInv ==
  /\ DistTypeOK /\ ListsInv /\ WindowInv /\ CountsInv /\ GatherInv /\ FinishedInv

LEMMA InitDistInv == Init => DistInv
<1>1. Init => GatherInv /\ FinishedInv
  BY DEF Init, GatherInv, FinishedInv
<1> QED
  BY <1>1, InitDistType, InitWindow, InitCounts DEF DistInv

LEMMA StepKeepsWindow ==
  ASSUME DistInv, [Next]_vars
  PROVE  ListsInv' /\ WindowInv'
<1> USE DEF DistInv
<1>1. ASSUME NEW r \in Ranks, RankStep(r)
      PROVE  ListsInv' /\ WindowInv'
  BY <1>1, ScheduleKeepsWindow, SendPacketKeepsWindow, ProcessKeepsWindow, OtherRankStepsKeepWindow
     DEF RankStep
<1>2. ASSUME NEW r \in Ranks, ReceiveMessage(r)
      PROVE  ListsInv' /\ WindowInv'
  BY <1>2, ReceiveKeepsWindow
<1>3. CASE Allgather
  BY <1>3, AllgatherKeepsWindow
<1>4. CASE UNCHANGED vars
  BY <1>4 DEF vars, rankVars, windowVars, mpiVars, ListsInv, WindowInv, Window
<1> QED
  BY <1>1, <1>2, <1>3, <1>4 DEF Next

LEMMA StepKeepsFinished ==
  ASSUME DistInv, [Next]_vars
  PROVE  FinishedInv'
<1> USE DEF DistInv
<1>1. CASE globalFinished
  <2>1. \A r \in Ranks : pc[r] = "loop"
    BY <1>1 DEF FinishedInv
  <2>2. ~Allgather /\ \A r \in Ranks : ~RankStep(r) /\ ~ReceiveMessage(r)
    BY <1>1, <2>1, RankConstants
       DEF Allgather, RankStep, Schedule, SendPacket, HandlerReturns, ProcessOneEvent, Synchronize,
           Contribute, ReceiveMessage
  <2>3. UNCHANGED <<pc, events, stop, transit>> /\ globalFinished' = globalFinished
    BY <2>2 DEF Next, vars, rankVars, windowVars, mpiVars
  <2> QED
    BY <2>3 DEF FinishedInv, IsLocalFinished
<1>2. CASE ~globalFinished
  <2>1. CASE Allgather
    <3>1. globalFinished' => \A r \in Ranks : IsLocalFinished(r) /\ transit[r] = <<>>
      BY <2>1, AllgatherKeepsWindow
    <3>2. UNCHANGED <<events, stop, transit>> /\ \A r \in Ranks : pc'[r] = "loop"
      BY <2>1 DEF Allgather, rankVars, mpiVars
    <3> QED
      BY <3>1, <3>2 DEF FinishedInv, IsLocalFinished
  <2>2. CASE ~Allgather
    <3>1. globalFinished' = globalFinished
      BY <2>2 DEF Next, RankStep, Schedule, SendPacket, HandlerReturns, ProcessOneEvent, Synchronize,
                  Contribute, ReceiveMessage, vars, windowVars
    <3> QED
      BY <1>2, <3>1 DEF FinishedInv
  <2> QED
    BY <2>1, <2>2
<1> QED
  BY <1>1, <1>2

LEMMA StepKeepsDistInv == DistInv /\ [Next]_vars => DistInv'
<1> SUFFICES ASSUME DistInv, [Next]_vars PROVE DistInv'
  OBVIOUS
<1>1. DistTypeOK' /\ CountsInv' /\ GatherInv'
  BY StepDistType, StepKeepsCounts, StepKeepsGather DEF DistInv
<1> QED
  BY <1>1, StepKeepsWindow, StepKeepsFinished DEF DistInv

LEMMA DistInvariant == Spec => []DistInv
BY InitDistInv, StepKeepsDistInv, PTL DEF Spec

\* When a rank finds the simulation finished, all ranks have finished and no
\* packet is on its way, in every run.
THEOREM EndIsComplete == Spec => []NothingIsLeftBehind
<1>1. DistInv => NothingIsLeftBehind
  BY DEF DistInv, FinishedInv, NothingIsLeftBehind
<1> QED
  BY <1>1, DistInvariant, PTL

------------------------------------------------------------------------------
(* The ranks implement the order of a sequential simulator. *)

\* The events of each rank at each time: those in its list and those on their
\* way to it.
Table(lists, sent) ==
  [r \in Ranks |-> [t \in Times |-> CountAt(lists[r], t) + CountAt(sent[r], t)]]

Lists == [Ranks -> Seq(Events)]

\* A list changes.
Replaced(lists, r, list) == [lists EXCEPT ![r] = list]

LEMMA TableType ==
  ASSUME NEW lists \in Lists, NEW sent \in Lists
  PROVE  /\ Table(lists, sent) \in [Ranks -> [Times -> Nat]]
         /\ \A r \in Ranks : \A t \in Times :
              /\ Table(lists, sent)[r][t] = CountAt(lists[r], t) + CountAt(sent[r], t)
              /\ CountAt(lists[r], t) \in Nat /\ CountAt(sent[r], t) \in Nat
<1>1. \A r \in Ranks : \A t \in Times :
        CountAt(lists[r], t) \in Nat /\ CountAt(sent[r], t) \in Nat
  BY CountAtPositive DEF Lists
<1> QED
  BY <1>1 DEF Table

\* An event is inserted, or sent.
LEMMA TableGrows ==
  ASSUME NEW lists \in Lists, NEW sent \in Lists, NEW r \in Ranks, NEW event \in Events
  PROVE  /\ Table(Replaced(lists, r, InsertEvent(lists[r], event)), sent) =
              Changed(Table(lists, sent), r, event.ts, 1)
         /\ Table(lists, Replaced(sent, r, InsertEvent(sent[r], event))) =
              Changed(Table(lists, sent), r, event.ts, 1)
<1>1. ASSUME NEW list \in Seq(Events)
      PROVE  /\ InsertEvent(list, event) \in Seq(Events)
             /\ \A t : CountAt(InsertEvent(list, event), t) =
                         CountAt(list, t) + IF event.ts = t THEN 1 ELSE 0
  BY InsertEventOrdered, CountAtOfLengthened
<1>2. lists[r] \in Seq(Events) /\ sent[r] \in Seq(Events) /\ event.ts \in Times
  BY EventTimes DEF Lists
<1> DEFINE f == Table(lists, sent)
           more == [lists EXCEPT ![r] = InsertEvent(@, event)]
           sentMore == [sent EXCEPT ![r] = InsertEvent(@, event)]
<1>3. more \in Lists /\ sentMore \in Lists
  BY <1>1, <1>2 DEF Lists
<1>4. /\ more[r] = InsertEvent(lists[r], event) /\ \A n \in Ranks : n # r => more[n] = lists[n]
      /\ sentMore[r] = InsertEvent(sent[r], event) /\ \A n \in Ranks : n # r => sentMore[n] = sent[n]
  BY DEF Lists
<1> HIDE DEF more, sentMore
<1>5. /\ f \in [Ranks -> [Times -> Nat]] /\ Table(more, sent) \in [Ranks -> [Times -> Nat]]
      /\ Table(lists, sentMore) \in [Ranks -> [Times -> Nat]]
  BY <1>3, TableType
<1>6. ASSUME NEW n \in Ranks, NEW t \in Times
      PROVE  /\ Table(more, sent)[n][t] = IF n = r /\ t = event.ts THEN f[r][event.ts] + 1 ELSE f[n][t]
             /\ Table(lists, sentMore)[n][t] =
                  IF n = r /\ t = event.ts THEN f[r][event.ts] + 1 ELSE f[n][t]
  <2>1. /\ f[n][t] = CountAt(lists[n], t) + CountAt(sent[n], t)
        /\ CountAt(lists[n], t) \in Nat /\ CountAt(sent[n], t) \in Nat
        /\ Table(more, sent)[n][t] = CountAt(more[n], t) + CountAt(sent[n], t)
        /\ Table(lists, sentMore)[n][t] = CountAt(lists[n], t) + CountAt(sentMore[n], t)
    BY <1>3, TableType
  <2> HIDE DEF f
  <2>2. CASE n = r
    <3>1. /\ CountAt(more[n], t) = CountAt(lists[n], t) + IF event.ts = t THEN 1 ELSE 0
          /\ CountAt(sentMore[n], t) = CountAt(sent[n], t) + IF event.ts = t THEN 1 ELSE 0
      BY <1>1, <1>2, <1>4, <2>2
    <3> QED
      BY <2>1, <2>2, <3>1
  <2>3. CASE n # r
    BY <1>4, <2>1, <2>3
  <2> QED
    BY <2>2, <2>3
<1>7. /\ Table(more, sent) = [f EXCEPT ![r][event.ts] = f[r][event.ts] + 1]
      /\ Table(lists, sentMore) = [f EXCEPT ![r][event.ts] = f[r][event.ts] + 1]
  <2> HIDE DEF f
  <2>0. f[r][event.ts] + 1 \in Nat
    BY <1>2, <1>5
  <2>1. \A n \in Ranks : \A t \in Times :
          Table(more, sent)[n][t] = IF n = r /\ t = event.ts THEN f[r][event.ts] + 1 ELSE f[n][t]
    BY <1>6
  <2>2. \A n \in Ranks : \A t \in Times :
          Table(lists, sentMore)[n][t] = IF n = r /\ t = event.ts THEN f[r][event.ts] + 1 ELSE f[n][t]
    BY <1>6
  <2> QED
    BY <1>2, <1>5, <2>0, <2>1, <2>2, TableUpdate
<1>8. Changed(f, r, event.ts, 1) = [f EXCEPT ![r][event.ts] = f[r][event.ts] + 1]
  BY DEF Changed
<1> QED
  BY <1>7, <1>8 DEF more, sentMore, Replaced

\* The first event of a rank is taken.
LEMMA TableShrinks ==
  ASSUME NEW lists \in Lists, NEW sent \in Lists, NEW r \in Ranks, lists[r] # <<>>,
         Ordered(lists[r])
  PROVE  /\ Table(Replaced(lists, r, Tail(lists[r])), sent) =
              Changed(Table(lists, sent), r, lists[r][1].ts, -1)
         /\ Table(lists, sent)[r][lists[r][1].ts] > 0
<1> DEFINE event == lists[r][1]
           tail == Tail(lists[r])
           f == Table(lists, sent)
           less == [lists EXCEPT ![r] = tail]
<1>1. /\ lists[r] \in Seq(Events) /\ tail \in Seq(Events) /\ event \in Events
      /\ Lengthened(tail, lists[r], 1, event)
  BY TailOrdered DEF Lists
<1>2. less \in Lists /\ less[r] = tail /\ \A n \in Ranks : n # r => less[n] = lists[n]
  BY <1>1 DEF Lists
<1>3. event.ts \in Times
  BY <1>1, EventTimes
<1> HIDE DEF event, tail, less
<1>4. \A t : CountAt(lists[r], t) = CountAt(tail, t) + IF event.ts = t THEN 1 ELSE 0
  BY <1>1, CountAtOfLengthened
<1>5. f \in [Ranks -> [Times -> Nat]] /\ Table(less, sent) \in [Ranks -> [Times -> Nat]]
  BY <1>2, TableType
<1>6. f[r][event.ts] > 0 /\ f[r][event.ts] - 1 \in Nat
  <2>1. /\ f[r][event.ts] = CountAt(lists[r], event.ts) + CountAt(sent[r], event.ts)
        /\ CountAt(sent[r], event.ts) \in Nat /\ CountAt(tail, event.ts) \in Nat
    BY <1>1, <1>3, TableType, CountAtPositive
  <2> HIDE DEF f
  <2> QED
    BY <1>4, <2>1
<1>7. ASSUME NEW n \in Ranks, NEW t \in Times
      PROVE  Table(less, sent)[n][t] = IF n = r /\ t = event.ts THEN f[r][event.ts] - 1 ELSE f[n][t]
  <2>1. /\ f[n][t] = CountAt(lists[n], t) + CountAt(sent[n], t)
        /\ CountAt(less[n], t) \in Nat /\ CountAt(sent[n], t) \in Nat
        /\ Table(less, sent)[n][t] = CountAt(less[n], t) + CountAt(sent[n], t)
    BY <1>2, TableType
  <2> HIDE DEF f
  <2>2. CASE n = r
    BY <1>2, <1>4, <2>1, <2>2
  <2>3. CASE n # r
    BY <1>2, <2>1, <2>3
  <2> QED
    BY <2>2, <2>3
<1>8. Table(less, sent) = [f EXCEPT ![r][event.ts] = f[r][event.ts] - 1]
  <2> HIDE DEF f
  <2>1. \A n \in Ranks : \A t \in Times :
          Table(less, sent)[n][t] = IF n = r /\ t = event.ts THEN f[r][event.ts] - 1 ELSE f[n][t]
    BY <1>7
  <2> QED
    BY <1>3, <1>5, <1>6, <2>1, TableUpdate
<1>9. Changed(f, r, event.ts, -1) = [f EXCEPT ![r][event.ts] = f[r][event.ts] - 1]
  <2>1. f[r][event.ts] + -1 = f[r][event.ts] - 1
    BY <1>3, <1>5
  <2> QED
    BY <2>1 DEF Changed
<1> QED
  BY <1>6, <1>8, <1>9 DEF less, event, tail, Replaced

\* A packet that is received is an event of its rank as before.
LEMMA TableKept ==
  ASSUME NEW lists \in Lists, NEW sent \in Lists, NEW r \in Ranks, NEW i \in DOMAIN sent[r]
  PROVE  Table(Replaced(lists, r, InsertEvent(lists[r], sent[r][i])),
               Replaced(sent, r, RemoveAt(sent[r], i))) = Table(lists, sent)
<1> DEFINE event == sent[r][i]
           list == InsertEvent(lists[r], event)
           rest == RemoveAt(sent[r], i)
           more == [lists EXCEPT ![r] = list]
           less == [sent EXCEPT ![r] = rest]
<1>1. lists[r] \in Seq(Events) /\ sent[r] \in Seq(Events) /\ event \in Events
  BY EventTimes DEF Lists
<1>2. list \in Seq(Events) /\ \E k : Lengthened(lists[r], list, k, event)
  BY <1>1, InsertEventOrdered
<1>3. rest \in Seq(Events) /\ Lengthened(rest, sent[r], i, event)
  BY <1>1, RemoveAtShortens
<1>4. /\ more \in Lists /\ more[r] = list /\ \A n \in Ranks : n # r => more[n] = lists[n]
      /\ less \in Lists /\ less[r] = rest /\ \A n \in Ranks : n # r => less[n] = sent[n]
  BY <1>2, <1>3 DEF Lists
<1> HIDE DEF event, list, rest, more, less
<1>5. ASSUME NEW t
      PROVE  CountAt(list, t) + CountAt(rest, t) = CountAt(lists[r], t) + CountAt(sent[r], t)
  <2>1. CountAt(list, t) = CountAt(lists[r], t) + IF event.ts = t THEN 1 ELSE 0
    BY <1>1, <1>2, CountAtOfLengthened
  <2>2. CountAt(sent[r], t) = CountAt(rest, t) + IF event.ts = t THEN 1 ELSE 0
    BY <1>1, <1>3, CountAtOfLengthened
  <2>3. CountAt(lists[r], t) \in Nat /\ CountAt(rest, t) \in Nat
    BY <1>1, <1>3, CountAtPositive
  <2> QED
    BY <2>1, <2>2, <2>3
<1>6. \A n \in Ranks : \A t \in Times :
        CountAt(more[n], t) + CountAt(less[n], t) = CountAt(lists[n], t) + CountAt(sent[n], t)
  BY <1>4, <1>5
<1>7. Table(more, less) = Table(lists, sent)
  BY <1>6 DEF Table
<1> QED
  BY <1>7 DEF more, less, list, rest, event, Replaced

\* Every step of the ranks is a step of the sequential order or changes nothing
\* that it sees.
LEMMA StepImplementsOrder ==
  ASSUME DistInv, [Next]_vars
  PROVE  [Order!Next]_Order!vars
<1> DEFINE p == Table(events, transit)
<1>0. /\ events \in Lists /\ transit \in Lists /\ DistTypeOK /\ ListsInv /\ WindowInv
      /\ Order!Times = Times
  BY DEF DistInv, DistTypeOK, Lists, Order!Times, Times
<1>1. ASSUME NEW r \in Ranks, Schedule(r)
      PROVE  Order!Next
  <2>1. PICK d \in Delays :
          /\ currentTs[r] + d <= MaxTime
          /\ events' = [events EXCEPT ![r] = InsertEvent(@, App(currentTs[r] + d))]
    BY <1>1 DEF Schedule
  <2> DEFINE t == currentTs[r] + d
  <2>2. t \in Times /\ t >= currentTs[r] /\ App(t) \in Events /\ App(t).ts = t
    <3>1. currentTs[r] \in Nat /\ d \in Nat /\ MaxTime \in Nat
      BY <1>0, RankConstants, RankAssumption DEF DistTypeOK
    <3>2. t \in Times /\ t >= currentTs[r]
      BY <2>1, <3>1 DEF Times
    <3> QED
      BY <3>2 DEF App, Events
  <2>3. UNCHANGED <<currentTs, transit>>
    BY <1>1 DEF Schedule, mpiVars
  <2>4. Table(events', transit') = Changed(p, r, t, 1)
    <3>1. events' = Replaced(events, r, InsertEvent(events[r], App(t)))
      BY <2>1 DEF Replaced
    <3> HIDE DEF t
    <3> QED
      BY <1>0, <2>2, <2>3, <3>1, TableGrows
  <2>5. Order!Schedule(r, t)
    BY <2>2, <2>3, <2>4 DEF Order!Schedule, Table, Changed
  <2> QED
    BY <1>0, <2>2, <2>5 DEF Order!Next
<1>2. ASSUME NEW r \in Ranks, SendPacket(r)
      PROVE  Order!Next
  <2>1. PICK n \in Neighbours(r) : \E d \in Links[r][n], tx \in TxTimes :
          /\ n \in Ranks /\ d \in Nat /\ tx \in Nat
          /\ currentTs[r] + tx + d \in Times
          /\ currentTs[n] <= currentTs[r] + tx + d
          /\ App(currentTs[r] + tx + d) \in Events
          /\ transit' = [transit EXCEPT ![n] = InsertEvent(@, App(currentTs[r] + tx + d))]
    BY <1>0, <1>2, SendPacketKeepsWindow
  <2>2. PICK d \in Links[r][n], tx \in TxTimes :
          /\ n \in Ranks /\ d \in Nat /\ tx \in Nat
          /\ currentTs[r] + tx + d \in Times
          /\ currentTs[n] <= currentTs[r] + tx + d
          /\ App(currentTs[r] + tx + d) \in Events
          /\ transit' = [transit EXCEPT ![n] = InsertEvent(@, App(currentTs[r] + tx + d))]
    BY <2>1
  <2> DEFINE t == currentTs[r] + tx + d
  <2>3. t >= currentTs[r] + d /\ t >= currentTs[n]
    <3>1. currentTs[r] \in Nat /\ currentTs[n] \in Nat /\ t \in Nat
      BY <1>0, <2>2, RankConstants DEF DistTypeOK
    <3> QED
      BY <2>2, <3>1
  <2>4. UNCHANGED <<currentTs, events>>
    BY <1>2 DEF SendPacket, rankVars
  <2>5. App(t).ts = t
    BY DEF App
  <2>6. Table(events', transit') = Changed(p, n, t, 1)
    <3>1. /\ n \in Ranks /\ App(t) \in Events
          /\ transit' = Replaced(transit, n, InsertEvent(transit[n], App(t)))
      BY <2>2 DEF Replaced
    <3> HIDE DEF t
    <3> QED
      BY <1>0, <2>4, <2>5, <3>1, TableGrows
  <2>7. Order!Send(r, n, t)
    BY <2>2, <2>3, <2>4, <2>6 DEF Order!Send, Table, Changed
  <2> QED
    BY <1>0, <2>2, <2>7 DEF Order!Next
<1>3. ASSUME NEW r \in Ranks, ProcessOneEvent(r)
      PROVE  Order!Next
  <2> DEFINE t == NextTs(r)
  <2>1. /\ events[r] \in Seq(Events) /\ events[r] # <<>> /\ Ordered(events[r])
        /\ t = events[r][1].ts /\ t \in Times /\ currentTs[r] <= t
        /\ \A i \in DOMAIN events[r] : t <= events[r][i].ts
        /\ \A i \in DOMAIN transit[r] : t <= transit[r][i].ts
    BY <1>0, <1>3, ProcessKeepsWindow
  <2>2. /\ events' = [events EXCEPT ![r] = Tail(@)]
        /\ currentTs' = [currentTs EXCEPT ![r] = t]
        /\ transit' = transit
    BY <1>3 DEF ProcessOneEvent, mpiVars
  <2> HIDE DEF t
  <2>3. Table(events', transit') = Changed(p, r, t, -1) /\ p[r][t] > 0
    <3>1. events' = Replaced(events, r, Tail(events[r]))
      BY <2>2 DEF Replaced
    <3> QED
      BY <1>0, <2>1, <2>2, <3>1, TableShrinks
  <2>9. Changed(p, r, t, -1) = [p EXCEPT ![r][t] = @ - 1]
    <3>1. p[r][t] \in Nat
      BY <1>0, <2>1, TableType
    <3> HIDE DEF p
    <3>2. p[r][t] + -1 = p[r][t] - 1
      BY <3>1
    <3> QED
      BY <3>2 DEF Changed
  <2>4. ASSUME NEW s \in Times, p[r][s] > 0
        PROVE  s >= t
    <3>1. /\ p[r][s] = CountAt(events[r], s) + CountAt(transit[r], s)
          /\ CountAt(events[r], s) \in Nat /\ CountAt(transit[r], s) \in Nat
      BY <1>0, TableType
    <3>2. CountAt(events[r], s) > 0 \/ CountAt(transit[r], s) > 0
      <4> HIDE DEF p
      <4> QED
        BY <2>4, <3>1
    <3>3. events[r] \in Seq(Events) /\ transit[r] \in Seq(Events)
      BY <1>0 DEF Lists
    <3>4. (\E i \in DOMAIN events[r] : events[r][i].ts = s)
            \/ \E i \in DOMAIN transit[r] : transit[r][i].ts = s
      BY <3>2, <3>3, CountAtPositive
    <3>5. t <= s
      BY <2>1, <3>4
    <3> QED
      BY <2>1, <3>5, RankConstants
  <2>5. t >= currentTs[r]
    BY <1>0, <2>1, RankConstants DEF DistTypeOK
  <2>6. Order!Process(r, t)
    BY <1>0, <2>2, <2>3, <2>4, <2>5, <2>9 DEF Order!Process, Table
  <2> QED
    BY <1>0, <2>1, <2>6 DEF Order!Next
<1>4. ASSUME NEW r \in Ranks, ReceiveMessage(r)
      PROVE  UNCHANGED Order!vars
  <2>1. PICK i \in DOMAIN transit[r] :
          /\ transit' = [transit EXCEPT ![r] = RemoveAt(@, i)]
          /\ events' = [events EXCEPT ![r] = InsertEvent(@, transit[r][i])]
    BY <1>4 DEF ReceiveMessage
  <2>2. Table(events', transit') = Table(events, transit)
    <3>1. /\ transit' = Replaced(transit, r, RemoveAt(transit[r], i))
          /\ events' = Replaced(events, r, InsertEvent(events[r], transit[r][i]))
      BY <2>1 DEF Replaced
    <3> QED
      BY <1>0, <3>1, TableKept
  <2>3. currentTs' = currentTs
    BY <1>4 DEF ReceiveMessage
  <2> QED
    BY <2>2, <2>3 DEF Order!vars, Table
<1>5. ASSUME UNCHANGED <<events, currentTs, transit>>
      PROVE  UNCHANGED Order!vars
  BY <1>5 DEF Order!vars
<1>6. ASSUME NEW r \in Ranks, HandlerReturns(r) \/ Synchronize(r) \/ Contribute(r)
      PROVE  UNCHANGED <<events, currentTs, transit>>
  BY <1>6 DEF HandlerReturns, Synchronize, Contribute, rankVars, mpiVars
<1>7. Allgather \/ UNCHANGED vars => UNCHANGED <<events, currentTs, transit>>
  BY DEF Allgather, vars, rankVars, mpiVars
<1> QED
  BY <1>1, <1>2, <1>3, <1>4, <1>5, <1>6, <1>7 DEF Next, RankStep

\* What the ranks process, taken together, is what one sequential simulator
\* could process: for any number of ranks and channels, no packet arrives in
\* the past of its receiver and no event is processed ahead of an earlier one.
THEOREM RanksKeepTheOrder == Spec => ImplementsSequentialOrder
<1>1. Init => Order!Init
  <2> SUFFICES ASSUME Init PROVE Order!Init
    OBVIOUS
  <2>1. Table(events, transit) \in [Ranks -> [Times -> Nat]]
    BY InitDistType, TableType DEF DistTypeOK, Lists
  <2> QED
    BY <2>1 DEF Init, Order!Init, Order!Times, Times, Table
<1>2. DistInv /\ [Next]_vars => [Order!Next]_Order!vars
  BY StepImplementsOrder
<1> QED
  BY <1>1, <1>2, DistInvariant, PTL DEF Spec, Order!Spec, ImplementsSequentialOrder

==============================================================================
