----------------------- MODULE NullMessageSimulatorImpl -----------------------
(***************************************************************************)
(* NullMessageSimulatorImpl with NullMessageMpiInterface and the remote     *)
(* channel bundles (mpi/model): every message from a rank carries the time  *)
(* before which it will not send another packet; a rank processes events    *)
(* up to the least of these guarantees and blocks for messages beyond it.   *)
(* Null messages carry a guarantee when there is no packet to carry it.     *)
(***************************************************************************)
EXTENDS RankEvents

CONSTANTS
  Start,            \* Start[r]: time of the event the application of r begins with
  StopTime,         \* time given to Simulator::Stop on every rank
  SchedulerTune     \* SchedulerTune, in hundredths

ASSUME NullMessageAssumption ==
  /\ SchedulerTune \in 1 .. 100
  /\ StopTime \in Times /\ Start \in [Ranks -> Times]

VARIABLES
  pc,               \* where Run of a rank is
  events,           \* m_events
  currentTs,        \* m_currentTs
  stop,             \* m_stop
  safeTime,         \* m_safeTime
  guarantee,        \* guarantee[r][n]: m_guaranteeTime of the bundle of r with n
  channel,          \* channel[n][r]: messages from n to r, in the order sent
  calls             \* bound: calls made by the handlers of a rank

vars == <<pc, events, currentTs, stop, safeTime, guarantee, channel, calls>>

\* RemoteChannelBundle::GetDelay, and the time from one null message to the
\* next: a Time made from a double, which rounds to the nearest time step.
Delay(r, n) == Min(Links[r][n])
NullDelay(r, n) == (SchedulerTune * Delay(r, n) + 50) \div 100

App(t) == [ts |-> t, kind |-> "app"]
StopEvent(t) == [ts |-> t, kind |-> "stop"]
TransmitComplete(t, n, d) == [ts |-> t, kind |-> "sent", to |-> n, delay |-> d]
NullEvent(t, n) == [ts |-> t, kind |-> "null", to |-> n, cancelled |-> FALSE]

Packet(t, g) == [time |-> t, guarantee |-> g]
NullMessage(g) == Packet(0, g)

\* ScheduleNullMessageEvent.
ScheduleNullMessageEvent(list, r, n, now) ==
  InsertEvent(list, NullEvent(now + NullDelay(r, n), n))

\* A slip: the old event is cancelled, and that is all.
MutRescheduleNullMessageEvent(list, r, n, now) ==
  [i \in DOMAIN list |-> IF list[i].kind = "null" /\ list[i].to = n
                         THEN [list[i] EXCEPT !.cancelled = TRUE] ELSE list[i]]

\* RescheduleNullMessageEvent: the old event stays in the list, cancelled.
RescheduleNullMessageEvent(list, r, n, now) ==
  ScheduleNullMessageEvent(
    [i \in DOMAIN list |-> IF list[i].kind = "null" /\ list[i].to = n
                           THEN [list[i] EXCEPT !.cancelled = TRUE] ELSE list[i]],
    r, n, now)

\* InitializeNullMessageEvents: the bundles, behind what the application has
\* scheduled, in the order an unordered_map has them in.
InitialLists(r) ==
  {FoldLeft(LAMBDA list, n : ScheduleNullMessageEvent(list, r, n, 0),
            InsertEvent(<<App(Start[r])>>, StopEvent(StopTime)), bundles) :
     bundles \in SetToSeqs(Neighbours(r))}

\* Run has been entered on every rank and CalculateLookAhead has been called.
Init ==
  /\ pc = [r \in Ranks |-> "loop"]
  /\ events \in {lists \in [Ranks -> UNION {InitialLists(r) : r \in Ranks}] :
                  \A r \in Ranks : lists[r] \in InitialLists(r)}
  /\ currentTs = [r \in Ranks |-> 0]
  /\ stop = [r \in Ranks |-> FALSE]
  /\ safeTime = [r \in Ranks |-> 0]
  /\ guarantee = [r \in Ranks |-> [n \in Neighbours(r) |-> 0]]
  /\ channel = [r \in Ranks |-> [n \in Neighbours(r) |-> <<NullMessage(Delay(r, n))>>]]
  /\ calls = [r \in Ranks |-> 0]

IsFinished(r) == events[r] = <<>> \/ stop[r]

------------------------------------------------------------------------------
(* Handlers. *)

Call(r) == calls[r] < MaxCalls[r] /\ calls' = [calls EXCEPT ![r] = @ + 1]

Schedule(r) ==
  /\ pc[r] = "handler"
  /\ Call(r)
  /\ \E d \in Delays :
       /\ currentTs[r] + d <= MaxTime
       /\ events' = [events EXCEPT ![r] = InsertEvent(@, App(currentTs[r] + d))]
  /\ UNCHANGED <<pc, currentTs, stop, safeTime, guarantee, channel>>

\* A slip: the guarantee is counted from the next event alone.
MutCalculateGuaranteeTime(r, n, list) == list[1].ts + Delay(r, n)

\* No packet of r reaches n before this: r will send from its next event, or
\* from one that reaches r after its safe time.
CalculateGuaranteeTime(r, n, list) == Min({list[1].ts, safeTime[r]}) + Delay(r, n)

\* m_txMachineState of the device on the channel to n with delay d is BUSY as
\* long as the end of its transmission is in the list.
IsBusy(r, n, d) ==
  \E i \in DOMAIN events[r] :
    events[r][i].kind = "sent" /\ events[r][i].to = n /\ events[r][i].delay = d

\* PointToPointNetDevice::TransmitStart schedules the end of the transmission,
\* then PointToPointRemoteChannel::TransmitStart calls SendPacket.
SendPacket(r) ==
  /\ pc[r] = "handler"
  /\ Call(r)
  /\ \E n \in Neighbours(r) : \E d \in Links[r][n], tx \in TxTimes :
       LET rxTime == currentTs[r] + tx + d
           list == InsertEvent(events[r], TransmitComplete(currentTs[r] + tx, n, d)) IN
       /\ ~IsBusy(r, n, d)
       /\ rxTime <= MaxTime
       /\ channel' = [channel EXCEPT ![r][n] =
            Append(@, Packet(rxTime, CalculateGuaranteeTime(r, n, list)))]
       /\ events' = [events EXCEPT ![r] = RescheduleNullMessageEvent(list, r, n, currentTs[r])]
  /\ UNCHANGED <<pc, currentTs, stop, safeTime, guarantee>>

HandlerReturns(r) ==
  /\ pc[r] = "handler"
  /\ pc' = [pc EXCEPT ![r] = "arriving"]
  /\ UNCHANGED <<events, currentTs, stop, safeTime, guarantee, channel, calls>>

------------------------------------------------------------------------------
(* Run. *)

\* A slip: any event may run that is not before the clock.
MutTakeEvent(r, kinds) ==
  /\ pc[r] = "loop" /\ ~IsFinished(r)
  /\ events[r][1].kind \in kinds
  /\ events[r][1].ts <= Max(Range(guarantee[r]))
  /\ currentTs' = [currentTs EXCEPT ![r] = events[r][1].ts]

\* ProcessOneEvent: the event leaves the list and sets the clock.
TakeEvent(r, kinds) ==
  /\ pc[r] = "loop" /\ ~IsFinished(r)
  /\ events[r][1].kind \in kinds
  /\ events[r][1].ts <= safeTime[r]
  /\ currentTs' = [currentTs EXCEPT ![r] = events[r][1].ts]

\* An event of the application, or the end of a transmission: the device may
\* send the next packet of its queue.
ProcessApp(r) ==
  /\ TakeEvent(r, {"app", "sent"})
  /\ events' = [events EXCEPT ![r] = Tail(@)]
  /\ pc' = [pc EXCEPT ![r] = "handler"]
  /\ UNCHANGED <<stop, safeTime, guarantee, channel, calls>>

ProcessStop(r) ==
  /\ TakeEvent(r, {"stop"})
  /\ events' = [events EXCEPT ![r] = Tail(@)]
  /\ stop' = [stop EXCEPT ![r] = TRUE]
  /\ pc' = [pc EXCEPT ![r] = "arriving"]
  /\ UNCHANGED <<safeTime, guarantee, channel, calls>>

\* NullMessageEventHandler sends a null message and schedules itself again; a
\* cancelled event does nothing.
NullMessageEventHandler(r) ==
  /\ TakeEvent(r, {"null"})
  /\ LET event == events[r][1]
         list == Tail(events[r])
     IN IF event.cancelled
        THEN events' = [events EXCEPT ![r] = list] /\ UNCHANGED channel
        ELSE /\ channel' = [channel EXCEPT ![r][event.to] =
                  Append(@, NullMessage(CalculateGuaranteeTime(r, event.to, list)))]
             /\ events' = [events EXCEPT ![r] =
                  ScheduleNullMessageEvent(list, r, event.to, event.ts)]
  /\ pc' = [pc EXCEPT ![r] = "arriving"]
  /\ UNCHANGED <<stop, safeTime, guarantee, calls>>

\* CalculateSafeTime with RemoteChannelBundleManager::GetSafeTime.
CalculateSafeTime(r) ==
  safeTime' = [safeTime EXCEPT ![r] = Min({Infinity} \cup Range(guarantee'[r]))]

\* One message in ReceiveMessages, the first from neighbour n: a packet becomes
\* an event, and every message brings a guarantee.
ReceiveMessage(r, n) ==
  LET message == Head(channel[n][r])
  IN /\ channel[n][r] # <<>>
     /\ channel' = [channel EXCEPT ![n][r] = Tail(@)]
     /\ events' = IF message.time = 0 THEN events
                  ELSE [events EXCEPT ![r] = InsertEvent(@, App(message.time))]
     /\ guarantee' = [guarantee EXCEPT ![r][n] = message.guarantee]

\* HandleArrivingMessagesNonBlocking: ReceiveMessages goes on as long as
\* MPI_Testany finds a message that has arrived.
ReceiveMessagesNonBlocking(r) ==
  /\ pc[r] = "arriving"
  /\ \E n \in Neighbours(r) : ReceiveMessage(r, n)
  /\ UNCHANGED <<pc, currentTs, stop, safeTime, calls>>

\* MPI_Testany finds none, which does not mean that none is on its way.
NoMessageHasArrived(r) ==
  /\ pc[r] = "arriving"
  /\ pc' = [pc EXCEPT ![r] = "loop"]
  /\ UNCHANGED <<events, currentTs, stop, guarantee, channel, calls>>
  /\ CalculateSafeTime(r)

\* The next event is not safe: ReceiveMessagesBlocking waits for one message.
\* With no neighbour there is nothing to wait for, and every time is safe.
HandleArrivingMessagesBlocking(r) ==
  /\ pc[r] = "loop" /\ ~IsFinished(r)
  /\ events[r][1].ts > safeTime[r]
  /\ IF Neighbours(r) = {}
     THEN UNCHANGED <<events, guarantee, channel>>
     ELSE \E n \in Neighbours(r) : ReceiveMessage(r, n)
  /\ CalculateSafeTime(r)
  /\ UNCHANGED <<pc, currentTs, stop, calls>>

RunReturns(r) ==
  /\ pc[r] = "loop" /\ IsFinished(r)
  /\ pc' = [pc EXCEPT ![r] = "returned"]
  /\ UNCHANGED <<events, currentTs, stop, safeTime, guarantee, channel, calls>>

RankStep(r) ==
  \/ Schedule(r) \/ SendPacket(r) \/ HandlerReturns(r)
  \/ ProcessApp(r) \/ ProcessStop(r) \/ NullMessageEventHandler(r)
  \/ ReceiveMessagesNonBlocking(r) \/ NoMessageHasArrived(r)
  \/ HandleArrivingMessagesBlocking(r)
  \/ RunReturns(r)

Next == \E r \in Ranks : RankStep(r)

Spec == Init /\ [][Next]_vars

\* Every rank keeps running; one that waits is woken by the next message.
FairSpec == Spec /\ \A r \in Ranks : WF_vars(RankStep(r))

------------------------------------------------------------------------------

\* The events of a rank, the messages between ranks.
Events ==
  [ts : Nat, kind : {"app", "stop"}]
    \cup [ts : Nat, kind : {"sent"}, to : Ranks, delay : Nat]
    \cup [ts : Nat, kind : {"null"}, to : Ranks, cancelled : BOOLEAN]
Messages == [time : Times, guarantee : Nat]

TypeOK ==
  /\ pc \in [Ranks -> {"loop", "handler", "arriving", "returned"}]
  /\ events \in [Ranks -> Seq(Events)]
  /\ currentTs \in [Ranks -> Times] /\ stop \in [Ranks -> BOOLEAN]
  /\ safeTime \in [Ranks -> 0 .. Infinity]
  /\ DOMAIN guarantee = Ranks /\ DOMAIN channel = Ranks
  /\ \A r \in Ranks : /\ guarantee[r] \in [Neighbours(r) -> Nat]
                       /\ channel[r] \in [Neighbours(r) -> Seq(Messages)]
  /\ calls \in [Ranks -> Nat]

\* null-message-simulator-impl.h:169: "No message should arrive from task
\* nodeSysId with a receive time less than the guarantee time", be it the one
\* the receiver knows or one that is on its way ahead of the packet.
GuaranteeIsKept ==
  \A r \in Ranks : \A n \in Neighbours(r) :
    LET c == channel[n][r] IN
    \A j \in DOMAIN c : c[j].time # 0 =>
      /\ c[j].time >= guarantee[r][n]
      /\ \A i \in 1 .. j - 1 : c[j].time >= c[i].guarantee

\* The ranks process their events as one sequential simulator would; the events
\* of null messages and devices only move the clock.
IsApplication(event) == event.kind \in {"app", "stop"}
ApplicationAt(list, t) ==
  Cardinality({i \in DOMAIN list : IsApplication(list[i]) /\ list[i].ts = t})
ArrivalsAt(messages, t) ==
  Cardinality({i \in DOMAIN messages : t # 0 /\ messages[i].time = t})
Arrivals(messages, r, t) ==
  LET from == [n \in Neighbours(r) |-> ArrivalsAt(messages[n][r], t)]
  IN MapThenSumSet(LAMBDA n : from[n], Neighbours(r))
Pending(lists, messages) ==
  [r \in Ranks |-> [t \in Times |-> ApplicationAt(lists[r], t) + Arrivals(messages, r, t)]]
Order == INSTANCE SequentialOrder WITH
  clock <- currentTs, pending <- Pending(events, channel)
ImplementsSequentialOrder == Order!Spec

\* No ranks wait for one another for ever: the stop time is reached on all.
EveryRankReturns == <>(\A r \in Ranks : pc[r] = "returned")

==============================================================================
