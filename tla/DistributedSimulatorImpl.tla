----------------------- MODULE DistributedSimulatorImpl -----------------------
(***************************************************************************)
(* DistributedSimulatorImpl with GrantedTimeWindowMpiInterface (mpi/model): *)
(* every rank processes its events up to a granted time; when it has no    *)
(* more of them it takes part in an all-gather, from which all ranks       *)
(* compute their next grants.                                              *)
(***************************************************************************)
EXTENDS RankEvents

CONSTANTS
  Start,            \* Start[r]: time of the event the application of r begins with
  StopTimes,        \* times given to Simulator::Stop before Run
  Bounds            \* values given to BoundLookAhead; Infinity for no call

\* BoundLookAhead takes no value that is not positive.
ASSUME DistributedAssumption ==
  /\ Start \in [Ranks -> Times]
  /\ StopTimes \subseteq Times
  /\ Bounds \subseteq 1 .. Infinity

VARIABLES
  pc,               \* where Run of a rank is
  events,           \* m_events
  currentTs,        \* m_currentTs
  stop,             \* m_stop
  lookAhead,        \* m_lookAhead
  grantedTime,      \* m_grantedTime
  lbts,             \* m_pLBTS: what each rank contributes to the all-gather
  globalFinished,   \* m_globalFinished, which all ranks compute alike
  rxCount, txCount, \* g_rxCount, g_txCount
  transit,          \* packets on their way to each rank
  calls             \* bound: calls made by the handlers of a rank

rankVars == <<events, currentTs, stop>>
windowVars == <<lookAhead, grantedTime, lbts, globalFinished>>
mpiVars == <<rxCount, txCount, transit>>
vars == <<pc, rankVars, windowVars, mpiVars, calls>>

\* A slip: the greatest delay of the channels of r counts.
MutOwnLookAhead(r, bound) == 
  LET delays == UNION {Links[r][n] : n \in Ranks}
  IN IF delays = {} THEN bound ELSE Min({bound, Max(delays)})

\* CalculateLookAhead: the least delay of the channels of r, the bound included.
OwnLookAhead(r, bound) == Min({bound} \cup UNION {Links[r][n] : n \in Ranks})

\* Ranks without channels take the greatest value of those that have one.
LookAhead(r, bound) ==
  LET known == {OwnLookAhead(n, bound) : n \in Ranks} \ {Infinity}
  IN IF OwnLookAhead(r, bound) = Infinity /\ known # {} THEN Max(known)
     ELSE OwnLookAhead(r, bound)

App(t) == [ts |-> t, kind |-> "app"]
StopEvent(t) == [ts |-> t, kind |-> "stop"]

\* Run has been entered; each rank has been set up with one event of the
\* application and may have been told when to stop.
Init ==
  /\ pc = [r \in Ranks |-> "loop"]
  /\ \E told \in SUBSET Ranks, t \in StopTimes :
       events = [r \in Ranks |-> IF r \in told THEN InsertEvent(<<App(Start[r])>>, StopEvent(t))
                                 ELSE <<App(Start[r])>>]
  /\ currentTs = [r \in Ranks |-> 0]
  /\ stop = [r \in Ranks |-> FALSE]
  /\ \E bound \in Bounds : lookAhead = [r \in Ranks |-> LookAhead(r, bound)]
  /\ grantedTime = lookAhead
  /\ lbts = [r \in Ranks |-> [rx |-> 0, tx |-> 0, finished |-> FALSE, smallest |-> 0]]
  /\ globalFinished = FALSE
  /\ rxCount = [r \in Ranks |-> 0] /\ txCount = [r \in Ranks |-> 0]
  /\ transit = [r \in Ranks |-> <<>>]
  /\ calls = [r \in Ranks |-> 0]

IsLocalFinished(r) == events[r] = <<>> \/ stop[r]
NextTs(r) == IF IsLocalFinished(r) THEN Infinity ELSE events[r][1].ts

------------------------------------------------------------------------------
(* Handlers.  An event may schedule events, send packets and stop its rank. *)

Call(r) == calls[r] < MaxCalls[r] /\ calls' = [calls EXCEPT ![r] = @ + 1]

Schedule(r) ==
  /\ pc[r] = "handler"
  /\ Call(r)
  /\ \E d \in Delays :
       /\ currentTs[r] + d <= MaxTime
       /\ events' = [events EXCEPT ![r] = InsertEvent(@, App(currentTs[r] + d))]
  /\ UNCHANGED <<pc, currentTs, stop, windowVars, mpiVars>>

\* A slip: the packet is counted only when the send has completed.
MutSendPacket(r) ==
  /\ pc[r] = "handler"
  /\ Call(r)
  /\ \E n \in Neighbours(r) : \E d \in Links[r][n], tx \in TxTimes :
       LET rxTime == currentTs[r] + tx + d IN
       /\ rxTime <= MaxTime
       /\ transit' = [transit EXCEPT ![n] = InsertEvent(@, App(rxTime))]
  /\ UNCHANGED <<pc, rankVars, windowVars, rxCount, txCount>>

\* PointToPointRemoteChannel::TransmitStart and SendPacket.
SendPacket(r) ==
  /\ pc[r] = "handler"
  /\ Call(r)
  /\ \E n \in Neighbours(r) : \E d \in Links[r][n], tx \in TxTimes :
       LET rxTime == currentTs[r] + tx + d IN
       /\ rxTime <= MaxTime
       /\ transit' = [transit EXCEPT ![n] = InsertEvent(@, App(rxTime))]
  /\ txCount' = [txCount EXCEPT ![r] = @ + 1]
  /\ UNCHANGED <<pc, rankVars, windowVars, rxCount>>

HandlerReturns(r) ==
  /\ pc[r] = "handler"
  /\ pc' = [pc EXCEPT ![r] = "loop"]
  /\ UNCHANGED <<rankVars, windowVars, mpiVars, calls>>

------------------------------------------------------------------------------
(* Run. *)

\* The next event is within the window.
ProcessOneEvent(r) ==
  /\ pc[r] = "loop" /\ ~globalFinished
  /\ ~IsLocalFinished(r) /\ NextTs(r) <= grantedTime[r]
  /\ events' = [events EXCEPT ![r] = Tail(@)]
  /\ currentTs' = [currentTs EXCEPT ![r] = NextTs(r)]
  /\ IF events[r][1].kind = "stop"
     THEN stop' = [stop EXCEPT ![r] = TRUE] /\ UNCHANGED pc
     ELSE pc' = [pc EXCEPT ![r] = "handler"] /\ UNCHANGED stop
  /\ UNCHANGED <<windowVars, mpiVars, calls>>

\* The window is exhausted, or the rank has nothing left to do.
Synchronize(r) ==
  /\ pc[r] = "loop" /\ ~globalFinished
  /\ IsLocalFinished(r) \/ NextTs(r) > grantedTime[r]
  /\ pc' = [pc EXCEPT ![r] = "receive"]
  /\ UNCHANGED <<rankVars, windowVars, mpiVars, calls>>

\* One round of ReceiveMessages: any packet that has arrived.
ReceiveMessage(r) ==
  /\ pc[r] = "receive"
  /\ \E i \in DOMAIN transit[r] :
       /\ transit' = [transit EXCEPT ![r] = RemoveAt(@, i)]
       /\ events' = [events EXCEPT ![r] = InsertEvent(@, transit[r][i])]
  /\ rxCount' = [rxCount EXCEPT ![r] = @ + 1]
  /\ UNCHANGED <<pc, currentTs, stop, windowVars, txCount, calls>>

\* Testany finds no more; the rank enters MPI_Allgather with its LbtsMessage.
Contribute(r) ==
  /\ pc[r] = "receive"
  /\ pc' = [pc EXCEPT ![r] = "gather"]
  /\ lbts' = [lbts EXCEPT ![r] = [rx |-> rxCount[r], tx |-> txCount[r],
                                  finished |-> IsLocalFinished(r), smallest |-> NextTs(r)]]
  /\ UNCHANGED <<rankVars, lookAhead, grantedTime, globalFinished, mpiVars, calls>>

Total(f) == MapThenSumSet(LAMBDA r : f[r], Ranks)

\* A slip: the end is not tied to the counts.
MutAllgatherEnds ==
  /\ \A r \in Ranks : pc[r] = "gather"
  /\ pc' = [r \in Ranks |-> "loop"]
  /\ LET smallest == Min({lbts[r].smallest : r \in Ranks})
         noTransients == Total([r \in Ranks |-> lbts[r].rx]) = Total([r \in Ranks |-> lbts[r].tx])
     IN /\ globalFinished' = \A r \in Ranks : lbts[r].finished
        /\ grantedTime' =
             IF ~noTransients THEN grantedTime
             ELSE [r \in Ranks |-> IF lookAhead[r] = Infinity THEN Infinity
                                   ELSE smallest + lookAhead[r]]
  /\ UNCHANGED <<rankVars, lookAhead, lbts, mpiVars, calls>>

\* All ranks have contributed; each computes the end and its next window, and
\* keeps the old one while there are packets on their way.
Allgather ==
  /\ \A r \in Ranks : pc[r] = "gather"
  /\ pc' = [r \in Ranks |-> "loop"]
  /\ LET smallest == Min({lbts[r].smallest : r \in Ranks})
         noTransients == Total([r \in Ranks |-> lbts[r].rx]) = Total([r \in Ranks |-> lbts[r].tx])
     IN /\ globalFinished' = (noTransients /\ \A r \in Ranks : lbts[r].finished)
        /\ grantedTime' =
             IF ~noTransients THEN grantedTime
             ELSE [r \in Ranks |-> IF lookAhead[r] = Infinity THEN Infinity
                                   ELSE smallest + lookAhead[r]]
  /\ UNCHANGED <<rankVars, lookAhead, lbts, mpiVars, calls>>

RankStep(r) ==
  \/ Schedule(r) \/ SendPacket(r) \/ HandlerReturns(r)
  \/ ProcessOneEvent(r) \/ Synchronize(r) \/ Contribute(r)

Next ==
  \/ \E r \in Ranks : RankStep(r) \/ ReceiveMessage(r)
  \/ Allgather

Spec == Init /\ [][Next]_vars

\* Every rank keeps running, the collective operation completes, and a packet
\* that was sent arrives in some round of receiving.
FairSpec ==
  /\ Spec
  /\ \A r \in Ranks : WF_vars(RankStep(r)) /\ SF_vars(ReceiveMessage(r))
  /\ WF_vars(Allgather)

------------------------------------------------------------------------------

TypeOK ==
  /\ pc \in [Ranks -> {"loop", "handler", "receive", "gather"}]
  /\ events \in [Ranks -> Seq([ts : Times, kind : {"app", "stop"}])]
  /\ transit \in [Ranks -> Seq([ts : Times, kind : {"app"}])]
  /\ currentTs \in [Ranks -> Times] /\ stop \in [Ranks -> BOOLEAN]
  /\ lookAhead \in [Ranks -> 0 .. Infinity]
  /\ grantedTime \in [Ranks -> 0 .. 2 * Infinity]
  /\ globalFinished \in BOOLEAN

\* When a rank finds the simulation finished, so do all, and no packet is left
\* behind on its way.
NothingIsLeftBehind ==
  globalFinished => \A r \in Ranks : IsLocalFinished(r) /\ transit[r] = <<>>

\* The ranks process their events as one sequential simulator would.
Order == INSTANCE SequentialOrder WITH
  clock <- currentTs,
  pending <- [r \in Ranks |-> [t \in Times |-> CountAt(events[r], t) + CountAt(transit[r], t)]]
ImplementsSequentialOrder == Order!Spec

\* Run returns on every rank once the ranks have no events left or are stopped:
\* no rank waits for ever in the all-gather, and no packet holds up the end.
RunReturns == <>globalFinished

==============================================================================
