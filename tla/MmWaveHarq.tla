------------------------------ MODULE MmWaveHarq ------------------------------
(***************************************************************************)
(* Hybrid ARQ of the mmWave MAC for one user and one direction: the        *)
(* processes of MmWaveFlexTtiMacScheduler, the transport blocks kept for   *)
(* retransmission by the sender (MmWaveEnbMac for the downlink,            *)
(* MmWaveUeMac for the uplink) and the feedback of the receiver            *)
(* (MmWaveSpectrumPhy::EndRxData).                                         *)
(*                                                                         *)
(* The scheduler is triggered once a slot, for a slot ahead; what a block  *)
(* scheduled now is answered reaches the trigger RoundTrip slots later.    *)
(* A block is a number, its size the symbols it takes.  Other users and    *)
(* the other direction leave any number of symbols to this one.            *)
(***************************************************************************)
EXTENDS Integers, SequencesExt

CONSTANTS
  Directions,      \* "DL", "UL"
  NumHarqProcess,
  HarqTimeout,
  MaxRv,           \* the redundancy version of the last retransmission, 3 in the code
  RoundTrip,       \* slots from a trigger to the one that sees the feedback
  FreeSymbols,     \* what may be left of a slot to this user and direction
  Sizes,           \* symbols a new block may take
  NTbs             \* bound: number of transport blocks

ASSUME HarqAssumption ==
  /\ Directions \subseteq {"DL", "UL"}
  /\ NumHarqProcess \in Nat \ {0} /\ HarqTimeout \in Nat /\ MaxRv \in Nat /\ RoundTrip \in Nat \ {0}
  /\ FreeSymbols \subseteq Nat /\ Sizes \subseteq Nat \ {0} /\ NTbs \in Nat

Processes == 0 .. NumHarqProcess - 1
NoTb == 0

VARIABLES
  direction,
  \* the scheduler
  status,        \* m_[dl|ul]HarqProcessesStatus: 0 free, else the number of transmissions
  timer,         \* m_[dl|ul]HarqProcessesTimer
  dci,           \* m_[dl|ul]HarqProcessesDciInfoMap: redundancy version and symbols
  infoList,      \* m_[dl|ul]HarqInfoList: feedback put off to the next slot
  harqId,        \* the process Update[Dl|Ul]HarqProcessId returned last
  \* the sender's MAC
  packets,       \* m_mi[Dl|Ul]HarqProcessesPacket(s): the block of each process
  \* on the way
  air,           \* transmissions of the last RoundTrip slots
  received,      \* m_[dl|ul]HarqInfoReceived: feedback for the next trigger
  \* history
  tbs,           \* number of blocks so far
  squeezed       \* some feedback was put off or dropped for want of symbols

vars == <<direction, status, timer, dci, infoList, harqId, packets, air, received, tbs, squeezed>>

Init ==
  /\ direction \in Directions
  /\ status = [p \in Processes |-> 0]
  /\ timer = [p \in Processes |-> 0]
  /\ dci = [p \in Processes |-> [rv |-> 0, numSym |-> 0]]
  /\ infoList = <<>>
  /\ harqId = 0
  /\ packets = [p \in Processes |-> NoTb]
  /\ air = [s \in 1 .. RoundTrip |-> <<>>]
  /\ received = <<>>
  /\ tbs = 0
  /\ squeezed = FALSE

------------------------------------------------------------------------------
(* The receiver. *)

\* EndRxData sends the feedback of a downlink block as it looks at the block's
\* packets and again after it has looked at all; of an uplink block once.
Feedback(t, ack) ==
  LET info == [process |-> t.process, rv |-> t.rv, tb |-> t.tb, ack |-> ack]
  IN IF direction = "DL" THEN <<info, info>> ELSE <<info>>

\* The first transmission of the oldest slot is decoded or not.  An ACK that
\* arrives at the eNB empties the buffer of the process at once (downlink).
EndRxData(corrupted) ==
  /\ Head(air) # <<>>
  /\ LET t == Head(Head(air))
     IN /\ received' = received \o Feedback(t, ~corrupted)
        /\ packets' = IF direction = "DL" /\ ~corrupted
                      THEN [packets EXCEPT ![t.process] = NoTb] ELSE packets
  /\ air' = [air EXCEPT ![1] = Tail(@)]
  /\ UNCHANGED <<direction, status, timer, dci, infoList, harqId, tbs, squeezed>>

------------------------------------------------------------------------------
(* The scheduler, once a slot. *)

\* A slip: off by one.
MutExpired(p) == timer[p] > HarqTimeout

Expired(p) == timer[p] = HarqTimeout

\* A slip: the timeout restarts the timer and leaves the process taken.
MutRefreshed == status

\* RefreshHarqProcesses, called first.
Refreshed == [p \in Processes |-> IF Expired(p) THEN 0 ELSE status[p]]
RefreshedTimer == [p \in Processes |-> IF Expired(p) THEN 0 ELSE timer[p] + 1]

\* A slip: the timer of a new block goes on from where the last block left it.
MutRestartedTimer(p) == RefreshedTimer

\* Only a new block starts the timer again, not a retransmission.
RestartedTimer(p) == [RefreshedTimer EXCEPT ![p] = 0]

\* What the walk over the feedback works on: the processes, the symbols left,
\* the feedback put off, the retransmissions of this slot, and whether
\* feedback was dropped because the walk ended early.
Walk(free) ==
  [status |-> Refreshed, dci |-> dci, free |-> free, untxed |-> <<>>, retx |-> <<>>, lost |-> FALSE]

Release(w, p) == [w EXCEPT !.status[p] = 0]

\* A transmission for which the sender has no packet is not on the air.
Sent(transmissions, t) == IF t.tb = NoTb THEN transmissions ELSE Append(transmissions, t)

Retransmit(w, p) ==
  [w EXCEPT !.free = @ - w.dci[p].numSym, !.dci[p].rv = @ + 1, !.status[p] = @ + 1,
            !.retx = Sent(@, [process |-> p, rv |-> w.dci[p].rv + 1, tb |-> packets[p]])]

\* One feedback: none is looked at any more once no symbol is left.
ProcessHarqInfo(w, info) ==
  LET p == info.process
  IN IF w.free = 0 THEN [w EXCEPT !.lost = TRUE]
     ELSE IF info.ack \/ w.status[p] = 0 \/ w.dci[p].rv = MaxRv THEN Release(w, p)
     ELSE IF w.dci[p].numSym <= w.free THEN Retransmit(w, p)
     ELSE [w EXCEPT !.untxed = Append(@, info)]

\* Update[Dl|Ul]HarqProcessId: the first free process, NumHarqProcess if none.
UpdateHarqProcessId(w) ==
  LET available == {p \in Processes : w.status[p] = 0}
  IN IF available = {} THEN NumHarqProcess ELSE CHOOSE p \in available : \A q \in available : p <= q

\* No new data in this slot.
NoNewTb(w) ==
  /\ status' = w.status /\ dci' = w.dci /\ timer' = RefreshedTimer
  /\ air' = Append(Tail(air), w.retx)
  /\ UNCHANGED <<packets, harqId, tbs>>

\* A new block in the first free process.  A UE may leave the grant unused:
\* an RLC entity it counted on has nothing to send after all.
NewTb(w, numSym, used) ==
  LET p == UpdateHarqProcessId(w)
      tb == IF used THEN tbs + 1 ELSE NoTb
  IN /\ tbs < NTbs
     /\ numSym <= w.free
     /\ used \/ direction = "UL"
     /\ tbs' = tbs + 1
     /\ harqId' = p
     /\ IF p \in Processes
        THEN /\ status' = [w.status EXCEPT ![p] = 1]
             /\ dci' = [w.dci EXCEPT ![p] = [rv |-> 0, numSym |-> numSym]]
             /\ timer' = RestartedTimer(p)
             /\ packets' = [packets EXCEPT ![p] = tb]
             /\ air' = Append(Tail(air), Sent(w.retx, [process |-> p, rv |-> 0, tb |-> tb]))
        ELSE /\ status' = w.status /\ dci' = w.dci /\ timer' = RefreshedTimer
             /\ air' = Append(Tail(air), w.retx)
             /\ UNCHANGED packets

\* DoSlotIndication hands over the feedback received; DoSchedTriggerReq and
\* DoSchedConfigIndication follow in the same call.
SchedTrigger(free) ==
  /\ Head(air) = <<>>
  /\ LET w == FoldLeft(ProcessHarqInfo, Walk(free), infoList \o received)
     IN /\ infoList' = w.untxed
        /\ squeezed' = (squeezed \/ w.lost \/ w.untxed # <<>>)
        /\ \/ NoNewTb(w)
           \/ \E numSym \in Sizes, used \in BOOLEAN : NewTb(w, numSym, used)
  /\ received' = <<>>
  /\ UNCHANGED direction

Next ==
  \/ \E corrupted \in BOOLEAN : EndRxData(corrupted)
  \/ \E free \in FreeSymbols : SchedTrigger(free)

Spec == Init /\ [][Next]_vars

\* Slots go on and what is on the air comes to its end: weak fairness of Next,
\* some step of which is always possible.
FairSpec == Spec /\ []<><<Next>>_vars

------------------------------------------------------------------------------

OnTheWay == (UNION {ToSet(air[s]) : s \in DOMAIN air}) \cup ToSet(received) \cup ToSet(infoList)

TypeOK ==
  /\ direction \in Directions
  /\ status \in [Processes -> 0 .. MaxRv + 1]
  /\ timer \in [Processes -> 0 .. HarqTimeout]
  /\ packets \in [Processes -> 0 .. NTbs]
  /\ harqId \in 0 .. NumHarqProcess

\* The scheduler asserts that a new block always finds a free process: a
\* process is used again no later than HarqTimeout + 1 slots after it was
\* taken, whatever was answered, so NumHarqProcess > HarqTimeout suffices.
AlwaysAFreeProcess == harqId \in Processes

\* In the uplink, as long as no feedback had to be put off, everything on the
\* way is about the block its process now holds and its latest transmission:
\* no timeout hands a process on while an answer is outstanding.
FeedbackIsCurrent ==
  direction = "UL" /\ ~squeezed =>
    \A t \in OnTheWay : packets[t.process] = t.tb /\ status[t.process] = t.rv + 1

\* Every block is done with in the end, even if its feedback was dropped or
\* never sent: once no new blocks come, all processes become and stay free.
EveryBlockIsSettled == <>[](\A p \in Processes : status[p] = 0)

------------------------------------------------------------------------------
(* A comment the code does not keep. *)

\* mmwave-spectrum-phy.cc, EndRxData: "send HARQ feedback (if not already done
\* for this TB)".  The feedback of a downlink block is sent twice, so that one
\* NACK takes two of its retransmissions, and what comes back after the
\* process was dropped meets the next block.
FeedbackSentOnce ==
  \A i, j \in DOMAIN received : received[i] = received[j] => i = j

==============================================================================
