-------------------------------- MODULE RlcAm --------------------------------
(***************************************************************************)
(* LteRlcAm (lte/model/lte-rlc-am.cc): one direction of an acknowledged    *)
(* mode bearer.  The sending entity segments and concatenates SDUs into    *)
(* numbered PDUs, keeps each until a STATUS PDU acknowledges it and sends  *)
(* the rest again; the receiving entity puts them in order, reassembles    *)
(* them and reports what is missing.  Between them the MAC gives the       *)
(* opportunities, asked for by buffer status reports, and its HARQ         *)
(* processes lose PDUs and let one overtake another.                       *)
(***************************************************************************)
EXTENDS RlcReassembly

CONSTANTS
  Window,           \* m_windowSize
  Grants,           \* units that fit into a transmission opportunity
  MaxTxBuffer,      \* units that fit into the transmission buffer
  NSdus,            \* bound: SDUs handed to the sending entity
  MaxInFlight,      \* bound: PDUs of one direction on their way (HARQ processes)
  MaxLosses,        \* bound: PDUs lost altogether
  MaxCuts,          \* bound: retransmissions that are cut into segments
  MaxLate,          \* bound: PDUs that are on their way when t-PollRetransmit expires
  BigEnough,        \* possible values of m_txOpportunityForRetxAlwaysBigEnough
  StatusOvertakes   \* whether a STATUS PDU may overtake another

ASSUME RlcAmAssumption ==
  /\ Window \in Nat \ {0} /\ Modulus = 2 * Window
  /\ Grants \subseteq Nat \ {0} /\ Grants # {}
  /\ MaxTxBuffer \in Nat /\ NSdus \in Nat
  /\ MaxInFlight \in Nat /\ MaxLosses \in Nat /\ MaxLate \in Nat /\ MaxCuts \in Nat
  /\ BigEnough \subseteq BOOLEAN /\ StatusOvertakes \in BOOLEAN

VARIABLES
  \* the sending entity
  txon,             \* m_txonBuffer: units not yet sent
  txed,             \* m_txedBuffer: PDUs that wait for an acknowledgement
  retx,             \* m_retxBuffer: PDUs to be sent again
  retxSeg,          \* m_retxSegBuffer: units of such a PDU already sent again
  vtA, vtS,         \* first unacknowledged, next new sequence number
  poll,             \* m_pollSn, m_pollRetransmitTimer, ...JustExpired
  rbsTimer,         \* m_rbsTimer is pending
  report,           \* the MAC has been told that there is something to send
  bigEnough,        \* m_txOpportunityForRetxAlwaysBigEnough
  \* the receiving entity
  rxon,             \* m_rxonBuffer: units received so far and whether all were
  vr,               \* VR(R), VR(X), VR(MS), VR(H)
  reorderingTimer,  \* m_reorderingTimer is pending
  status,           \* STATUS PDU requested, prohibited; the MAC was told of it
  reassembly,       \* state of ReassembleAndDeliver
  \* in between
  dataPdus,         \* PDUs on their way, and whether one overtook them
  statusPdus,       \* STATUS PDUs on their way back
  losses, cuts,     \* PDUs lost and cut so far
  accepted, offered \* history: SDUs taken over and handed in

sender == <<txon, txed, retx, retxSeg, vtA, vtS, poll, rbsTimer, report, bigEnough>>
receiver == <<rxon, vr, reorderingTimer, status, reassembly>>
between == <<dataPdus, statusPdus, losses, cuts>>
vars == <<sender, receiver, between, accepted, offered>>

NoPdu == [units |-> <<>>, complete |-> FALSE]

Init ==
  /\ txon = <<>>
  /\ txed = [sn \in SNs |-> <<>>]
  /\ retx = [sn \in SNs |-> <<>>]
  /\ retxSeg = [sn \in SNs |-> 0]
  /\ vtA = 0 /\ vtS = 0
  /\ poll = [sn |-> 0, timer |-> FALSE, justExpired |-> FALSE]
  /\ rbsTimer = FALSE /\ report = FALSE
  /\ bigEnough \in BigEnough
  /\ rxon = [sn \in SNs |-> NoPdu]
  /\ vr = [r |-> 0, x |-> 0, ms |-> 0, h |-> 0]
  /\ reorderingTimer = FALSE
  /\ status = [requested |-> FALSE, prohibited |-> FALSE, report |-> FALSE]
  /\ reassembly = InitialReassembly
  /\ dataPdus = <<>> /\ statusPdus = <<>> /\ losses = 0 /\ cuts = 0
  /\ accepted = <<>> /\ offered = 0

------------------------------------------------------------------------------
(* The sending entity. *)

RetxPending == \E sn \in SNs : retx[sn] # <<>>

Outstanding == {Plus(vtA, i) : i \in 0 .. Dist(vtS, vtA) - 1}

Stalled == Dist(vtS, vtA) >= Window

\* DoTransmitPdcpPdu: an SDU that does not fit is dropped without a word.
DoTransmitPdcpPdu ==
  /\ offered < NSdus
  /\ offered' = offered + 1
  /\ IF Len(txon) + SduUnits <= MaxTxBuffer
     THEN /\ txon' = txon \o Sdu(offered + 1)
          /\ accepted' = Append(accepted, offered + 1)
     ELSE UNCHANGED <<txon, accepted>>
  /\ report' = (report \/ txon' # <<>> \/ RetxPending)
  /\ rbsTimer' = TRUE
  /\ UNCHANGED <<txed, retx, retxSeg, vtA, vtS, poll, bigEnough, receiver, between>>

Send(pdu) == dataPdus' = Append(dataPdus, pdu)

Pdu(sn, units, offset, isSegment, isLast, polls) ==
  [sn |-> sn, units |-> units, offset |-> offset, segment |-> isSegment,
   last |-> isLast, poll |-> polls, overtaken |-> FALSE]

\* The poll bit, POLL_SN and t-PollRetransmit of a PDU that is sent.
PollWith(polls, nextSn) ==
  poll' = IF polls
          THEN [sn |-> Plus(nextSn, Modulus - 1), timer |-> TRUE, justExpired |-> FALSE]
          ELSE poll

\* A slip: only the expiry of t-PollRetransmit makes a retransmission poll.
MutRetxPolls(sn) == poll.justExpired

\* A retransmission asks for a STATUS PDU if nothing else is left to be sent:
\* the sizes compared are equal only for a whole PDU alone in the buffer.
RetxPolls(sn) ==
  \/ txon = <<>> /\ retxSeg[sn] = 0 /\ \A other \in SNs \ {sn} : retx[other] = <<>>
  \/ Stalled
  \/ poll.justExpired

\* First PDU to be sent again: the rest of it, if that fits, which puts it back
\* among the transmitted ones; otherwise as much as fits, as a segment.
Retransmit(n) ==
  LET sn == Plus(vtA, Min({i \in 0 .. Dist(vtS, vtA) - 1 : retx[Plus(vtA, i)] # <<>>}))
      offset == retxSeg[sn]
      left == SubSeq(retx[sn], offset + 1, Len(retx[sn]))
      fits == Len(left) <= n \/ bigEnough
      units == IF fits THEN left ELSE SubSeq(left, 1, n)
  IN /\ Send(Pdu(sn, units, offset, ~fits \/ offset > 0, fits, RetxPolls(sn)))
     /\ PollWith(RetxPolls(sn), vtS)
     /\ fits \/ cuts < MaxCuts
     /\ cuts' = IF fits THEN cuts ELSE cuts + 1
     /\ IF fits
        THEN /\ txed' = [txed EXCEPT ![sn] = retx[sn]]
             /\ retx' = [retx EXCEPT ![sn] = <<>>]
             /\ retxSeg' = [retxSeg EXCEPT ![sn] = 0]
        ELSE /\ retxSeg' = [retxSeg EXCEPT ![sn] = offset + n]
             /\ UNCHANGED <<txed, retx>>
     /\ UNCHANGED <<txon, vtS>>

\* A new PDU takes units off the transmission buffer; with m_pollPdu = 1 each
\* of them polls.
TransmitNew(n) ==
  LET units == SubSeq(txon, 1, n)
  IN /\ txon' = SubSeq(txon, Len(units) + 1, Len(txon))
     /\ vtS' = Plus(vtS, 1)
     /\ txed' = [txed EXCEPT ![vtS] = units]
     /\ Send(Pdu(vtS, units, 0, FALSE, TRUE, TRUE))
     /\ PollWith(TRUE, vtS')
     /\ UNCHANGED <<retx, retxSeg>>

\* DoNotifyTxOpportunity of the sending entity: PDUs to be sent again before
\* new ones, which the window may hold back.  The MAC subtracts what it granted
\* from what was reported, until nothing is left or it got nothing.
DoNotifyTxOpportunity(n) ==
  /\ report
  /\ Len(dataPdus) < MaxInFlight
  /\ \/ RetxPending /\ Retransmit(Min({n, NSdus * SduUnits}))
     \/ ~RetxPending /\ txon # <<>> /\ ~Stalled /\ TransmitNew(Min({n, Len(txon)})) /\ UNCHANGED cuts
     \/ /\ ~RetxPending /\ (txon = <<>> \/ Stalled)
        /\ UNCHANGED <<txon, txed, retx, retxSeg, vtS, poll, dataPdus, cuts>>
  /\ report' = (dataPdus' # dataPdus /\ (txon' # <<>> \/ \E sn \in SNs : retx'[sn] # <<>>))
  /\ UNCHANGED <<vtA, rbsTimer, bigEnough, receiver, statusPdus, losses, accepted, offered>>

\* A slip: VT(A) is set to the acknowledged sequence number whatever is missing.
MutStatusSkipsNack(pdu) ==
  LET n == Min({Dist(pdu.ackSn, vtA), Dist(vtS, vtA)})
      reported == {Plus(vtA, i) : i \in 0 .. n - 1}
      nacked == reported \cap pdu.nacks
  IN /\ txed' = [sn \in SNs |-> IF sn \in reported THEN <<>> ELSE txed[sn]]
     /\ retx' = [sn \in SNs |->
                   CASE sn \in reported \ nacked -> <<>>
                     [] sn \in nacked /\ txed[sn] # <<>> -> txed[sn]
                     [] OTHER -> retx[sn]]
     /\ vtA' = Plus(vtA, n)
     /\ poll' = [poll EXCEPT !.timer = @ /\ poll.sn \notin reported]
     /\ UNCHANGED retxSeg

\* A STATUS PDU: the loop runs from VT(A) to the acknowledged sequence number
\* or, if that comes first, VT(S).
DoReceiveStatusPdu(pdu) ==
  LET n == Min({Dist(pdu.ackSn, vtA), Dist(vtS, vtA)})
      reported == {Plus(vtA, i) : i \in 0 .. n - 1}
      nacked == reported \cap pdu.nacks
      acked == reported \ nacked
  IN /\ txed' = [sn \in SNs |-> IF sn \in reported THEN <<>> ELSE txed[sn]]
     /\ retx' = [sn \in SNs |->
                   CASE sn \in acked -> <<>>
                     [] sn \in nacked /\ txed[sn] # <<>> -> txed[sn]
                     [] OTHER -> retx[sn]]
     /\ retxSeg' = [sn \in SNs |-> IF sn \in acked /\ retx[sn] # <<>> THEN 0 ELSE retxSeg[sn]]
     /\ vtA' = Plus(vtA, Min({i \in 0 .. n : i = n \/ Plus(vtA, i) \in nacked}))
     /\ poll' = [poll EXCEPT !.timer = @ /\ poll.sn \notin reported]

\* The PDUs that can arrive next: the first on its way, and the one behind it
\* if the first has not been overtaken before.
Arriving(pdus, mayOvertake) ==
  {i \in DOMAIN pdus : i = 1 \/ (i = 2 /\ mayOvertake /\ ~pdus[1].overtaken)}

\* No HARQ process holds a data PDU up for a whole window: the numbers of the
\* two PDUs can be told apart.
DataOvertakes == Len(dataPdus) >= 2 /\ Dist(dataPdus[2].sn, dataPdus[1].sn) # Window

Others(pdus, i) ==
  RemoveAt(IF i = 2 THEN [pdus EXCEPT ![1].overtaken = TRUE] ELSE pdus, i)

DoReceiveControlPdu(i) ==
  /\ i \in Arriving(statusPdus, StatusOvertakes)
  /\ statusPdus' = Others(statusPdus, i)
  /\ DoReceiveStatusPdu(statusPdus[i])
  /\ UNCHANGED <<txon, vtS, rbsTimer, report, bigEnough, receiver, dataPdus, losses, cuts,
                 accepted, offered>>

\* If nothing is left to be sent, or the window is full, all transmitted PDUs
\* are sent again.
ExpirePollRetransmitTimer ==
  /\ poll.timer
  /\ Len(dataPdus) + Len(statusPdus) <= MaxLate
  /\ poll' = [poll EXCEPT !.timer = FALSE, !.justExpired = TRUE]
  /\ LET again == (txon = <<>> /\ ~RetxPending) \/ Dist(vtS, vtA) = Window
         moved == {sn \in Outstanding : again /\ txed[sn] # <<>>}
     IN /\ txed' = [sn \in SNs |-> IF sn \in moved THEN <<>> ELSE txed[sn]]
        /\ retx' = [sn \in SNs |-> IF sn \in moved THEN txed[sn] ELSE retx[sn]]
  /\ report' = (report \/ txon # <<>> \/ \E sn \in SNs : retx'[sn] # <<>>)
  /\ UNCHANGED <<txon, retxSeg, vtA, vtS, rbsTimer, bigEnough, receiver, between,
                 accepted, offered>>

\* A slip: the timer stops when nothing is left to be sent.
MutExpireRbsTimer ==
  /\ rbsTimer
  /\ rbsTimer' = (txon # <<>> \/ RetxPending)
  /\ report' = (report \/ txon # <<>> \/ RetxPending)
  /\ UNCHANGED <<txon, txed, retx, retxSeg, vtA, vtS, poll, bigEnough, receiver, between,
                 accepted, offered>>

\* The buffers are reported for as long as there is anything in them; PDUs that
\* only wait for an acknowledgement keep the timer going but are not reported.
ExpireRbsTimer ==
  /\ rbsTimer
  /\ rbsTimer' = (txon # <<>> \/ RetxPending \/ \E sn \in SNs : txed[sn] # <<>>)
  /\ report' = (report \/ txon # <<>> \/ RetxPending)
  /\ UNCHANGED <<txon, txed, retx, retxSeg, vtA, vtS, poll, bigEnough, receiver, between,
                 accepted, offered>>

------------------------------------------------------------------------------
(* The receiving entity. *)

\* A slip: the upper end of the window counts as inside.
MutInWindow(sn) == Dist(sn, vr.r) <= Window
InWindow(sn) == Dist(sn, vr.r) < Window

\* First sequence number from sn on whose PDU is not completely received.
FirstIncomplete(buffer, sn) ==
  Plus(sn, Min({i \in 0 .. Modulus : i = Modulus \/ ~buffer[Plus(sn, i)].complete}))

\* A slip: a segment is added wherever it belongs.
MutPlaceAnySegment(pdu) ==
  LET entry == rxon[pdu.sn]
  IN CASE entry = NoPdu ->
            [rxon EXCEPT ![pdu.sn] = [units |-> pdu.units, complete |-> pdu.last]]
       [] ~entry.complete /\ pdu.segment ->
            [rxon EXCEPT ![pdu.sn] = [units |-> @.units \o pdu.units, complete |-> pdu.last]]
       [] OTHER -> rxon

\* A whole PDU or a first segment opens an entry; a later segment is added if
\* it is the next one and throws the incomplete entry away if not.
Place(pdu) ==
  LET entry == rxon[pdu.sn]
      segment == [units |-> entry.units \o pdu.units, complete |-> pdu.last]
  IN CASE entry = NoPdu /\ pdu.offset = 0 ->
            [rxon EXCEPT ![pdu.sn] = [units |-> pdu.units, complete |-> ~pdu.segment]]
       [] entry # NoPdu /\ ~entry.complete /\ pdu.segment ->
            [rxon EXCEPT ![pdu.sn] = IF pdu.offset = Len(entry.units) THEN segment ELSE NoPdu]
       [] OTHER -> rxon

\* In acknowledged mode a PDU that does not begin where the last one ended is
\* an error as well.
ReassembleAndDeliver(rs, sn, units) ==
  IF rs.keepS0 = <<>> /\ sn = rs.expected /\ ~Begins(units[1])
  THEN [rs EXCEPT !.expected = Plus(sn, 1), !.failed = TRUE]
  ELSE Reassemble(rs, sn, units)

\* t-Reordering is stopped when the gap it waits for has closed and started
\* when there is one.
Reordering(r, ms, h) ==
  LET running == reorderingTimer /\ vr.x # r
                 /\ (Dist(vr.x, r) < Window \/ vr.x = Plus(r, Window))
      starts == ~running /\ h # r
  IN /\ reorderingTimer' = (running \/ starts)
     /\ vr' = [r |-> r, x |-> IF starts THEN h ELSE vr.x, ms |-> ms, h |-> h]

\* The part of DoReceivePdu behind the window check.
Receive(pdu) ==
  LET placed == Place(pdu)
      h == IF Dist(pdu.sn, vr.r) >= Dist(vr.h, vr.r) THEN Plus(pdu.sn, 1) ELSE vr.h
      ms == FirstIncomplete(placed, vr.ms)
      r == IF pdu.sn = vr.r THEN FirstIncomplete(placed, vr.r) ELSE vr.r
      done == [i \in 1 .. Dist(r, vr.r) |-> Plus(vr.r, i - 1)]
  IN /\ rxon' = [sn \in SNs |-> IF sn \in ToSet(done) THEN NoPdu ELSE placed[sn]]
     /\ reassembly' =
          FoldLeft(LAMBDA rs, sn : ReassembleAndDeliver(rs, sn, placed[sn].units),
                   reassembly, done)
     /\ Reordering(r, ms, h)

\* DoReceivePdu of a data PDU: the request for a STATUS PDU counts even if the
\* PDU is thrown away.
DoReceiveDataPdu(i) ==
  /\ i \in Arriving(dataPdus, DataOvertakes)
  /\ dataPdus' = Others(dataPdus, i)
  /\ status' = IF dataPdus[i].poll
               THEN [status EXCEPT !.requested = TRUE, !.report = @ \/ ~status.prohibited]
               ELSE status
  /\ IF InWindow(dataPdus[i].sn)
     THEN Receive(dataPdus[i])
     ELSE UNCHANGED <<rxon, vr, reorderingTimer, reassembly>>
  /\ UNCHANGED <<sender, statusPdus, losses, cuts, accepted, offered>>

\* A slip: gaps not yet given up are acknowledged with the rest.
MutStatusPdu(n) ==
  [nacks |-> {sn \in SNs : Dist(sn, vr.r) < Dist(vr.ms, vr.r) /\ ~rxon[sn].complete},
   ackSn |-> vr.h, overtaken |-> FALSE]

\* The sequence numbers from VR(R) to VR(MS) that are missing, as many as the
\* grant has room for.
StatusPdu(n) ==
  LET missing == {i \in 0 .. Dist(vr.ms, vr.r) - 1 : ~rxon[Plus(vr.r, i)].complete}
      named == {i \in missing : Cardinality({j \in missing : j < i}) < n}
      end == IF Cardinality(named) = n THEN Max(named) + 1 ELSE Dist(vr.ms, vr.r)
      first == Min({i \in end .. Dist(vr.ms, vr.r) :
                      i = Dist(vr.ms, vr.r) \/ ~rxon[Plus(vr.r, i)].complete})
  IN [nacks |-> {Plus(vr.r, i) : i \in named}, ackSn |-> Plus(vr.r, first),
      overtaken |-> FALSE]

\* DoNotifyTxOpportunity of the receiving entity, which has no data of its own.
DoNotifyStatusOpportunity(n) ==
  /\ status.report
  /\ Len(statusPdus) < MaxInFlight
  /\ IF status.requested /\ ~status.prohibited
     THEN /\ statusPdus' = Append(statusPdus, StatusPdu(n))
          /\ status' = [requested |-> FALSE, prohibited |-> TRUE, report |-> FALSE]
     ELSE /\ status' = [status EXCEPT !.report = FALSE]
          /\ UNCHANGED statusPdus
  /\ UNCHANGED <<sender, rxon, vr, reorderingTimer, reassembly, dataPdus, losses, cuts,
                 accepted, offered>>

\* Nothing is sent, nor reported, when the prohibition ends.
ExpireStatusProhibitTimer ==
  /\ status.prohibited
  /\ status' = [status EXCEPT !.prohibited = FALSE]
  /\ UNCHANGED <<sender, rxon, vr, reorderingTimer, reassembly, between, accepted, offered>>

\* The gap is given up: it will be named in the next STATUS PDU, for which the
\* MAC is not asked.
ExpireReorderingTimer ==
  /\ reorderingTimer
  /\ LET ms == FirstIncomplete(rxon, vr.x)
         again == Dist(vr.h, vr.r) > Dist(ms, vr.r)
     IN /\ reorderingTimer' = again
        /\ vr' = [vr EXCEPT !.ms = ms, !.x = IF again THEN vr.h ELSE @]
  /\ status' = [status EXCEPT !.requested = TRUE]
  /\ UNCHANGED <<sender, rxon, reassembly, between, accepted, offered>>

------------------------------------------------------------------------------
(* The MAC gives a PDU up after its last HARQ transmission. *)

LoseData ==
  /\ dataPdus # <<>> /\ losses < MaxLosses
  /\ dataPdus' = Tail(dataPdus)
  /\ losses' = losses + 1
  /\ UNCHANGED <<sender, receiver, statusPdus, cuts, accepted, offered>>

LoseStatus ==
  /\ statusPdus # <<>> /\ losses < MaxLosses
  /\ statusPdus' = Tail(statusPdus)
  /\ losses' = losses + 1
  /\ UNCHANGED <<sender, receiver, dataPdus, cuts, accepted, offered>>

TxOpportunity == \E n \in Grants : DoNotifyTxOpportunity(n)
StatusOpportunity == \E n \in Grants : DoNotifyStatusOpportunity(n)
ReceiveDataPdu == \E i \in 1 .. 2 : DoReceiveDataPdu(i)
ReceiveControlPdu == \E i \in 1 .. 2 : DoReceiveControlPdu(i)

Next ==
  \/ DoTransmitPdcpPdu
  \/ TxOpportunity
  \/ ReceiveControlPdu
  \/ ExpirePollRetransmitTimer
  \/ ExpireRbsTimer
  \/ ReceiveDataPdu
  \/ StatusOpportunity
  \/ ExpireStatusProhibitTimer
  \/ ExpireReorderingTimer
  \/ LoseData
  \/ LoseStatus

Spec == Init /\ [][Next]_vars

\* Weak fairness of each action, with the condition that enables it spelled
\* out: the MAC schedules what was reported, a PDU that is not lost arrives and
\* timers expire.
Fairness ==
  /\ []<>~(report /\ Len(dataPdus) < MaxInFlight) \/ []<><<TxOpportunity>>_vars
  /\ []<>~(status.report /\ Len(statusPdus) < MaxInFlight) \/ []<><<StatusOpportunity>>_vars
  /\ []<>(dataPdus = <<>>) \/ []<><<ReceiveDataPdu>>_vars
  /\ []<>(statusPdus = <<>>) \/ []<><<ReceiveControlPdu>>_vars
  /\ []<>~(poll.timer /\ Len(dataPdus) + Len(statusPdus) <= MaxLate)
       \/ []<><<ExpirePollRetransmitTimer>>_vars
  /\ []<>~status.prohibited \/ []<><<ExpireStatusProhibitTimer>>_vars
  /\ []<>~reorderingTimer \/ []<><<ExpireReorderingTimer>>_vars
  /\ WF_vars(ExpireRbsTimer)

FairSpec == Spec /\ Fairness

------------------------------------------------------------------------------
(* What the bearer promises. *)

TypeOK ==
  LET Unit == (1 .. NSdus) \X (1 .. SduUnits) IN
  /\ txon \in Seq(Unit) /\ Len(txon) <= MaxTxBuffer
  /\ txed \in [SNs -> Seq(Unit)] /\ retx \in [SNs -> Seq(Unit)]
  /\ retxSeg \in [SNs -> Nat]
  /\ vtA \in SNs /\ vtS \in SNs
  /\ poll \in [sn : SNs, timer : BOOLEAN, justExpired : BOOLEAN]
  /\ rbsTimer \in BOOLEAN /\ report \in BOOLEAN /\ bigEnough \in BigEnough
  /\ rxon \in [SNs -> [units : Seq(Unit), complete : BOOLEAN]]
  /\ vr \in [r : SNs, x : SNs, ms : SNs, h : SNs]
  /\ reorderingTimer \in BOOLEAN
  /\ status \in [requested : BOOLEAN, prohibited : BOOLEAN, report : BOOLEAN]
  /\ losses \in 0 .. MaxLosses /\ cuts \in 0 .. MaxCuts /\ offered \in 0 .. NSdus /\ accepted \in Seq(1 .. NSdus)

\* The SDUs handed up; 0 stands for a packet that is not an SDU.
HandedUp ==
  [i \in DOMAIN reassembly.delivered |->
     LET packet == reassembly.delivered[i]
     IN IF packet = Sdu(packet[1][1]) THEN packet[1][1] ELSE 0]

Channel == INSTANCE RlcChannel WITH Sdus <- 1 .. NSdus, delivered <- HandedUp

\* Whatever is lost, overtaken, sent twice or cut into segments on the way, the
\* receiving entity hands up the SDUs the sending one took over, whole, in
\* their order and once each.
ImplementsRlcChannel == Channel!Init /\ [][Channel!Next]_<<accepted, HandedUp>>

HeldBySender ==
  ToSet(txon) \cup UNION {ToSet(txed[sn]) \cup ToSet(retx[sn]) : sn \in SNs}
HeldByReceiver ==
  (UNION {ToSet(packet) : packet \in ToSet(reassembly.delivered)})
    \cup ToSet(reassembly.keepS0)
    \cup UNION {ToSet(rxon[sn].units) : sn \in {sn \in SNs : rxon[sn].complete}}

\* The sending entity lets go of a unit only when its peer has it: no STATUS
\* PDU, however late, acknowledges what was not received.
AckedIsReceived ==
  \A s \in ToSet(accepted) : ToSet(Sdu(s)) \subseteq HeldBySender \cup HeldByReceiver

\* A PDU waits in one buffer at most, none outside the window waits, and the
\* first unacknowledged one is there: DoReportBufferStatus reads it without
\* asking and DoNotifyTxOpportunity asserts that it finds one to send again.
FirstUnackedIsKept ==
  /\ \A sn \in SNs : txed[sn] = <<>> \/ retx[sn] = <<>>
  /\ \A sn \in SNs \ Outstanding : txed[sn] = <<>> /\ retx[sn] = <<>> /\ retxSeg[sn] = 0
  /\ vtA # vtS => txed[vtA] # <<>> \/ retx[vtA] # <<>>

\* "INTERNAL ERROR: Transition not possible" is never met: the PDUs that come
\* out of the reception buffer fit together.
TransitionPossible == ~reassembly.failed

\* Whenever nothing can be sent, the poll timer watches over what is not yet
\* acknowledged, or it has expired, the window is open and the next PDU polls again.
OutstandingIsWatched ==
  bigEnough /\ vtA # vtS /\ (txon = <<>> \/ Stalled) /\ ~RetxPending =>
    poll.timer \/ (poll.justExpired /\ ~Stalled)

\* There may be no next PDU: the timer expired while something was to be sent
\* again, so that nothing was moved, and then a STATUS PDU acknowledged it.  With
\* PDUs not acknowledged the bearer waits for the layer above to hand something in.
WaitsForSdu ==
  vtA # vtS /\ txon = <<>> /\ ~Stalled /\ ~RetxPending /\ ~poll.timer

\* With a window of four PDUs that happens (lte-rlc-am.cc:2940).
NeverWaitsForSdu == bigEnough => ~WaitsForSdu

\* Every SDU taken over is handed up in the end, if retransmissions are not cut
\* into segments and the bearer is not left waiting for the layer above.
AcceptedIsDelivered ==
  \A n \in 1 .. NSdus :
    bigEnough /\ Len(accepted) >= n ~> Len(reassembly.delivered) >= n \/ WaitsForSdu

------------------------------------------------------------------------------
(* Documented behaviour the code does not keep. *)

\* lte-rlc-am.cc:1981 says of a PDU in the window that is not received yet that
\* it is placed in the reception buffer.  A whole PDU is thrown away if
\* segments of it came before.
WholePduIsPlaced ==
  [][\A i \in DOMAIN dataPdus :
       LET pdu == dataPdus[i] IN
       DoReceiveDataPdu(i) /\ ~pdu.segment /\ InWindow(pdu.sn) =>
         rxon'[pdu.sn].complete \/ ToSet(pdu.units) \subseteq HeldByReceiver']_vars

==============================================================================
