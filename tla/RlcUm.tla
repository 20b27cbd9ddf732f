-------------------------------- MODULE RlcUm --------------------------------
(***************************************************************************)
(* LteRlcUm (lte/model/lte-rlc-um.cc): one direction of an unacknowledged  *)
(* mode bearer.  PDUs are numbered, may be lost and overtake one another;  *)
(* the receiving entity holds them back for t-Reordering at most, delivers *)
(* in order what it can reassemble and gives the rest up.                  *)
(***************************************************************************)
EXTENDS RlcReassembly

CONSTANTS
  Window,           \* m_windowSize
  Grants,           \* units that fit into a transmission opportunity; 0 is too few bytes
  MaxTxBuffer,      \* units that fit into the transmission buffer
  NSdus,            \* bound: SDUs handed to the sending entity
  MaxInFlight       \* bound: PDUs on their way (HARQ processes)

ASSUME RlcUmAssumption ==
  /\ Window \in Nat \ {0} /\ Modulus = 2 * Window
  /\ Grants \subseteq Nat /\ Grants \ {0} # {}
  /\ MaxTxBuffer \in Nat /\ NSdus \in Nat /\ MaxInFlight \in Nat

VARIABLES
  \* the sending entity
  txon,             \* m_txBuffer: units not yet sent
  sequenceNumber,   \* m_sequenceNumber
  rbsTimer,         \* m_rbsTimer is pending
  report,           \* the MAC has been told that there is something to send
  \* the receiving entity
  rxBuffer,         \* m_rxBuffer: units of the PDUs held back
  vr,               \* VR(UR), VR(UX), VR(UH)
  reorderingTimer,  \* m_reorderingTimer is pending
  reassembly,       \* state of ReassembleAndDeliver
  \* in between
  dataPdus,         \* PDUs on their way, and whether one overtook them
  accepted, offered,\* history: SDUs taken over and handed in
  faultless         \* history: no PDU was lost and no gap given up

sender == <<txon, sequenceNumber, rbsTimer, report>>
receiver == <<rxBuffer, vr, reorderingTimer, reassembly>>
vars == <<sender, receiver, dataPdus, accepted, offered, faultless>>

Init ==
  /\ txon = <<>> /\ sequenceNumber = 0 /\ rbsTimer = FALSE /\ report = FALSE
  /\ rxBuffer = [sn \in SNs |-> <<>>]
  /\ vr = [ur |-> 0, ux |-> 0, uh |-> 0]
  /\ reorderingTimer = FALSE
  /\ reassembly = InitialReassembly
  /\ dataPdus = <<>>
  /\ accepted = <<>> /\ offered = 0 /\ faultless = TRUE

------------------------------------------------------------------------------
(* The sending entity. *)

\* DoTransmitPdcpPdu: the buffer is reported and the timer that would report it
\* again is stopped.
DoTransmitPdcpPdu ==
  /\ offered < NSdus
  /\ offered' = offered + 1
  /\ IF Len(txon) + SduUnits <= MaxTxBuffer
     THEN /\ txon' = txon \o Sdu(offered + 1)
          /\ accepted' = Append(accepted, offered + 1)
     ELSE UNCHANGED <<txon, accepted>>
  /\ report' = (report \/ txon' # <<>>)
  /\ rbsTimer' = FALSE
  /\ UNCHANGED <<sequenceNumber, receiver, dataPdus, faultless>>

\* A slip: the timer is left stopped when something remains.
MutSendPdu(n) ==
  LET units == SubSeq(txon, 1, n)
  IN /\ txon' = SubSeq(txon, Len(units) + 1, Len(txon))
     /\ sequenceNumber' = Plus(sequenceNumber, 1)
     /\ dataPdus' = Append(dataPdus, [sn |-> sequenceNumber, units |-> units, overtaken |-> FALSE])
     /\ report' = FALSE
     /\ UNCHANGED rbsTimer

\* A PDU takes units off the buffer; the MAC takes what it reported as sent,
\* and the timer will report what remains.
SendPdu(n) ==
  LET units == SubSeq(txon, 1, n)
  IN /\ txon' = SubSeq(txon, Len(units) + 1, Len(txon))
     /\ sequenceNumber' = Plus(sequenceNumber, 1)
     /\ dataPdus' = Append(dataPdus, [sn |-> sequenceNumber, units |-> units, overtaken |-> FALSE])
     /\ report' = FALSE
     /\ rbsTimer' = (rbsTimer \/ txon' # <<>>)

\* DoNotifyTxOpportunity: with too few bytes nothing happens, and what the MAC
\* was told still counts.
DoNotifyTxOpportunity(n) ==
  /\ report
  /\ Len(dataPdus) < MaxInFlight
  /\ \/ n > 0 /\ txon # <<>> /\ SendPdu(Min({n, Len(txon)}))
     \/ n > 0 /\ txon = <<>> /\ report' = FALSE
        /\ UNCHANGED <<txon, sequenceNumber, rbsTimer, dataPdus>>
     \/ n = 0 /\ UNCHANGED <<sender, dataPdus>>
  /\ UNCHANGED <<receiver, accepted, offered, faultless>>

ExpireRbsTimer ==
  /\ rbsTimer
  /\ rbsTimer' = (txon # <<>>)
  /\ report' = (report \/ txon # <<>>)
  /\ UNCHANGED <<txon, sequenceNumber, receiver, dataPdus, accepted, offered, faultless>>

------------------------------------------------------------------------------
(* The receiving entity. *)

\* The modulus base of all comparisons, VR(UH) - UM_Window_Size, and
\* IsInsideReorderingWindow.
Base(uh) == Plus(uh, Modulus - Window)
Inside(sn, uh) == Dist(sn, Base(uh)) < Window

Held(buffer) == {sn \in SNs : buffer[sn] # <<>>}

\* ReassembleAndDeliver of the PDUs with these numbers that are there, in this
\* order; they are taken out of the buffer.
Deliver(rx, sns) ==
  [buffer |-> [sn \in SNs |-> IF sn \in ToSet(sns) THEN <<>> ELSE rx.buffer[sn]],
   reassembly |-> FoldLeft(LAMBDA rs, sn : IF rx.buffer[sn] = <<>> THEN rs
                                           ELSE Reassemble(rs, sn, rx.buffer[sn]),
                           rx.reassembly, sns)]

\* ReassembleOutsideWindow: the map is walked through in the order of its keys,
\* up to the first PDU inside the window.
ReassembleOutsideWindow(rx, uh) ==
  LET first == Min({sn \in Held(rx.buffer) : Inside(sn, uh)} \cup {Modulus})
  IN Deliver(rx, [i \in 1 .. first |-> i - 1])

\* ReassembleSnInterval: the numbers from low up to high.
ReassembleSnInterval(rx, low, high, uh) ==
  LET n == IF Dist(low, Base(uh)) < Dist(high, Base(uh)) THEN Dist(high, low) ELSE 0
  IN Deliver(rx, [i \in 1 .. n |-> Plus(low, i - 1)])

\* A slip: everything behind VR(UH) counts as received.
MutIsDiscardedBehind(sn) == Inside(sn, vr.uh)

\* Received before, or given up.
IsDiscarded(sn) ==
  LET d(n) == Dist(n, Base(vr.uh))
  IN \/ d(vr.ur) < d(sn) /\ d(sn) < Window /\ rxBuffer[sn] # <<>>
     \/ d(sn) < d(vr.ur)

\* New VR(UR): the first PDU from ur on that is missing.  The number it is
\* looked for with does not wrap.
FirstMissing(buffer, ur) ==
  IF buffer[ur] = <<>> THEN ur
  ELSE Min({n \in ur + 1 .. Modulus : n = Modulus \/ buffer[n] = <<>>}) % Modulus

\* A slip: a running timer is restarted for the gaps behind a newer PDU.
MutReordering(ur, uh) ==
  /\ reorderingTimer' = (reorderingTimer /\ Inside(ur, uh))
  /\ vr' = [ur |-> ur, ux |-> uh, uh |-> uh]

\* t-Reordering is stopped when the gap it waits for has closed or fallen out
\* of the window, and started when there is one.
Reordering(ur, uh) ==
  LET d(n) == Dist(n, Base(uh))
      running == reorderingTimer /\ d(vr.ux) > d(ur) /\ (Inside(vr.ux, uh) \/ vr.ux = uh)
      starts == ~running /\ d(uh) > d(ur)
  IN /\ reorderingTimer' = (running \/ starts)
     /\ vr' = [ur |-> ur, ux |-> IF starts THEN uh ELSE vr.ux, uh |-> uh]

\* The part of DoReceivePdu behind the check: the window moves up to a PDU from
\* beyond it, and what is in sequence is delivered.
Place(pdu) ==
  LET beyond == ~Inside(pdu.sn, vr.uh)
      uh == IF beyond THEN Plus(pdu.sn, 1) ELSE vr.uh
      placed == [buffer |-> [rxBuffer EXCEPT ![pdu.sn] = pdu.units], reassembly |-> reassembly]
      moved == IF beyond THEN ReassembleOutsideWindow(placed, uh) ELSE placed
      low == IF beyond /\ ~Inside(vr.ur, uh) THEN Base(uh) ELSE vr.ur
      high == FirstMissing(moved.buffer, low)
      done == ReassembleSnInterval(moved, low, high, uh)
  IN /\ rxBuffer' = done.buffer
     /\ reassembly' = done.reassembly
     /\ Reordering(high, uh)

\* The PDUs that can arrive next: the first on its way, and the one behind it
\* if the first has not been overtaken before.
Arriving == {i \in DOMAIN dataPdus : i = 1 \/ (i = 2 /\ ~dataPdus[1].overtaken)}
Others(i) ==
  RemoveAt(IF i = 2 THEN [dataPdus EXCEPT ![1].overtaken = TRUE] ELSE dataPdus, i)

DoReceivePdu(i) ==
  /\ i \in Arriving
  /\ dataPdus' = Others(i)
  /\ IF IsDiscarded(dataPdus[i].sn) THEN UNCHANGED receiver ELSE Place(dataPdus[i])
  /\ UNCHANGED <<sender, accepted, offered, faultless>>

\* A slip: the timer is not started again for the next gap.
MutExpireReorderingTimer ==
  /\ reorderingTimer
  /\ LET ur == Plus(vr.ux, Min({i \in 0 .. Modulus : i = Modulus \/ rxBuffer[Plus(vr.ux, i)] = <<>>}))
         done == ReassembleSnInterval([buffer |-> rxBuffer, reassembly |-> reassembly],
                                      vr.ur, ur, vr.uh)
     IN /\ rxBuffer' = done.buffer
        /\ reassembly' = done.reassembly
        /\ vr' = [vr EXCEPT !.ur = ur]
  /\ reorderingTimer' = FALSE
  /\ faultless' = FALSE
  /\ UNCHANGED <<sender, dataPdus, accepted, offered>>

\* VR(UR) goes beyond the gap, what was behind it is delivered.
ExpireReorderingTimer ==
  /\ reorderingTimer
  /\ LET ur == Plus(vr.ux, Min({i \in 0 .. Modulus : i = Modulus \/ rxBuffer[Plus(vr.ux, i)] = <<>>}))
         done == ReassembleSnInterval([buffer |-> rxBuffer, reassembly |-> reassembly],
                                      vr.ur, ur, vr.uh)
         again == Dist(vr.uh, Base(vr.uh)) > Dist(ur, Base(vr.uh))
     IN /\ rxBuffer' = done.buffer
        /\ reassembly' = done.reassembly
        /\ reorderingTimer' = again
        /\ vr' = [vr EXCEPT !.ur = ur, !.ux = IF again THEN vr.uh ELSE @]
  /\ faultless' = FALSE
  /\ UNCHANGED <<sender, dataPdus, accepted, offered>>

\* The MAC gives a PDU up after its last HARQ transmission.
LosePdu ==
  /\ dataPdus # <<>>
  /\ dataPdus' = Tail(dataPdus)
  /\ faultless' = FALSE
  /\ UNCHANGED <<sender, receiver, accepted, offered>>

TxOpportunity == \E n \in Grants : DoNotifyTxOpportunity(n)
UsefulOpportunity == \E n \in Grants \ {0} : DoNotifyTxOpportunity(n)
ReceivePdu == \E i \in 1 .. 2 : DoReceivePdu(i)

Next ==
  \/ DoTransmitPdcpPdu
  \/ TxOpportunity
  \/ ExpireRbsTimer
  \/ ReceivePdu
  \/ ExpireReorderingTimer
  \/ LosePdu

Spec == Init /\ [][Next]_vars

\* The MAC gives an opportunity worth it to what was reported, PDUs arrive or
\* are lost, timers expire: weak fairness, with the condition that enables each
\* action spelled out.
FairSpec ==
  /\ Spec
  /\ []<>~(report /\ Len(dataPdus) < MaxInFlight) \/ []<><<UsefulOpportunity>>_vars
  /\ []<>(dataPdus = <<>>) \/ []<><<ReceivePdu>>_vars
  /\ []<>~reorderingTimer \/ []<><<ExpireReorderingTimer>>_vars
  /\ WF_vars(ExpireRbsTimer)

------------------------------------------------------------------------------

TypeOK ==
  LET Unit == (1 .. NSdus) \X (1 .. SduUnits) IN
  /\ txon \in Seq(Unit) /\ Len(txon) <= MaxTxBuffer
  /\ sequenceNumber \in SNs /\ rbsTimer \in BOOLEAN /\ report \in BOOLEAN
  /\ rxBuffer \in [SNs -> Seq(Unit)] /\ vr \in [ur : SNs, ux : SNs, uh : SNs]
  /\ reorderingTimer \in BOOLEAN /\ faultless \in BOOLEAN
  /\ accepted \in Seq(1 .. NSdus) /\ offered \in 0 .. NSdus

\* Whatever is lost or overtakes, the packets handed up are SDUs, each whole,
\* in the order they were handed in and never twice.
DeliveredInOrder ==
  LET up == reassembly.delivered IN
  /\ \A i \in DOMAIN up : up[i] = Sdu(up[i][1][1])
  /\ \A i, j \in DOMAIN up : i < j => up[i][1][1] < up[j][1][1]
  /\ ~reassembly.failed

\* As long as PDUs are only overtaken, and each in time, no SDU taken over is
\* missing at the end.
ReorderingLosesNothing ==
  faultless /\ dataPdus = <<>> /\ txon = <<>> =>
    Len(reassembly.delivered) = Len(accepted)

\* A PDU that is held back is inside the window and behind a gap t-Reordering
\* runs for: it is never forgotten in the buffer.
HeldBackIsWatched ==
  LET d(n) == Dist(n, Base(vr.uh)) IN
  /\ Held(rxBuffer) # {} => reorderingTimer
  /\ reorderingTimer => d(vr.ur) < d(vr.ux) /\ d(vr.ux) <= Window
  /\ \A sn \in Held(rxBuffer) : d(vr.ur) < d(sn) /\ d(sn) < Window

\* lte-rlc-um.cc:518: SDUs are reassembled from any PDU that falls outside the
\* reordering window, so that none stays in the buffer.
NothingOutsideWindow == \A sn \in Held(rxBuffer) : Inside(sn, vr.uh)

\* What is in the transmission buffer is sent in the end, even if the MAC takes
\* a part of it for the whole.
EverythingIsSent == txon # <<>> ~> txon = <<>>

\* What is held back is delivered or given up in the end.
NothingIsHeldBackForEver == Held(rxBuffer) # {} ~> Held(rxBuffer) = {}

==============================================================================
