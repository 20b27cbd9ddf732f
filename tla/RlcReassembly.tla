---------------------------- MODULE RlcReassembly ----------------------------
(***************************************************************************)
(* Sequence numbers, segmentation and reassembly, which LteRlcUm and       *)
(* LteRlcAm have in common.                                                *)
(*                                                                         *)
(* An SDU is its SduUnits units <<sdu, k>>, a unit being the smallest      *)
(* piece the MAC makes the RLC cut off.  The status tag of a piece and the *)
(* framing info of a PDU say whether its first unit begins and its last    *)
(* unit ends an SDU; the length indicators are where the SDUs end.         *)
(***************************************************************************)
EXTENDS Naturals, Sequences, FiniteSetsExt, SequencesExt

CONSTANTS
  SduUnits,         \* units of an SDU
  Modulus           \* number of sequence numbers (1024)

ASSUME RlcAssumption ==
  /\ SduUnits \in Nat \ {0}
  /\ Modulus \in Nat \ {0}

SNs == 0 .. Modulus - 1

\* SequenceNumber10: sums are taken modulo Modulus, and two numbers compare as
\* their distances from the modulus base they carry.
Plus(sn, n) == (sn + n) % Modulus
Dist(sn, base) == (sn + Modulus - base) % Modulus

Sdu(s) == [k \in 1 .. SduUnits |-> <<s, k>>]
Begins(unit) == unit[2] = 1
Ends(unit) == unit[2] = SduUnits

\* The pieces a stream of units is cut into, and the piece it leaves unfinished.
Cut(units) ==
  FoldLeft(LAMBDA acc, unit :
             IF Ends(unit)
             THEN [whole |-> Append(acc.whole, Append(acc.rest, unit)), rest |-> <<>>]
             ELSE [acc EXCEPT !.rest = Append(@, unit)],
           [whole |-> <<>>, rest |-> <<>>], units)

\* The units behind the piece the data field begins with.
WithoutHead(units) ==
  LET ends == {i \in DOMAIN units : Ends(units[i])}
  IN IF ends = {} THEN <<>> ELSE SubSeq(units, Min(ends) + 1, Len(units))

\* State of the reassembly: m_expectedSeqNumber, m_keepS0 (the state is
\* WAITING_SI_SF exactly when it is not empty), what was delivered and whether
\* "INTERNAL ERROR: Transition not possible" was met.
InitialReassembly ==
  [expected |-> 0, keepS0 |-> <<>>, delivered |-> <<>>, failed |-> FALSE]

\* A slip: the expected sequence number is not looked at.
MutReassembleJoins(rs, sn, units) ==
  LET cut == Cut(IF Begins(units[1]) THEN units ELSE rs.keepS0 \o units)
  IN [rs EXCEPT !.expected = Plus(sn, 1), !.keepS0 = cut.rest,
                !.delivered = @ \o cut.whole]

\* The PDU sn joins what was kept only if it is the next one; the beginning of
\* a piece whose SDU began in a lost PDU is dropped, and so is what was kept
\* when its SDU ends in one.
Reassemble(rs, sn, units) ==
  LET lost == sn # rs.expected
      joined == rs.keepS0 # <<>> /\ ~lost /\ ~Begins(units[1])
      impossible == rs.keepS0 # <<>> /\ ~lost /\ Begins(units[1])
      cut == Cut(CASE joined -> rs.keepS0 \o units
                   [] Begins(units[1]) -> units
                   [] OTHER -> WithoutHead(units))
  IN IF impossible
     THEN [rs EXCEPT !.expected = Plus(sn, 1), !.failed = TRUE]
     ELSE [rs EXCEPT !.expected = Plus(sn, 1), !.keepS0 = cut.rest,
                     !.delivered = @ \o cut.whole]

==============================================================================
