------------------------------ MODULE RlcUmProofs ------------------------------
(***************************************************************************)
(* Proofs about the unacknowledged mode, for any window, size of SDUs,     *)
(* transmission opportunities, losses and order of arrival.                *)
(***************************************************************************)
EXTENDS RlcUm, CommonLemmas

Units == (1 .. NSdus) \X (1 .. SduUnits)
Pdus == [sn : SNs, units : Seq(Units), overtaken : BOOLEAN]

------------------------------------------------------------------------------
(* Sequence numbers. *)

LEMMA Modulo ==
  ASSUME NEW a \in Nat, NEW m \in Nat, m > 0
  PROVE  /\ a % m \in 0 .. m - 1
         /\ a < m => a % m = a
         /\ m <= a /\ a < m + m => a % m = a - m
BY Z3

LEMMA UmConstants ==
  /\ Window \in Nat /\ Window > 0 /\ Modulus \in Nat /\ Modulus = Window + Window
  /\ SduUnits \in Nat /\ SduUnits > 0 /\ NSdus \in Nat
  /\ Grants \subseteq Nat /\ MaxTxBuffer \in Nat
  /\ 0 \in SNs /\ \A n : n \in SNs <=> n \in Nat /\ n < Modulus
BY RlcAssumption, RlcUmAssumption DEF SNs

\* The base of all comparisons is a window below VR(UH); it wraps.
LEMMA Distances ==
  ASSUME NEW n \in SNs, NEW uh \in SNs
  PROVE  /\ Base(uh) \in SNs
         /\ uh < Window => Base(uh) = uh + Window
         /\ Window <= uh => Base(uh) = uh - Window
         /\ n + Window < uh => Dist(n, Base(uh)) = n + Window - uh + Modulus
         /\ uh <= n + Window /\ n < uh + Window => Dist(n, Base(uh)) = n + Window - uh
         /\ uh + Window <= n => Dist(n, Base(uh)) = n - uh - Window
<1>1. n \in Nat /\ n < Modulus /\ uh \in Nat /\ uh < Modulus
  BY UmConstants
<1> DEFINE b == Base(uh)
<1>2. /\ b \in Nat /\ b < Modulus
      /\ uh < Window => b = uh + Window
      /\ Window <= uh => b = uh - Window
  <2> DEFINE x == uh + (Modulus - Window)
  <2>1. x \in Nat /\ x = uh + Window /\ b = x % Modulus
    BY <1>1, UmConstants DEF Base, Plus
  <2> HIDE DEF x, b
  <2>2. /\ x % Modulus \in 0 .. Modulus - 1
        /\ x < Modulus => x % Modulus = x
        /\ Modulus <= x /\ x < Modulus + Modulus => x % Modulus = x - Modulus
    BY <2>1, UmConstants, Modulo
  <2> QED
    BY <1>1, <2>1, <2>2, UmConstants
<1> HIDE DEF b
<1>3. /\ n + Window < uh => Dist(n, b) = n + Window - uh + Modulus
      /\ uh <= n + Window /\ n < uh + Window => Dist(n, b) = n + Window - uh
      /\ uh + Window <= n => Dist(n, b) = n - uh - Window
  <2> DEFINE x == n + Modulus - b
  <2>1. x \in Nat /\ Dist(n, b) = x % Modulus /\ x < Modulus + Modulus + Modulus
    BY <1>1, <1>2, UmConstants DEF Dist
  <2>2. x = n + Modulus - b
    OBVIOUS
  <2> HIDE DEF x
  <2>3. /\ x < Modulus => x % Modulus = x
        /\ Modulus <= x /\ x < Modulus + Modulus => x % Modulus = x - Modulus
    BY <2>1, UmConstants, Modulo
  <2> QED
    BY <1>1, <1>2, <2>1, <2>2, <2>3, UmConstants
<1> QED
  BY <1>2, <1>3, UmConstants DEF b

\* Without wrapping, sums and distances are what they are.
LEMMA SumOfNumbers ==
  ASSUME NEW n, n \in SNs, NEW k, k \in Nat
  PROVE  Plus(n, k) \in SNs /\ (n + k < Modulus => Plus(n, k) = n + k)
<1> DEFINE x == n + k
<1>1. x \in Nat /\ Plus(n, k) = x % Modulus /\ x = n + k
  BY UmConstants DEF Plus
<1> HIDE DEF x
<1>2. /\ x % Modulus \in 0 .. Modulus - 1
      /\ x < Modulus => x % Modulus = x
  BY <1>1, UmConstants, Modulo
<1>3. Plus(n, k) \in SNs
  BY <1>1, <1>2 DEF SNs
<1> QED
  BY <1>1, <1>2, <1>3

LEMMA DifferenceOfNumbers ==
  ASSUME NEW low, low \in SNs, NEW high, high \in SNs, low <= high
  PROVE  Dist(high, low) = high - low
<1> DEFINE x == high + Modulus - low
<1>1. /\ x \in Nat /\ Dist(high, low) = x % Modulus /\ Modulus <= x /\ x < Modulus + Modulus
      /\ x - Modulus = high - low
  BY UmConstants DEF Dist
<1> HIDE DEF x
<1>2. Modulus <= x /\ x < Modulus + Modulus => x % Modulus = x - Modulus
  BY <1>1, UmConstants, Modulo
<1> QED
  BY <1>1, <1>2

------------------------------------------------------------------------------
(* What is left in the buffer. *)

Buffers == [SNs -> Seq(Units)]

LEMMA DeliverTakesOut ==
  ASSUME NEW rx, rx.buffer \in Buffers, NEW sns
  PROVE  /\ Deliver(rx, sns).buffer \in Buffers
         /\ \A sn \in SNs : Deliver(rx, sns).buffer[sn] =
              IF \E i \in DOMAIN sns : sns[i] = sn THEN <<>> ELSE rx.buffer[sn]
<1> DEFINE left == [sn \in SNs |-> IF sn \in ToSet(sns) THEN <<>> ELSE rx.buffer[sn]]
<1>1. Deliver(rx, sns).buffer = left
  BY DEF Deliver
<1>2. <<>> \in Seq(Units)
  BY EmptySeq
<1>3. left \in Buffers
  BY <1>2 DEF Buffers
<1>4. \A sn \in SNs : left[sn] = IF \E i \in DOMAIN sns : sns[i] = sn THEN <<>> ELSE rx.buffer[sn]
  BY DEF ToSet
<1> QED
  BY <1>1, <1>3, <1>4

LEMMA OutsideTakesOut ==
  ASSUME NEW rx, rx.buffer \in Buffers, NEW uh
  PROVE  LET first == Min({sn \in Held(rx.buffer) : Inside(sn, uh)} \cup {Modulus})
             left == ReassembleOutsideWindow(rx, uh).buffer
         IN /\ left \in Buffers
            /\ first \in Nat /\ (first = Modulus \/ (first \in Held(rx.buffer) /\ Inside(first, uh)))
            /\ \A sn \in Held(rx.buffer) : Inside(sn, uh) => first <= sn
            /\ \A sn \in SNs : left[sn] = IF sn < first THEN <<>> ELSE rx.buffer[sn]
<1> DEFINE T == {sn \in Held(rx.buffer) : Inside(sn, uh)} \cup {Modulus}
           first == Min(T)
           sns == [i \in 1 .. first |-> i - 1]
<1>1. T \subseteq Nat /\ T # {} /\ Held(rx.buffer) \subseteq SNs
  BY UmConstants DEF Held
<1>2. first \in T /\ first \in Nat /\ \A sn \in T : first <= sn
  <2> HIDE DEF T
  <2> QED
    BY <1>1, MinOfNumbers
<1>3. ReassembleOutsideWindow(rx, uh) = Deliver(rx, sns)
  BY DEF ReassembleOutsideWindow
<1>4. DOMAIN sns = 1 .. first /\ \A i \in 1 .. first : sns[i] = i - 1
  BY <1>2
<1> HIDE DEF sns, first
<1>5. ASSUME NEW sn \in SNs
      PROVE  (\E i \in DOMAIN sns : sns[i] = sn) <=> sn < first
  <2>1. sn \in Nat
    BY UmConstants
  <2>2. sn < first => sn + 1 \in 1 .. first /\ (sn + 1) - 1 = sn
    BY <1>2, <2>1
  <2>3. (\E i \in 1 .. first : i - 1 = sn) => sn < first
    BY <1>2, <2>1
  <2> QED
    BY <1>4, <2>2, <2>3
<1>7. /\ Deliver(rx, sns).buffer \in Buffers
      /\ \A sn \in SNs : Deliver(rx, sns).buffer[sn] =
           IF \E i \in DOMAIN sns : sns[i] = sn THEN <<>> ELSE rx.buffer[sn]
  BY DeliverTakesOut
<1>8. ASSUME NEW sn \in SNs
      PROVE  Deliver(rx, sns).buffer[sn] = IF sn < first THEN <<>> ELSE rx.buffer[sn]
  BY <1>5, <1>7
<1>6. /\ first \in Nat /\ (first = Modulus \/ (first \in Held(rx.buffer) /\ Inside(first, uh)))
      /\ \A sn \in Held(rx.buffer) : Inside(sn, uh) => first <= sn
  BY <1>2 DEF first
<1> QED
  BY <1>3, <1>6, <1>7, <1>8 DEF first

LEMMA IntervalTakesOut ==
  ASSUME NEW rx, rx.buffer \in Buffers, NEW low \in SNs, NEW high \in SNs, NEW uh \in SNs
  PROVE  LET left == ReassembleSnInterval(rx, low, high, uh).buffer
         IN /\ left \in Buffers
            /\ low <= high /\ high <= uh /\ uh <= low + Window =>
                 \A sn \in SNs : left[sn] = IF low <= sn /\ sn < high THEN <<>> ELSE rx.buffer[sn]
<1> DEFINE n == IF Dist(low, Base(uh)) < Dist(high, Base(uh)) THEN Dist(high, low) ELSE 0
           sns == [i \in 1 .. n |-> Plus(low, i - 1)]
<1>1. ReassembleSnInterval(rx, low, high, uh) = Deliver(rx, sns)
  BY DEF ReassembleSnInterval
<1>2. DOMAIN sns = 1 .. n /\ \A i \in 1 .. n : sns[i] = Plus(low, i - 1)
  OBVIOUS
<1> HIDE DEF n, sns
<1>3. /\ Deliver(rx, sns).buffer \in Buffers
      /\ \A sn \in SNs : Deliver(rx, sns).buffer[sn] =
           IF \E i \in DOMAIN sns : sns[i] = sn THEN <<>> ELSE rx.buffer[sn]
  BY DeliverTakesOut
<1>4. ASSUME low <= high, high <= uh, uh <= low + Window, NEW sn \in SNs
      PROVE  Deliver(rx, sns).buffer[sn] = IF low <= sn /\ sn < high THEN <<>> ELSE rx.buffer[sn]
  <2>1. /\ low \in Nat /\ high \in Nat /\ uh \in Nat /\ sn \in Nat
        /\ high < Modulus /\ low < Modulus
    BY UmConstants
  <2>2. Dist(low, Base(uh)) = low + Window - uh /\ Dist(high, Base(uh)) = high + Window - uh
    <3>1. /\ uh <= low + Window /\ low < uh + Window
          /\ uh <= high + Window /\ high < uh + Window
      BY <1>4, <2>1, UmConstants
    <3> QED
      BY <3>1, Distances
  <2>3. Dist(high, low) = high - low
    BY <1>4, DifferenceOfNumbers
  <2>4. n = high - low
    <3>1. low < high => Dist(low, Base(uh)) < Dist(high, Base(uh))
      BY <2>1, <2>2, UmConstants
    <3>2. low = high => ~(Dist(low, Base(uh)) < Dist(high, Base(uh)))
      BY <2>1, <2>2, UmConstants
    <3> QED
      BY <1>4, <2>1, <2>3, <3>1, <3>2 DEF n
  <2>5. \A i \in 1 .. n : i - 1 \in Nat /\ Plus(low, i - 1) = low + (i - 1)
    <3>1. ASSUME NEW i \in 1 .. n
          PROVE  i - 1 \in Nat /\ Plus(low, i - 1) = low + (i - 1)
      <4>1. n \in Nat /\ n = high - low /\ i \in Nat /\ 1 <= i /\ i <= n
        BY <1>4, <2>1, <2>4
      <4>2. PICK m \in Nat : i = m + 1
        <5>1. i - 1 \in Nat /\ i = (i - 1) + 1
          BY <4>1
        <5> QED
          BY <5>1
      <4>3. i - 1 = m /\ low + m < high
        BY <2>1, <4>1, <4>2
      <4>4. m \in Nat /\ low + m < Modulus
        BY <2>1, <4>2, <4>3, UmConstants
      <4>5. Plus(low, m) = low + m
        BY <4>4, SumOfNumbers
      <4> QED
        BY <4>3, <4>5
    <3> QED
      BY <3>1
  <2>6. (\E i \in 1 .. n : low + (i - 1) = sn) <=> low <= sn /\ sn < high
    <3>1. low <= sn /\ sn < high => sn - low + 1 \in 1 .. n /\ low + ((sn - low + 1) - 1) = sn
      BY <2>1, <2>4
    <3>2. (\E i \in 1 .. n : low + (i - 1) = sn) => low <= sn /\ sn < high
      BY <2>1, <2>4
    <3> QED
      BY <3>1, <3>2
  <2>7. (\E i \in DOMAIN sns : sns[i] = sn) <=> low <= sn /\ sn < high
    BY <1>2, <2>5, <2>6
  <2> QED
    BY <1>3, <2>7
<1> QED
  BY <1>1, <1>3, <1>4

LEMMA IntervalLeaves ==
  ASSUME NEW rx, rx.buffer \in Buffers, NEW low \in SNs, NEW high \in SNs, NEW uh \in SNs,
         low <= high, high <= uh, uh <= low + Window, NEW sn \in SNs
  PROVE  ReassembleSnInterval(rx, low, high, uh).buffer[sn] =
           IF low <= sn /\ sn < high THEN <<>> ELSE rx.buffer[sn]
BY IntervalTakesOut

\* What is looked for from VR(UR) and from VR(UX) on is found at VR(UH).
LEMMA FirstMissingFound ==
  ASSUME NEW buffer, NEW ur \in SNs
  PROVE  /\ FirstMissing(buffer, ur) \in SNs
         /\ \A uh \in SNs : ur <= uh /\ buffer[uh] = <<>> =>
              LET high == FirstMissing(buffer, ur)
              IN ur <= high /\ high <= uh /\ buffer[high] = <<>>
<1> DEFINE T == {n \in ur + 1 .. Modulus : n = Modulus \/ buffer[n] = <<>>}
           m == Min(T)
<1>1. ur \in Nat /\ ur < Modulus
  BY UmConstants
<1>2. T \subseteq Nat /\ Modulus \in T
  BY <1>1, UmConstants
<1>3. m \in T /\ \A n \in T : m <= n
  <2> HIDE DEF T
  <2> QED
    BY <1>2, MinOfNumbers
<1>4. FirstMissing(buffer, ur) = IF buffer[ur] = <<>> THEN ur ELSE m % Modulus
  BY DEF FirstMissing
<1>5. m \in Nat /\ ur < m /\ m <= Modulus /\ (m = Modulus \/ buffer[m] = <<>>)
  BY <1>1, <1>3, UmConstants
<1>6. m % Modulus \in SNs /\ (m < Modulus => m % Modulus = m)
  <2> HIDE DEF m
  <2> QED
    BY <1>5, UmConstants, Modulo DEF SNs
<1>7. ASSUME NEW uh \in SNs, ur <= uh, buffer[uh] = <<>>, buffer[ur] # <<>>
      PROVE  m <= uh /\ uh < Modulus
  <2>1. uh \in Nat /\ uh < Modulus /\ ur # uh
    BY <1>7, UmConstants
  <2>2. uh \in T
    BY <1>1, <1>7, <2>1, UmConstants
  <2> QED
    BY <1>3, <2>1, <2>2
<1> HIDE DEF T, m
<1>8. ASSUME NEW uh \in SNs, ur <= uh, buffer[uh] = <<>>
      PROVE  LET high == FirstMissing(buffer, ur)
             IN ur <= high /\ high <= uh /\ buffer[high] = <<>>
  <2>1. uh \in Nat
    BY UmConstants
  <2>2. CASE buffer[ur] = <<>>
    BY <1>1, <1>4, <1>8, <2>2
  <2>3. CASE buffer[ur] # <<>>
    <3>1. m <= uh /\ uh < Modulus
      BY <1>7, <1>8, <2>3
    <3>2. m < Modulus /\ m % Modulus = m /\ FirstMissing(buffer, ur) = m % Modulus
      BY <1>4, <1>5, <1>6, <2>1, <2>3, <3>1, UmConstants
    <3> QED
      BY <1>1, <1>5, <3>1, <3>2
  <2> QED
    BY <2>2, <2>3
<1> QED
  BY <1>4, <1>6, <1>8

LEMMA GapFound ==
  ASSUME NEW buffer, NEW ux \in SNs
  PROVE  LET found == Min({i \in 0 .. Modulus : i = Modulus \/ buffer[Plus(ux, i)] = <<>>})
             ur == Plus(ux, found)
         IN /\ ur \in SNs
            /\ \A uh \in SNs : ux <= uh /\ buffer[uh] = <<>> =>
                 ux <= ur /\ ur <= uh /\ buffer[ur] = <<>>
<1> DEFINE T == {i \in 0 .. Modulus : i = Modulus \/ buffer[Plus(ux, i)] = <<>>}
           found == Min(T)
<1>1. ux \in Nat /\ ux < Modulus
  BY UmConstants
<1>2. T \subseteq Nat /\ Modulus \in T
  BY UmConstants
<1>3. found \in T /\ \A i \in T : found <= i
  <2> HIDE DEF T
  <2> QED
    BY <1>2, MinOfNumbers
<1>4. found \in Nat /\ (found = Modulus \/ buffer[Plus(ux, found)] = <<>>)
  BY <1>3
<1>5. ASSUME NEW uh \in SNs, ux <= uh, buffer[uh] = <<>>
      PROVE  found <= uh - ux /\ uh \in Nat /\ uh < Modulus
  <2>1. uh \in Nat /\ uh < Modulus
    BY UmConstants
  <2> DEFINE k == uh - ux
  <2>2. k \in Nat /\ k \in 0 .. Modulus /\ ux + k = uh
    BY <1>1, <1>5, <2>1, UmConstants
  <2> HIDE DEF k
  <2>3. Plus(ux, k) = uh
    <3>1. k \in Nat /\ ux + k < Modulus
      BY <2>1, <2>2
    <3> QED
      BY <2>2, <3>1, SumOfNumbers
  <2>4. k \in T
    BY <1>5, <2>2, <2>3
  <2> QED
    BY <1>3, <2>1, <2>4 DEF k
<1> HIDE DEF T, found
<1>6. ASSUME NEW uh \in SNs, ux <= uh, buffer[uh] = <<>>
      PROVE  /\ ux <= Plus(ux, found) /\ Plus(ux, found) <= uh /\ buffer[Plus(ux, found)] = <<>>
  <2>1. found <= uh - ux /\ uh \in Nat /\ uh < Modulus
    BY <1>5, <1>6
  <2>2. found \in Nat /\ ux + found < Modulus /\ found # Modulus
    BY <1>1, <1>4, <2>1, UmConstants
  <2>3. Plus(ux, found) = ux + found
    BY <2>2, SumOfNumbers
  <2> QED
    BY <1>1, <1>4, <2>1, <2>2, <2>3
<1>7. Plus(ux, found) \in SNs
  <2>1. found \in Nat
    BY <1>4
  <2> QED
    BY <2>1, SumOfNumbers
<1> QED
  BY <1>6, <1>7 DEF found, T

------------------------------------------------------------------------------
(* Types. *)

UmTypeInv == TypeOK /\ dataPdus \in Seq(Pdus)

LEMMA ReorderingTypes ==
  ASSUME UmTypeInv, NEW ur \in SNs, NEW uh \in SNs, Reordering(ur, uh)
  PROVE  /\ reorderingTimer' \in BOOLEAN
         /\ vr' \in [ur : SNs, ux : SNs, uh : SNs] /\ vr'.ur = ur /\ vr'.uh = uh
<1>1. vr.ux \in SNs
  BY DEF UmTypeInv, TypeOK
<1>2. reorderingTimer' \in BOOLEAN
  BY Zenon DEF Reordering
<1>3. PICK ux \in SNs : vr' = [ur |-> ur, ux |-> ux, uh |-> uh]
  BY <1>1 DEF Reordering
<1> QED
  BY <1>2, <1>3

LEMMA PlaceTypes ==
  ASSUME UmTypeInv, NEW pdu \in Pdus, Place(pdu)
  PROVE  /\ rxBuffer' \in Buffers /\ reorderingTimer' \in BOOLEAN
         /\ vr' \in [ur : SNs, ux : SNs, uh : SNs]
<1> DEFINE beyond == ~Inside(pdu.sn, vr.uh)
           uh == IF beyond THEN Plus(pdu.sn, 1) ELSE vr.uh
           placed == [buffer |-> [rxBuffer EXCEPT ![pdu.sn] = pdu.units], reassembly |-> reassembly]
           moved == IF beyond THEN ReassembleOutsideWindow(placed, uh) ELSE placed
           low == IF beyond /\ ~Inside(vr.ur, uh) THEN Base(uh) ELSE vr.ur
           high == FirstMissing(moved.buffer, low)
           done == ReassembleSnInterval(moved, low, high, uh)
<1>1. /\ pdu.sn \in SNs /\ pdu.units \in Seq(Units)
      /\ rxBuffer \in Buffers /\ vr.ur \in SNs /\ vr.uh \in SNs
  BY DEF UmTypeInv, TypeOK, Pdus, Buffers, Units
<1>2. rxBuffer' = done.buffer /\ Reordering(high, uh)
  BY DEF Place
<1>3. placed.buffer \in Buffers
  BY <1>1 DEF Buffers
<1>4. Plus(pdu.sn, 1) \in SNs
  BY <1>1, SumOfNumbers
<1>5. uh \in SNs
  BY <1>1, <1>4
<1> HIDE DEF placed, uh, beyond
<1>6. Base(uh) \in SNs
  BY <1>5, Distances
<1>7. ReassembleOutsideWindow(placed, uh).buffer \in Buffers
  BY <1>3, OutsideTakesOut
<1>8. moved.buffer \in Buffers /\ low \in SNs
  BY <1>1, <1>3, <1>6, <1>7
<1> HIDE DEF moved, low
<1>9. high \in SNs
  BY <1>8, FirstMissingFound
<1> HIDE DEF high
<1>10. done.buffer \in Buffers
  BY <1>5, <1>8, <1>9, IntervalTakesOut
<1> QED
  BY <1>2, <1>5, <1>9, <1>10, ReorderingTypes

\* What is left when a PDU arrives, and the PDU.
LEMMA OthersAreLeft ==
  ASSUME NEW pdus \in Seq(Pdus), NEW i \in DOMAIN pdus
  PROVE  /\ pdus[i] \in Pdus
         /\ RemoveAt(pdus, i) \in Seq(Pdus)
         /\ i = 2 => RemoveAt([pdus EXCEPT ![1].overtaken = TRUE], i) \in Seq(Pdus)
<1>1. pdus[i] \in Pdus /\ RemoveAt(pdus, i) \in Seq(Pdus)
  BY ElementOfSeq, RemoveAtShortens
<1>2. ASSUME i = 2
      PROVE  RemoveAt([pdus EXCEPT ![1].overtaken = TRUE], i) \in Seq(Pdus)
  <2> DEFINE e == [pdus[1] EXCEPT !.overtaken = TRUE]  marked == [pdus EXCEPT ![1] = e]
  <2>1. 1 \in 1 .. Len(pdus) /\ i \in 1 .. Len(pdus) /\ Len(pdus) \in Nat
    BY <1>2, LenProperties
  <2>2. pdus[1] \in Pdus
    BY <2>1, ElementOfSeq
  <2>3. e \in Pdus
    BY <2>2 DEF Pdus
  <2> HIDE DEF e
  <2>4. marked \in Seq(Pdus) /\ Len(marked) = Len(pdus)
    BY <2>1, <2>3, ExceptSeq
  <2>5. i \in DOMAIN marked
    BY <2>1, <2>4, LenProperties
  <2> HIDE DEF marked
  <2>6. RemoveAt(marked, i) \in Seq(Pdus)
    BY <2>4, <2>5, RemoveAtShortens
  <2> QED
    BY <2>6 DEF marked, e
<1> QED
  BY <1>1, <1>2

\* What an SDU adds to the buffer of the sending entity, and what a PDU takes.
LEMMA SduIsHandedIn ==
  ASSUME UmTypeInv, DoTransmitPdcpPdu
  PROVE  /\ txon' \in Seq(Units) /\ Len(txon') <= MaxTxBuffer
         /\ Len(txon) \in Nat /\ Len(txon') \in Nat /\ Len(txon') <= Len(txon) + SduUnits
         /\ offered' = offered + 1 /\ offered' \in 0 .. NSdus /\ accepted' \in Seq(1 .. NSdus)
<1>1. /\ txon \in Seq(Units) /\ Len(txon) <= MaxTxBuffer /\ accepted \in Seq(1 .. NSdus)
      /\ offered \in Nat
  BY DEF UmTypeInv, TypeOK, Units
<1>2. offered < NSdus /\ offered' = offered + 1
  BY DEF DoTransmitPdcpPdu
<1>3. PICK s \in 1 .. NSdus : s = offered + 1
  BY <1>1, <1>2, UmConstants
<1>4. Sdu(s) \in Seq(Units) /\ Len(Sdu(s)) = SduUnits
  <2>1. \A k \in 1 .. SduUnits : <<s, k>> \in Units
    BY DEF Units
  <2>2. SduUnits \in Nat
    BY UmConstants
  <2> QED
    BY <2>1, <2>2, IsASeq DEF Sdu
<1>5. txon \o Sdu(s) \in Seq(Units) /\ Len(txon \o Sdu(s)) = Len(txon) + SduUnits
  BY <1>1, <1>4, ConcatProperties
<1>6. Append(accepted, s) \in Seq(1 .. NSdus)
  BY <1>1, AppendProperties
<1>7. Len(txon) \in Nat
  BY <1>1, LenProperties
<1>8. \/ Len(txon) + SduUnits <= MaxTxBuffer /\ txon' = txon \o Sdu(s) /\ accepted' = Append(accepted, s)
      \/ txon' = txon /\ accepted' = accepted
  BY <1>3 DEF DoTransmitPdcpPdu
<1>9. CASE /\ Len(txon) + SduUnits <= MaxTxBuffer
           /\ txon' = txon \o Sdu(s) /\ accepted' = Append(accepted, s)
  BY <1>1, <1>2, <1>3, <1>5, <1>6, <1>7, <1>9, UmConstants
<1>10. CASE txon' = txon /\ accepted' = accepted
  BY <1>1, <1>2, <1>3, <1>7, <1>10, UmConstants
<1> QED
  BY <1>8, <1>9, <1>10

LEMMA PduIsCut ==
  ASSUME txon \in Seq(Units), NEW n \in Nat, n > 0, txon # <<>>, SendPdu(Min({n, Len(txon)}))
  PROVE  \E m \in 1 .. Len(txon) :
           /\ txon' = SubSeq(txon, m + 1, Len(txon))
           /\ dataPdus' = Append(dataPdus, [sn |-> sequenceNumber, units |-> SubSeq(txon, 1, m),
                                            overtaken |-> FALSE])
<1> DEFINE l == Len(txon)  T == {n, l}  m == Min(T)  units == SubSeq(txon, 1, m)
<1>1. l \in Nat /\ l > 0 /\ \A i \in 1 .. l : txon[i] \in Units
  BY LenProperties, EmptySeq, ElementOfSeq
<1>2. m \in T /\ \A x \in T : m <= x
  <2>1. T \subseteq Nat /\ T # {}
    BY <1>1
  <2> HIDE DEF T
  <2> QED
    BY <2>1, MinOfNumbers
<1>3. m \in 1 .. l
  BY <1>1, <1>2
<1>4. /\ txon' = SubSeq(txon, Len(units) + 1, l)
      /\ dataPdus' = Append(dataPdus, [sn |-> sequenceNumber, units |-> units, overtaken |-> FALSE])
  BY DEF SendPdu
<1> HIDE DEF m
<1>5. Len(units) = m
  BY <1>1, <1>3, SubSeqProperties
<1> QED
  BY <1>3, <1>4, <1>5

LEMMA PduIsSent ==
  ASSUME UmTypeInv, NEW n \in Nat, n > 0, txon # <<>>, SendPdu(Min({n, Len(txon)}))
  PROVE  /\ txon' \in Seq(Units) /\ Len(txon) \in Nat /\ Len(txon') \in Nat
         /\ Len(txon') < Len(txon)
         /\ sequenceNumber' = Plus(sequenceNumber, 1)
         /\ \E units \in Seq(Units) :
              dataPdus' = Append(dataPdus, [sn |-> sequenceNumber, units |-> units, overtaken |-> FALSE])
<1> DEFINE l == Len(txon)
<1>1. txon \in Seq(Units)
  BY DEF UmTypeInv, TypeOK, Units
<1>2. l \in Nat /\ \A i \in 1 .. l : txon[i] \in Units
  BY <1>1, LenProperties, ElementOfSeq
<1>3. PICK m \in 1 .. l :
        /\ txon' = SubSeq(txon, m + 1, l)
        /\ dataPdus' = Append(dataPdus, [sn |-> sequenceNumber, units |-> SubSeq(txon, 1, m),
                                         overtaken |-> FALSE])
  BY <1>1, PduIsCut
<1>4. SubSeq(txon, 1, m) \in Seq(Units)
  BY <1>2, SubSeqProperties
<1>5. SubSeq(txon, m + 1, l) \in Seq(Units) /\ Len(SubSeq(txon, m + 1, l)) = l - m
  <2>1. m + 1 \in Int /\ l \in Int /\ \A i \in m + 1 .. l : txon[i] \in Units
    BY <1>2
  <2> QED
    BY <1>2, <2>1, SubSeqProperties
<1>6. sequenceNumber' = Plus(sequenceNumber, 1)
  BY DEF SendPdu
<1> HIDE DEF l
<1>7. txon' \in Seq(Units) /\ l \in Nat /\ Len(txon') \in Nat /\ Len(txon') < l
  BY <1>2, <1>3, <1>5
<1> QED
  BY <1>3, <1>4, <1>6, <1>7 DEF l

LEMMA PduIsReceived ==
  ASSUME UmTypeInv, NEW i, DoReceivePdu(i)
  PROVE  /\ i \in DOMAIN dataPdus /\ dataPdus[i] \in Pdus /\ Others(i) \in Seq(Pdus)
         /\ i = 1 \/ (i = 2 /\ ~dataPdus[1].overtaken)
         /\ dataPdus' = Others(i)
<1>1. /\ i \in DOMAIN dataPdus /\ dataPdus' = Others(i)
      /\ i = 1 \/ (i = 2 /\ ~dataPdus[1].overtaken)
  BY DEF DoReceivePdu, Arriving
<1>2. dataPdus \in Seq(Pdus)
  BY DEF UmTypeInv
<1>3. dataPdus[i] \in Pdus /\ Others(i) \in Seq(Pdus)
  BY <1>1, <1>2, OthersAreLeft DEF Others
<1> QED
  BY <1>1, <1>3

LEMMA ExpireTypes ==
  ASSUME UmTypeInv, ExpireReorderingTimer
  PROVE  /\ rxBuffer' \in Buffers /\ reorderingTimer' \in BOOLEAN
         /\ vr' \in [ur : SNs, ux : SNs, uh : SNs]
<1> DEFINE ur == Plus(vr.ux, Min({i \in 0 .. Modulus : i = Modulus \/ rxBuffer[Plus(vr.ux, i)] = <<>>}))
           rx == [buffer |-> rxBuffer, reassembly |-> reassembly]
           done == ReassembleSnInterval(rx, vr.ur, ur, vr.uh)
           again == Dist(vr.uh, Base(vr.uh)) > Dist(ur, Base(vr.uh))
<1>1. /\ vr \in [ur : SNs, ux : SNs, uh : SNs] /\ rxBuffer \in Buffers
      /\ vr.ur \in SNs /\ vr.uh \in SNs /\ vr.ux \in SNs
  BY DEF UmTypeInv, TypeOK, Buffers, Units
<1>2. /\ rxBuffer' = done.buffer /\ vr' = [vr EXCEPT !.ur = ur, !.ux = IF again THEN vr.uh ELSE @]
  BY DEF ExpireReorderingTimer
<1>3. reorderingTimer' \in BOOLEAN
  <2>1. reorderingTimer' = again
    BY DEF ExpireReorderingTimer
  <2> QED
    BY <2>1
<1>4. ur \in SNs
  BY <1>1, GapFound
<1>5. rx.buffer \in Buffers
  BY <1>1
<1> HIDE DEF ur, rx, again
<1>6. done.buffer \in Buffers
  BY <1>1, <1>4, <1>5, IntervalTakesOut
<1> HIDE DEF done
<1>7. vr' \in [ur : SNs, ux : SNs, uh : SNs]
  BY <1>1, <1>2, <1>4
<1> QED
  BY <1>2, <1>3, <1>6, <1>7

LEMMA UmTypesAreKept ==
  ASSUME UmTypeInv, [Next]_vars
  PROVE  UmTypeInv'
<1> USE DEF UmTypeInv, TypeOK
<1> DEFINE Numbers == [ur : SNs, ux : SNs, uh : SNs]
<1>1. CASE DoTransmitPdcpPdu
  <2>1. /\ txon' \in Seq(Units) /\ Len(txon') <= MaxTxBuffer
        /\ offered' \in 0 .. NSdus /\ accepted' \in Seq(1 .. NSdus)
    BY <1>1, SduIsHandedIn
  <2>2. report' \in BOOLEAN /\ rbsTimer' \in BOOLEAN
    BY <1>1, Zenon DEF DoTransmitPdcpPdu
  <2>3. UNCHANGED <<sequenceNumber, rxBuffer, vr, reorderingTimer, dataPdus, faultless>>
    BY <1>1 DEF DoTransmitPdcpPdu, receiver
  <2> QED
    BY <2>1, <2>2, <2>3 DEF Units
<1>2. ASSUME NEW n \in Grants, DoNotifyTxOpportunity(n)
      PROVE  UmTypeInv'
  <2>1. UNCHANGED <<rxBuffer, vr, reorderingTimer, accepted, offered, faultless>>
    BY <1>2 DEF DoNotifyTxOpportunity, receiver
  <2>2. n \in Nat
    BY UmConstants
  <2>3. CASE n > 0 /\ txon # <<>> /\ SendPdu(Min({n, Len(txon)}))
    <3>1. PICK units \in Seq(Units) :
            dataPdus' = Append(dataPdus, [sn |-> sequenceNumber, units |-> units, overtaken |-> FALSE])
      BY <2>2, <2>3, PduIsSent
    <3>2. [sn |-> sequenceNumber, units |-> units, overtaken |-> FALSE] \in Pdus
      BY DEF Pdus
    <3>3. dataPdus' \in Seq(Pdus)
      BY <3>1, <3>2, AppendProperties
    <3>4. /\ txon' \in Seq(Units) /\ Len(txon') \in Nat /\ Len(txon) \in Nat /\ Len(txon') < Len(txon)
          /\ sequenceNumber' = Plus(sequenceNumber, 1)
      BY <2>2, <2>3, PduIsSent
    <3>5. Len(txon') <= MaxTxBuffer
      BY <3>4, UmConstants
    <3>6. sequenceNumber' \in SNs
      BY <3>4, SumOfNumbers
    <3>7. report' \in BOOLEAN /\ rbsTimer' \in BOOLEAN
      BY <2>3, Zenon DEF SendPdu
    <3> QED
      BY <2>1, <3>3, <3>4, <3>5, <3>6, <3>7 DEF Units
  <2>4. CASE n > 0 /\ txon = <<>> /\ report' = FALSE /\ UNCHANGED <<txon, sequenceNumber, rbsTimer, dataPdus>>
    BY <2>1, <2>4
  <2>5. CASE n = 0 /\ UNCHANGED <<sender, dataPdus>>
    BY <2>1, <2>5 DEF sender
  <2> QED
    BY <1>2, <2>3, <2>4, <2>5 DEF DoNotifyTxOpportunity
<1>3. CASE ExpireRbsTimer
  <2>1. report' \in BOOLEAN /\ rbsTimer' \in BOOLEAN
    BY <1>3, Zenon DEF ExpireRbsTimer
  <2> QED
    BY <1>3, <2>1 DEF ExpireRbsTimer, receiver
<1>4. ASSUME NEW i \in 1 .. 2, DoReceivePdu(i)
      PROVE  UmTypeInv'
  <2>1. dataPdus[i] \in Pdus /\ dataPdus' \in Seq(Pdus)
    BY <1>4, PduIsReceived
  <2>2. UNCHANGED <<txon, sequenceNumber, rbsTimer, report, accepted, offered, faultless>>
    BY <1>4 DEF DoReceivePdu, sender
  <2>3. rxBuffer' \in Buffers /\ reorderingTimer' \in BOOLEAN /\ vr' \in Numbers
    <3>1. CASE Place(dataPdus[i])
      BY <2>1, <3>1, PlaceTypes
    <3>2. CASE UNCHANGED receiver
      BY <3>2 DEF receiver, Buffers, Units
    <3> QED
      BY <1>4, <3>1, <3>2 DEF DoReceivePdu
  <2> QED
    BY <2>1, <2>2, <2>3 DEF Buffers, Units
<1>5. CASE ExpireReorderingTimer
  <2>1. rxBuffer' \in Buffers /\ reorderingTimer' \in BOOLEAN /\ vr' \in Numbers
    BY <1>5, ExpireTypes
  <2>2. /\ UNCHANGED <<txon, sequenceNumber, rbsTimer, report, dataPdus, accepted, offered>>
        /\ faultless' = FALSE
    BY <1>5 DEF ExpireReorderingTimer, sender
  <2> QED
    BY <2>1, <2>2 DEF Buffers, Units
<1>6. CASE LosePdu
  <2>1. dataPdus' \in Seq(Pdus)
    BY <1>6, HeadTailProperties DEF LosePdu
  <2> QED
    BY <1>6, <2>1 DEF LosePdu, sender, receiver
<1>7. CASE UNCHANGED vars
  BY <1>7 DEF vars, sender, receiver
<1> QED
  BY <1>1, <1>2, <1>3, <1>4, <1>5, <1>6, <1>7 DEF Next, TxOpportunity, ReceivePdu

LEMMA UmTypesInitially ==
  ASSUME Init
  PROVE  UmTypeInv
<1>1. /\ txon \in Seq(Units) /\ Len(txon) = 0 /\ dataPdus \in Seq(Pdus)
      /\ accepted \in Seq(1 .. NSdus) /\ <<>> \in Seq(Units)
  BY EmptySeq DEF Init
<1>2. rxBuffer \in Buffers
  BY <1>1 DEF Init, Buffers
<1>3. /\ sequenceNumber \in SNs /\ offered \in 0 .. NSdus /\ Len(txon) <= MaxTxBuffer
      /\ vr \in [ur : SNs, ux : SNs, uh : SNs]
  BY <1>1, UmConstants DEF Init
<1>4. /\ rbsTimer \in BOOLEAN /\ report \in BOOLEAN
      /\ reorderingTimer \in BOOLEAN /\ faultless \in BOOLEAN
  BY DEF Init
<1> QED
  BY <1>1, <1>2, <1>3, <1>4 DEF UmTypeInv, TypeOK, Buffers, Units

\* Type correctness of the model of LteRlcUm: whatever the opportunities, the
\* losses and the order of arrival are, the counters stay within the modulus.
THEOREM UmTypeCorrect == Spec => []TypeOK
<1>1. Init => UmTypeInv
  BY UmTypesInitially
<1>2. UmTypeInv /\ [Next]_vars => UmTypeInv'
  BY UmTypesAreKept
<1>3. UmTypeInv => TypeOK
  BY DEF UmTypeInv
<1> QED
  BY <1>1, <1>2, <1>3, PTL DEF Spec

------------------------------------------------------------------------------
(* The invariant, for bearers that do not wrap around. *)

\* As many PDUs as there are units have different numbers; RlcUmWrap shows a
\* PDU held back and forgotten when they have not.
NoWrap == NSdus * SduUnits < Modulus

\* Every unit is still to be handed in, to be sent, or in a PDU.
CountInv == sequenceNumber + Len(txon) + (NSdus - offered) * SduUnits <= NSdus * SduUnits

\* The PDUs on their way are numbered in the order they were sent in, the first
\* of them may have been overtaken by the last one that arrived.
Overtaken(pdus) == pdus # <<>> /\ pdus[1].overtaken = TRUE
Numbered(pdus, sent) ==
  \A i \in DOMAIN pdus :
    /\ i # 1 => pdus[i].overtaken = FALSE
    /\ pdus[i].overtaken = TRUE => pdus[i].sn = sent - 1
    /\ pdus[i].overtaken = FALSE => pdus[i].sn = sent + i - 1
QueueIs(pdus, number, uh) ==
  /\ Len(pdus) <= number
  /\ Overtaken(pdus) => Len(pdus) + 1 <= number /\ uh <= number - Len(pdus) + 1
  /\ ~Overtaken(pdus) => uh <= number - Len(pdus)
  /\ Numbered(pdus, number - Len(pdus))

\* The receiving window without its wrapping: what is held back is between
\* VR(UR) and VR(UH), and t-Reordering runs as long as these differ.
WindowIs(buffer, ur, uh) ==
  /\ ur <= uh /\ uh <= ur + Window
  /\ \A sn \in SNs : buffer[sn] # <<>> => ur < sn /\ sn < uh
TimerIs(running, ur, ux, uh) ==
  /\ running = (ur < uh)
  /\ ur < uh => ur < ux /\ ux <= uh

UmInv ==
  /\ UmTypeInv
  /\ CountInv
  /\ QueueIs(dataPdus, sequenceNumber, vr.uh)
  /\ WindowIs(rxBuffer, vr.ur, vr.uh)
  /\ TimerIs(reorderingTimer, vr.ur, vr.ux, vr.uh)

\* The first PDU on its way arrives or is lost.
LEMMA FirstLeaves ==
  ASSUME NEW pdus \in Seq(Pdus), NEW others \in Seq(Pdus), Lengthened(others, pdus, 1, pdus[1]),
         NEW number \in Nat, NEW uh \in Nat, NEW uhAfter \in Nat, QueueIs(pdus, number, uh),
         uhAfter = uh \/ uhAfter = pdus[1].sn + 1
  PROVE  QueueIs(others, number, uhAfter)
<1> DEFINE l == Len(others)  sent == number - (l + 1)
<1>1. /\ l \in Nat /\ DOMAIN others = 1 .. l /\ Len(pdus) = l + 1 /\ DOMAIN pdus = 1 .. l + 1
      /\ \A i \in 1 .. l : pdus[IF i < 1 THEN i ELSE i + 1] = others[i]
  BY LenProperties DEF Lengthened
<1> HIDE DEF l
<1>2. \A i \in 1 .. l : others[i] = pdus[i + 1] /\ i + 1 \in 1 .. l + 1 /\ i + 1 # 1
  BY <1>1
<1>3. \A i \in 1 .. l + 1 :
        /\ i # 1 => pdus[i].overtaken = FALSE
        /\ pdus[i].overtaken = TRUE => pdus[i].sn = sent - 1
        /\ pdus[i].overtaken = FALSE => pdus[i].sn = sent + i - 1
  BY <1>1 DEF QueueIs, Numbered
<1>4. \A i \in 1 .. l : others[i].overtaken = FALSE /\ others[i].sn = sent + (i + 1) - 1
  BY <1>2, <1>3
<1>5. ~Overtaken(others)
  <2>1. others # <<>> => 1 \in 1 .. l
    BY <1>1, EmptySeq DEF l
  <2> QED
    BY <1>4, <2>1 DEF Overtaken
<1>6. Len(others) = l
  BY DEF l
<1>7. Numbered(others, number - Len(others))
  <2> SUFFICES ASSUME NEW i \in 1 .. l
               PROVE  others[i].overtaken = FALSE /\ others[i].sn = (number - l) + i - 1
    BY <1>1, <1>6 DEF Numbered
  <2>1. sent + (i + 1) - 1 = (number - l) + i - 1
    BY <1>1
  <2> QED
    BY <1>4, <2>1
<1>8. l + 1 <= number /\ uh <= number - l
  BY <1>1 DEF QueueIs
<1>9. uhAfter <= number - l
  <2>1. pdus # <<>> /\ 1 \in 1 .. l + 1
    BY <1>1, EmptySeq
  <2>2. pdus[1] \in Pdus
    BY <1>1, <2>1, ElementOfSeq
  <2>3. pdus[1].overtaken = TRUE \/ pdus[1].overtaken = FALSE
    BY <2>2 DEF Pdus
  <2>4. pdus[1].sn = sent - 1 \/ pdus[1].sn = sent + 1 - 1
    BY <1>3, <2>1, <2>3
  <2> QED
    BY <1>1, <1>8, <2>4
<1> QED
  BY <1>1, <1>5, <1>6, <1>7, <1>8, <1>9 DEF QueueIs

\* The second one overtakes it.
LEMMA SecondLeaves ==
  ASSUME NEW pdus \in Seq(Pdus), NEW marked \in Seq(Pdus), NEW others \in Seq(Pdus),
         2 \in DOMAIN pdus, pdus[1].overtaken = FALSE, Len(marked) = Len(pdus),
         marked[1].overtaken = TRUE, marked[1].sn = pdus[1].sn,
         \A i \in 1 .. Len(pdus) : i # 1 => marked[i] = pdus[i],
         Lengthened(others, marked, 2, marked[2]),
         NEW number \in Nat, NEW uh \in Nat, NEW uhAfter \in Nat, QueueIs(pdus, number, uh),
         uhAfter = uh \/ uhAfter = pdus[2].sn + 1
  PROVE  QueueIs(others, number, uhAfter)
<1> DEFINE l == Len(others)  sent == number - (l + 1)
<1>1. /\ l \in Nat /\ DOMAIN others = 1 .. l /\ Len(pdus) = l + 1 /\ DOMAIN pdus = 1 .. l + 1
      /\ \A i \in 1 .. l : marked[IF i < 2 THEN i ELSE i + 1] = others[i]
      /\ \A i \in 1 .. l + 1 : i # 1 => marked[i] = pdus[i]
  BY LenProperties DEF Lengthened
<1> HIDE DEF l
<1>2. l >= 1 /\ 1 \in 1 .. l
  BY <1>1
<1>3. /\ others[1] = marked[1]
      /\ \A i \in 1 .. l : i # 1 => others[i] = pdus[i + 1] /\ i + 1 \in 1 .. l + 1 /\ i + 1 # 1
  <2>1. \A i \in 1 .. l : i # 1 => ~(i < 2) /\ i + 1 \in 1 .. l + 1 /\ i + 1 # 1
    BY <1>1
  <2> QED
    BY <1>1, <1>2, <2>1
<1>4. \A i \in 1 .. l + 1 :
        /\ i # 1 => pdus[i].overtaken = FALSE
        /\ pdus[i].overtaken = FALSE => pdus[i].sn = sent + i - 1
  BY <1>1 DEF QueueIs, Numbered
<1>5. \A i \in 1 .. l : i # 1 => others[i].overtaken = FALSE /\ others[i].sn = sent + (i + 1) - 1
  <2> SUFFICES ASSUME NEW i \in 1 .. l, i # 1
               PROVE  others[i].overtaken = FALSE /\ others[i].sn = sent + (i + 1) - 1
    OBVIOUS
  <2>1. PICK j \in 1 .. l + 1 : j = i + 1 /\ j # 1 /\ others[i] = pdus[j]
    BY <1>3
  <2>2. pdus[j].overtaken = FALSE /\ pdus[j].sn = sent + j - 1
    BY <1>4, <2>1
  <2> QED
    BY <2>1, <2>2
<1>6. others[1].overtaken = TRUE /\ others[1].sn = sent + 1 - 1
  <2>1. 1 \in 1 .. l + 1
    BY <1>1
  <2> QED
    BY <1>3, <1>4, <2>1
<1>7. Overtaken(others)
  <2>1. others # <<>>
    BY <1>1, <1>2, EmptySeq
  <2> QED
    BY <1>6, <2>1 DEF Overtaken
<1>8. Len(others) = l
  BY DEF l
<1>9. Numbered(others, number - Len(others))
  <2>1. ASSUME NEW i \in 1 .. l, i # 1
        PROVE  others[i].overtaken = FALSE /\ others[i].sn = (number - l) + i - 1
    <3>1. sent + (i + 1) - 1 = (number - l) + i - 1
      BY <1>1
    <3> QED
      BY <1>5, <2>1, <3>1
  <2>2. others[1].overtaken = TRUE /\ others[1].sn = (number - l) - 1
    <3>1. sent + 1 - 1 = (number - l) - 1
      BY <1>1
    <3> QED
      BY <1>6, <3>1
  <2> QED
    BY <1>1, <1>8, <2>1, <2>2 DEF Numbered
<1>10. ~Overtaken(pdus)
  BY DEF Overtaken
<1>11. l + 1 <= number /\ uh <= number - (l + 1)
  BY <1>1, <1>10 DEF QueueIs
<1>12. pdus[2].sn = sent + 2 - 1
  <2>1. 2 \in 1 .. l + 1 /\ 2 # 1
    BY <1>1, <1>2
  <2> QED
    BY <1>4, <2>1
<1>13. uhAfter <= number - l + 1
  BY <1>1, <1>11, <1>12
<1> QED
  BY <1>1, <1>7, <1>8, <1>9, <1>11, <1>13 DEF QueueIs

\* A PDU more is sent.
LEMMA LastJoins ==
  ASSUME NEW pdus \in Seq(Pdus), NEW number \in Nat, NEW uh \in Nat, QueueIs(pdus, number, uh),
         NEW e \in Pdus, e.sn = number, e.overtaken = FALSE
  PROVE  QueueIs(Append(pdus, e), number + 1, uh)
<1> DEFINE l == Len(pdus)  longer == Append(pdus, e)
<1>1. /\ longer \in Seq(Pdus) /\ Len(longer) = l + 1 /\ longer[l + 1] = e
      /\ \A i \in 1 .. l : longer[i] = pdus[i]
  BY AppendProperties
<1>2. l \in Nat /\ DOMAIN pdus = 1 .. l /\ DOMAIN longer = 1 .. l + 1
  BY <1>1, LenProperties
<1>3. Len(pdus) = l
  OBVIOUS
<1> HIDE DEF l, longer
<1>4. \A i \in 1 .. l :
        /\ i # 1 => longer[i].overtaken = FALSE
        /\ longer[i].overtaken = TRUE => longer[i].sn = number - l - 1
        /\ longer[i].overtaken = FALSE => longer[i].sn = number - l + i - 1
  BY <1>1, <1>2, <1>3 DEF QueueIs, Numbered
<1>5. \A i \in 1 .. l + 1 : i = l + 1 \/ i \in 1 .. l
  BY <1>2
<1>6. number + 1 - Len(longer) = number - l /\ number - l + (l + 1) - 1 = number
  BY <1>1, <1>2
<1>7. Numbered(longer, number + 1 - Len(longer))
  BY <1>1, <1>2, <1>4, <1>5, <1>6 DEF Numbered
<1>8. Overtaken(longer) <=> Overtaken(pdus)
  <2>1. longer # <<>> /\ (pdus # <<>> <=> l # 0) /\ 1 \in 1 .. l + 1
    BY <1>1, <1>2, <1>3, EmptySeq
  <2>2. CASE l = 0
    BY <1>1, <2>1, <2>2 DEF Overtaken
  <2>3. CASE l # 0
    <3>1. 1 \in 1 .. l
      BY <1>2, <2>3
    <3>2. longer[1] = pdus[1]
      BY <1>1, <3>1
    <3> QED
      BY <2>1, <2>3, <3>2 DEF Overtaken
  <2> QED
    BY <2>2, <2>3
<1>9. QueueIs(longer, number + 1, uh)
  BY <1>1, <1>2, <1>3, <1>6, <1>7, <1>8 DEF QueueIs
<1> QED
  BY <1>9 DEF longer

\* t-Reordering and VR(UX) after VR(UR) and VR(UH) have moved up.
LEMMA ReorderingWatches ==
  ASSUME UmTypeInv, NEW ur \in SNs, NEW uh \in SNs, ur <= uh, uh <= ur + Window,
         reorderingTimer => vr.ux <= uh, Reordering(ur, uh)
  PROVE  /\ vr'.ur = ur /\ vr'.uh = uh
         /\ TimerIs(reorderingTimer', ur, vr'.ux, uh)
<1>1. PICK ux \in SNs : ux = vr.ux
  BY DEF UmTypeInv, TypeOK
<1>2. /\ ur \in Nat /\ ux \in Nat /\ uh \in Nat /\ Window \in Nat /\ Window > 0
      /\ Modulus \in Nat /\ Modulus = Window + Window /\ ux < Modulus /\ uh < Modulus
  BY UmConstants
<1> DEFINE dr == Dist(ur, Base(uh))  dx == Dist(ux, Base(uh))  dh == Dist(uh, Base(uh))
           running == reorderingTimer /\ dx > dr /\ (dx < Window \/ ux = uh)
           starts == ~running /\ dh > dr
<1>3. /\ reorderingTimer' = (running \/ starts)
      /\ vr' = [ur |-> ur, ux |-> IF starts THEN uh ELSE ux, uh |-> uh]
  BY <1>1 DEF Reordering, Inside
<1>4. dr = ur + Window - uh
  <2>1. uh <= ur + Window /\ ur < uh + Window
    BY <1>2
  <2> QED
    BY <2>1, Distances
<1>5. dh = Window
  <2>1. uh <= uh + Window /\ uh < uh + Window /\ uh + Window - uh = Window
    BY <1>2
  <2> QED
    BY <2>1, Distances
<1>6. /\ ux + Window < uh => dx = ux + Window - uh + Modulus
      /\ uh <= ux + Window /\ ux < uh + Window => dx = ux + Window - uh
  BY Distances
<1> HIDE DEF dr, dx, dh
<1>7. ASSUME ux <= uh
      PROVE  dx > dr /\ (dx < Window \/ ux = uh) => ur < ux /\ ux <= uh
  <2>1. CASE ux + Window < uh
    <3>1. dx = ux + Window - uh + Modulus /\ dx >= Window /\ ux # uh
      BY <1>2, <1>6, <2>1
    <3> QED
      BY <1>2, <3>1
  <2>2. CASE uh <= ux + Window
    <3>1. dx = ux + Window - uh
      BY <1>2, <1>6, <1>7, <2>2
    <3> QED
      BY <1>2, <1>4, <1>7, <3>1
  <2> QED
    BY <1>2, <2>1, <2>2
<1>8. dh > dr <=> ur < uh
  BY <1>2, <1>4, <1>5
<1>9. running => ur < ux /\ ux <= uh
  BY <1>1, <1>7
<1>10. running => ur < uh
  BY <1>2, <1>9
<1> HIDE DEF running
<1>11. CASE starts
  <2>1. ur < uh
    BY <1>8, <1>11
  <2>2. reorderingTimer' = TRUE /\ vr'.ux = uh
    BY <1>3, <1>11
  <2>3. vr'.ur = ur /\ vr'.uh = uh /\ uh <= uh
    BY <1>2, <1>3
  <2> QED
    BY <2>1, <2>2, <2>3 DEF TimerIs
<1>12. CASE ~starts
  <2>1. vr'.ux = ux /\ vr'.ur = ur /\ vr'.uh = uh
    BY <1>3, <1>12
  <2>2. running <=> ur < uh
    BY <1>8, <1>10, <1>12
  <2>3. reorderingTimer' = (ur < uh)
    BY <1>3, <1>12, <2>2
  <2>4. ur < uh => ur < ux /\ ux <= uh
    BY <1>9, <2>2
  <2> QED
    BY <2>1, <2>3, <2>4 DEF TimerIs
<1> QED
  BY <1>11, <1>12

\* What is behind VR(UH) is inside the window, as far as a window reaches.
LEMMA InsideIsBehind ==
  ASSUME NEW n \in SNs, NEW uh \in SNs, n < uh
  PROVE  Inside(n, uh) <=> uh <= n + Window
<1>1. /\ n \in Nat /\ uh \in Nat /\ Window \in Nat /\ Window > 0
      /\ Modulus \in Nat /\ Modulus = Window + Window /\ uh < Modulus
  BY UmConstants
<1> DEFINE d == Dist(n, Base(uh))
<1>2. /\ n + Window < uh => d = n + Window - uh + Modulus
      /\ uh <= n + Window /\ n < uh + Window => d = n + Window - uh
  BY Distances
<1> HIDE DEF d
<1>3. d < Window <=> uh <= n + Window
  <2>1. CASE n + Window < uh
    BY <1>1, <1>2, <2>1
  <2>2. CASE uh <= n + Window
    BY <1>1, <1>2, <2>2
  <2> QED
    BY <1>1, <2>1, <2>2
<1> QED
  BY <1>3, Zenon DEF Inside, d

\* Numbers just behind VR(UH) or beyond it that are not discarded.
LEMMA NotDiscarded ==
  ASSUME NEW n \in SNs, NEW ur \in SNs, NEW uh \in SNs, ur <= uh, uh <= ur + Window,
         n + 1 < Modulus, uh <= n + 2,
         ~(Dist(n, Base(uh)) < Dist(ur, Base(uh)))
  PROVE  /\ Inside(n, uh) <=> n < uh
         /\ n < uh => ur <= n
<1>1. /\ n \in Nat /\ ur \in Nat /\ uh \in Nat /\ Window \in Nat /\ Window > 0
      /\ Modulus \in Nat /\ Modulus = Window + Window /\ n < Modulus /\ uh < Modulus
  BY UmConstants
<1> DEFINE dn == Dist(n, Base(uh))  dr == Dist(ur, Base(uh))
<1>2. dr = ur + Window - uh
  <2>1. uh <= ur + Window /\ ur < uh + Window
    BY <1>1
  <2> QED
    BY <2>1, Distances
<1>3. /\ uh <= n + Window /\ n < uh + Window => dn = n + Window - uh
      /\ uh + Window <= n => dn = n - uh - Window
  BY Distances
<1>4. ~(dn < dr)
  OBVIOUS
<1> HIDE DEF dn, dr
<1>5. uh <= n + Window
  BY <1>1
<1>6. ~(uh + Window <= n)
  <2> SUFFICES ASSUME uh + Window <= n PROVE FALSE
    OBVIOUS
  <2>1. dn = n - uh - Window
    BY <1>3
  <2> QED
    BY <1>1, <1>2, <1>4, <2>1
<1>7. dn = n + Window - uh
  BY <1>1, <1>3, <1>5, <1>6
<1>8. (dn < Window <=> n < uh) /\ (n < uh => ur <= n)
  BY <1>1, <1>2, <1>4, <1>7
<1> QED
  BY <1>8, Zenon DEF Inside, dn

\* How a PDU that is not discarded is placed: it is put into the buffer, what
\* falls out of the window that ends at uh is taken out, and then what is in
\* sequence from low up to high.  Nothing in the buffer is behind VR(UR).
PlaceSteps(pdu, uh, low, high, placed, moved) ==
  /\ placed.reassembly = reassembly /\ placed.buffer \in Buffers
  /\ placed.buffer = [rxBuffer EXCEPT ![pdu.sn] = pdu.units]
  /\ \A n \in SNs : placed.buffer[n] # <<>> => vr.ur <= n /\ n < uh
  /\ moved = placed \/ moved = ReassembleOutsideWindow(placed, uh)
  /\ moved.buffer \in Buffers
  /\ \A n \in SNs : moved.buffer[n] # <<>> => vr.ur <= n /\ n < uh /\ uh <= n + Window
  /\ vr.ur <= low /\ low <= high /\ high <= uh /\ uh <= low + Window
  /\ low = vr.ur \/ low + Window = uh
  /\ moved.buffer[high] = <<>> /\ high = FirstMissing(moved.buffer, low)
  /\ vr.uh <= uh /\ (uh = vr.uh \/ uh = pdu.sn + 1)
  /\ rxBuffer' = ReassembleSnInterval(moved, low, high, uh).buffer
  /\ reassembly' = ReassembleSnInterval(moved, low, high, uh).reassembly
  /\ Reordering(high, uh)

LEMMA PlaceInSteps ==
  ASSUME UmTypeInv, WindowIs(rxBuffer, vr.ur, vr.uh),
         NEW pdu \in Pdus, pdu.sn + 1 < Modulus, vr.uh <= pdu.sn + 2,
         ~IsDiscarded(pdu.sn), Place(pdu)
  PROVE  \E uh \in SNs, low \in SNs, high \in SNs : \E placed, moved :
           PlaceSteps(pdu, uh, low, high, placed, moved)
<1>1. PICK sn \in SNs, a \in SNs, h \in SNs : sn = pdu.sn /\ a = vr.ur /\ h = vr.uh
  BY DEF UmTypeInv, TypeOK, Pdus
<1> DEFINE beyond == ~Inside(sn, h)
           uh == IF beyond THEN Plus(sn, 1) ELSE h
           placed == [buffer |-> [rxBuffer EXCEPT ![sn] = pdu.units], reassembly |-> reassembly]
           moved == IF beyond THEN ReassembleOutsideWindow(placed, uh) ELSE placed
           low == IF beyond /\ ~Inside(a, uh) THEN Base(uh) ELSE a
           high == FirstMissing(moved.buffer, low)
           done == ReassembleSnInterval(moved, low, high, uh)
<1>2. rxBuffer' = done.buffer /\ reassembly' = done.reassembly /\ Reordering(high, uh)
  BY <1>1 DEF Place
<1>3. /\ \A n \in SNs : n \in Nat /\ n < Modulus
      /\ Window \in Nat /\ Window > 0 /\ Modulus \in Nat /\ Modulus = Window + Window
      /\ sn \in Nat /\ a \in Nat /\ h \in Nat
  BY UmConstants
<1>4. /\ a <= h /\ h <= a + Window /\ sn + 1 < Modulus /\ h <= sn + 2
      /\ \A n \in SNs : rxBuffer[n] # <<>> => a < n /\ n < h
  BY <1>1 DEF WindowIs
<1>5. (Inside(sn, h) <=> sn < h) /\ (sn < h => a <= sn)
  <2>1. ~(Dist(sn, Base(h)) < Dist(a, Base(h)))
    BY <1>1 DEF IsDiscarded
  <2> QED
    BY <1>4, <2>1, NotDiscarded
<1>6. /\ uh \in SNs /\ (uh = h \/ uh = sn + 1) /\ sn < uh /\ h <= uh /\ a <= sn
      /\ beyond => uh = sn + 1
      /\ ~beyond => uh = h
  <2>1. Plus(sn, 1) = sn + 1 /\ Plus(sn, 1) \in SNs
    BY <1>4, SumOfNumbers
  <2>2. CASE beyond
    BY <1>3, <1>4, <1>5, <2>1, <2>2
  <2>3. CASE ~beyond
    BY <1>3, <1>4, <1>5, <2>3
  <2> QED
    BY <2>2, <2>3
<1>7. uh \in Nat /\ uh < Modulus
  BY <1>3, <1>6
<1>8. /\ placed.buffer \in Buffers
      /\ \A n \in SNs : placed.buffer[n] # <<>> => a <= n /\ n < uh
  <2>1. rxBuffer \in Buffers /\ pdu.units \in Seq(Units)
    BY DEF UmTypeInv, TypeOK, Buffers, Units, Pdus
  <2>2. placed.buffer \in Buffers /\ \A n \in SNs : n # sn => placed.buffer[n] = rxBuffer[n]
    BY <2>1 DEF Buffers
  <2> HIDE DEF placed
  <2>3. ASSUME NEW n \in SNs, placed.buffer[n] # <<>>
        PROVE  a <= n /\ n < uh
    <3>1. CASE n = sn
      BY <1>6, <3>1
    <3>2. CASE n # sn
      <4>1. a < n /\ n < h
        BY <1>4, <2>2, <2>3, <3>2
      <4> QED
        BY <1>3, <1>6, <1>7, <4>1
    <3> QED
      BY <3>1, <3>2
  <2> QED
    BY <2>2, <2>3
<1>9. /\ placed.reassembly = reassembly
      /\ placed.buffer = [rxBuffer EXCEPT ![pdu.sn] = pdu.units]
  BY <1>1
<1> HIDE DEF placed, uh, beyond
<1>10. /\ moved.buffer \in Buffers
       /\ \A n \in SNs : moved.buffer[n] # <<>> => a <= n /\ n < uh /\ uh <= n + Window
  <2>1. CASE ~beyond
    <3>1. moved = placed
      BY <2>1
    <3>2. ASSUME NEW n \in SNs, placed.buffer[n] # <<>> PROVE uh <= n + Window
      <4>1. uh <= a + Window /\ a <= n
        BY <1>4, <1>6, <1>8, <2>1, <3>2
      <4> QED
        BY <1>3, <1>7, <4>1
    <3> QED
      BY <1>8, <3>1, <3>2
  <2>2. CASE beyond
    <3> DEFINE left == ReassembleOutsideWindow(placed, uh).buffer
               first == Min({n \in Held(placed.buffer) : Inside(n, uh)} \cup {Modulus})
    <3>1. /\ left \in Buffers
          /\ first \in Nat /\ (first = Modulus \/ (first \in Held(placed.buffer) /\ Inside(first, uh)))
          /\ \A n \in SNs : left[n] = IF n < first THEN <<>> ELSE placed.buffer[n]
      BY <1>8, OutsideTakesOut
    <3>2. moved.buffer = left
      BY <2>2
    <3> HIDE DEF left, first
    <3>3. ASSUME NEW n \in SNs, left[n] # <<>>
          PROVE  placed.buffer[n] # <<>> /\ uh <= n + Window
      <4>1. ~(n < first) /\ placed.buffer[n] # <<>>
        BY <3>1, <3>3
      <4>2. first \in Held(placed.buffer) /\ Inside(first, uh)
        BY <1>3, <3>1, <4>1
      <4>3. first \in SNs /\ first < uh
        BY <1>8, <4>2 DEF Held
      <4>4. uh <= first + Window
        BY <1>6, <4>2, <4>3, InsideIsBehind
      <4> QED
        BY <1>3, <1>7, <3>1, <4>1, <4>4
    <3> QED
      BY <1>8, <3>1, <3>2, <3>3
  <2> QED
    BY <2>1, <2>2
<1>11. moved = placed \/ moved = ReassembleOutsideWindow(placed, uh)
  OBVIOUS
<1>12. /\ low \in SNs /\ a <= low /\ low <= uh /\ uh <= low + Window
       /\ low = a \/ low + Window = uh
  <2>1. a < uh
    BY <1>3, <1>6, <1>7
  <2>2. Inside(a, uh) <=> uh <= a + Window
    BY <1>6, <2>1, InsideIsBehind
  <2>3. CASE beyond /\ ~Inside(a, uh)
    <3>1. low = Base(uh) /\ a + Window < uh
      BY <1>3, <1>7, <2>2, <2>3
    <3>2. Window <= uh
      BY <1>3, <1>7, <3>1
    <3>3. Base(uh) \in SNs /\ Base(uh) = uh - Window
      BY <1>6, <3>2, Distances
    <3> QED
      BY <1>3, <1>7, <3>1, <3>3
  <2>4. CASE ~(beyond /\ ~Inside(a, uh))
    <3>1. low = a /\ uh <= a + Window
      BY <1>4, <1>6, <2>2, <2>4
    <3> QED
      BY <1>3, <1>6, <1>7, <2>1, <3>1
  <2> QED
    BY <2>3, <2>4
<1> HIDE DEF moved, low
<1>13. moved.buffer[uh] = <<>>
  BY <1>6, <1>7, <1>10
<1>14. high \in SNs /\ low <= high /\ high <= uh /\ moved.buffer[high] = <<>>
  BY <1>6, <1>12, <1>13, FirstMissingFound
<1>15. high = FirstMissing(moved.buffer, low)
  OBVIOUS
<1> HIDE DEF high
<1>16. PlaceSteps(pdu, uh, low, high, placed, moved)
  BY <1>1, <1>2, <1>6, <1>8, <1>9, <1>10, <1>11, <1>12, <1>14, <1>15 DEF PlaceSteps
<1> QED
  BY <1>6, <1>12, <1>14, <1>16

\* What remains behind it is held back.
LEMMA PlaceKeepsTheWindow ==
  ASSUME UmTypeInv, WindowIs(rxBuffer, vr.ur, vr.uh),
         TimerIs(reorderingTimer, vr.ur, vr.ux, vr.uh),
         NEW pdu \in Pdus, pdu.sn + 1 < Modulus, vr.uh <= pdu.sn + 2,
         ~IsDiscarded(pdu.sn), Place(pdu)
  PROVE  /\ vr'.uh = vr.uh \/ vr'.uh = pdu.sn + 1
         /\ WindowIs(rxBuffer', vr'.ur, vr'.uh)
         /\ TimerIs(reorderingTimer', vr'.ur, vr'.ux, vr'.uh)
<1>1. PICK a \in SNs, x \in SNs, h \in SNs : a = vr.ur /\ x = vr.ux /\ h = vr.uh
  BY DEF UmTypeInv, TypeOK
<1>2. PICK uh \in SNs, low \in SNs, high \in SNs : \E placed, moved :
        PlaceSteps(pdu, uh, low, high, placed, moved)
  BY PlaceInSteps
<1>3. PICK placed, moved : PlaceSteps(pdu, uh, low, high, placed, moved)
  BY <1>2
<1>4. /\ moved.buffer \in Buffers
      /\ \A n \in SNs : moved.buffer[n] # <<>> => a <= n /\ n < uh /\ uh <= n + Window
      /\ a <= low /\ low <= high /\ high <= uh /\ uh <= low + Window
      /\ low = a \/ low + Window = uh
      /\ moved.buffer[high] = <<>>
      /\ h <= uh /\ (uh = h \/ uh = pdu.sn + 1)
      /\ rxBuffer' = ReassembleSnInterval(moved, low, high, uh).buffer
      /\ Reordering(high, uh)
  BY <1>1, <1>3 DEF PlaceSteps
<1>5. /\ \A n \in SNs : n \in Nat /\ n < Modulus
      /\ Window \in Nat /\ a \in Nat /\ x \in Nat /\ h \in Nat
      /\ uh \in Nat /\ low \in Nat /\ high \in Nat
  BY UmConstants
<1>6. \A n \in SNs : rxBuffer'[n] = IF low <= n /\ n < high THEN <<>> ELSE moved.buffer[n]
  BY <1>4, IntervalLeaves
<1>7. WindowIs(rxBuffer', high, uh)
  <2>1. ASSUME NEW n \in SNs, rxBuffer'[n] # <<>>
        PROVE  high < n /\ n < uh
    <3>1. moved.buffer[n] # <<>> /\ ~(low <= n /\ n < high) /\ n # high /\ n \in Nat
      BY <1>4, <1>5, <1>6, <2>1
    <3>2. a <= n /\ n < uh /\ uh <= n + Window
      BY <1>4, <3>1
    <3>3. low <= n
      BY <1>4, <1>5, <3>1, <3>2
    <3> QED
      BY <1>5, <3>1, <3>2, <3>3
  <2>2. uh <= high + Window
    BY <1>4, <1>5
  <2> QED
    BY <1>4, <2>1, <2>2 DEF WindowIs
<1>8. reorderingTimer => vr.ux <= uh
  <2>1. reorderingTimer => x <= h
    BY <1>1, Zenon DEF TimerIs
  <2>2. x <= h => x <= uh
    BY <1>4, <1>5
  <2> QED
    BY <1>1, <2>1, <2>2
<1>9. /\ vr'.ur = high /\ vr'.uh = uh
      /\ TimerIs(reorderingTimer', high, vr'.ux, uh)
  <2>1. high <= uh /\ uh <= high + Window
    BY <1>4, <1>5
  <2> QED
    BY <1>4, <1>8, <2>1, ReorderingWatches
<1> QED
  BY <1>1, <1>4, <1>7, <1>9

\* t-Reordering expires: VR(UR) moves up to the next gap, or to VR(UH).
LEMMA ExpiryKeepsTheWindow ==
  ASSUME UmTypeInv, WindowIs(rxBuffer, vr.ur, vr.uh),
         TimerIs(reorderingTimer, vr.ur, vr.ux, vr.uh), ExpireReorderingTimer
  PROVE  /\ vr'.uh = vr.uh
         /\ WindowIs(rxBuffer', vr'.ur, vr'.uh)
         /\ TimerIs(reorderingTimer', vr'.ur, vr'.ux, vr'.uh)
<1>1. PICK a \in SNs, x \in SNs, h \in SNs : a = vr.ur /\ x = vr.ux /\ h = vr.uh
  BY DEF UmTypeInv, TypeOK
<1> DEFINE ur == Plus(x, Min({i \in 0 .. Modulus : i = Modulus \/ rxBuffer[Plus(x, i)] = <<>>}))
           rx == [buffer |-> rxBuffer, reassembly |-> reassembly]
           done == ReassembleSnInterval(rx, a, ur, h)
           again == Dist(h, Base(h)) > Dist(ur, Base(h))
<1>2. /\ reorderingTimer /\ rxBuffer' = done.buffer /\ reorderingTimer' = again
      /\ vr' = [vr EXCEPT !.ur = ur, !.ux = IF again THEN h ELSE @]
  BY <1>1 DEF ExpireReorderingTimer
<1>3. vr \in [ur : SNs, ux : SNs, uh : SNs] /\ rx.buffer \in Buffers
  BY DEF UmTypeInv, TypeOK, Buffers, Units
<1>4. /\ \A n \in SNs : n \in Nat /\ n < Modulus
      /\ Window \in Nat /\ Window > 0 /\ a \in Nat /\ x \in Nat /\ h \in Nat
  BY UmConstants
<1>5. /\ a <= h /\ h <= a + Window /\ a < h /\ a < x /\ x <= h
      /\ \A n \in SNs : rxBuffer[n] # <<>> => a < n /\ n < h
  BY <1>1, <1>2 DEF WindowIs, TimerIs
<1>6. rxBuffer[h] = <<>>
  BY <1>4, <1>5
<1>7. ur \in SNs /\ x <= ur /\ ur <= h /\ rxBuffer[ur] = <<>>
  BY <1>5, <1>6, GapFound
<1>8. rx.buffer = rxBuffer /\ rx.buffer \in Buffers /\ again \in BOOLEAN
  BY <1>3
<1> HIDE DEF ur, rx, again
<1>9. ur \in Nat /\ a <= ur /\ h <= ur + Window
  BY <1>4, <1>5, <1>7
<1>10. \A n \in SNs : done.buffer[n] = IF a <= n /\ n < ur THEN <<>> ELSE rxBuffer[n]
  <2>1. \A n \in SNs : done.buffer[n] = IF a <= n /\ n < ur THEN <<>> ELSE rx.buffer[n]
    <3>1. ur \in SNs /\ a <= ur /\ ur <= h /\ h <= a + Window
      BY <1>5, <1>7, <1>9
    <3>2. rx.buffer \in Buffers
      BY <1>8
    <3> QED
      BY <1>7, <3>1, <3>2, IntervalLeaves DEF done
  <2> QED
    BY <1>8, <2>1
<1> HIDE DEF done
<1>11. WindowIs(done.buffer, ur, h)
  <2>1. ASSUME NEW n \in SNs, done.buffer[n] # <<>>
        PROVE  ur < n /\ n < h
    <3>1. rxBuffer[n] # <<>> /\ ~(a <= n /\ n < ur) /\ n # ur /\ n \in Nat
      BY <1>4, <1>7, <1>10, <2>1
    <3>2. a < n /\ n < h
      BY <1>5, <3>1
    <3> QED
      BY <1>4, <1>9, <3>1, <3>2
  <2> QED
    BY <1>7, <1>9, <2>1 DEF WindowIs
<1>12. again <=> ur < h
  <2>1. Dist(ur, Base(h)) = ur + Window - h
    <3>1. h <= ur + Window /\ ur < h + Window
      BY <1>4, <1>7, <1>9
    <3> QED
      BY <1>7, <3>1, Distances
  <2>2. Dist(h, Base(h)) = Window
    <3>1. h <= h + Window /\ h < h + Window /\ h + Window - h = Window
      BY <1>4
    <3> QED
      BY <3>1, Distances
  <2>3. Dist(h, Base(h)) > Dist(ur, Base(h)) <=> ur < h
    BY <1>4, <1>9, <2>1, <2>2
  <2> QED
    BY <2>3 DEF again
<1>13. vr'.ur = ur /\ vr'.uh = h /\ (again => vr'.ux = h)
  BY <1>1, <1>2, <1>3
<1>14. reorderingTimer' = (ur < h) /\ (ur < h => vr'.ux = h)
  BY <1>2, <1>8, <1>12, <1>13
<1>15. TimerIs(reorderingTimer', ur, vr'.ux, h)
  BY <1>4, <1>14 DEF TimerIs
<1> QED
  BY <1>1, <1>2, <1>11, <1>13, <1>15

LEMMA UmNumbers ==
  ASSUME UmInv, NoWrap
  PROVE  /\ sequenceNumber \in Nat /\ sequenceNumber < Modulus
         /\ sequenceNumber + Len(txon) < Modulus
         /\ Len(txon) \in Nat /\ Len(dataPdus) \in Nat /\ offered \in Nat
         /\ vr.ur \in SNs /\ vr.uh \in SNs /\ vr.uh \in Nat
<1>1. /\ sequenceNumber \in Nat /\ offered \in Nat /\ offered <= NSdus
      /\ txon \in Seq(Units) /\ dataPdus \in Seq(Pdus) /\ vr.ur \in SNs /\ vr.uh \in SNs
  BY UmConstants DEF UmInv, UmTypeInv, TypeOK, Units
<1>2. Len(txon) \in Nat /\ Len(dataPdus) \in Nat /\ vr.uh \in Nat
  BY <1>1, LenProperties, UmConstants
<1> DEFINE rest == (NSdus - offered) * SduUnits  all == NSdus * SduUnits
<1>3. rest \in Nat
  <2>1. PICK k \in Nat : k = NSdus - offered
    BY <1>1, UmConstants
  <2>2. k * SduUnits \in Nat
    BY UmConstants
  <2> QED
    BY <2>1, <2>2
<1>4. all \in Nat /\ all < Modulus /\ sequenceNumber + Len(txon) + rest <= all
  BY UmConstants DEF UmInv, CountInv, NoWrap
<1> HIDE DEF rest, all
<1>5. sequenceNumber + Len(txon) < Modulus /\ sequenceNumber < Modulus
  BY <1>1, <1>2, <1>3, <1>4, UmConstants
<1> QED
  BY <1>1, <1>2, <1>5

LEMMA CountIsKept ==
  ASSUME UmInv, NoWrap, [Next]_vars
  PROVE  CountInv'
<1> DEFINE all == NSdus * SduUnits
<1>1. CASE DoTransmitPdcpPdu
  <2>1. /\ Len(txon') \in Nat /\ Len(txon') <= Len(txon) + SduUnits /\ offered' = offered + 1
        /\ offered' \in 0 .. NSdus /\ sequenceNumber' = sequenceNumber
    BY <1>1, SduIsHandedIn DEF UmInv, DoTransmitPdcpPdu
  <2>2. PICK k \in Nat : k = NSdus - (offered + 1) /\ NSdus - offered = k + 1
    <3>1. offered \in Nat /\ NSdus \in Nat /\ offered + 1 <= NSdus
      BY <2>1, UmNumbers, UmConstants
    <3>2. NSdus - (offered + 1) \in Nat /\ NSdus - offered = (NSdus - (offered + 1)) + 1
      BY <3>1
    <3> QED
      BY <3>2
  <2>3. (k + 1) * SduUnits = k * SduUnits + SduUnits /\ k * SduUnits \in Nat
    BY UmConstants
  <2>4. sequenceNumber + Len(txon) + (k + 1) * SduUnits <= all
    BY <2>2 DEF UmInv, CountInv
  <2> DEFINE p == k * SduUnits
  <2>5. sequenceNumber + Len(txon) + (p + SduUnits) <= all /\ p \in Nat /\ all \in Nat
    BY <2>3, <2>4, UmConstants
  <2> HIDE DEF p, all
  <2>6. sequenceNumber + Len(txon') + p <= all
    <3>1. PICK s \in Nat, m \in Nat, n \in Nat :
            s = sequenceNumber /\ m = Len(txon) /\ n = Len(txon') /\ n <= m + SduUnits
      BY <2>1, UmNumbers, UmConstants
    <3>2. s + m + (p + SduUnits) <= all /\ p \in Nat /\ all \in Nat /\ SduUnits \in Nat
      BY <2>5, <3>1, UmConstants
    <3>3. s + n + p <= all
      BY <3>1, <3>2
    <3> QED
      BY <3>1, <3>3
  <2> QED
    BY <2>1, <2>2, <2>6 DEF CountInv, p, all
<1>2. ASSUME NEW n \in Grants, DoNotifyTxOpportunity(n)
      PROVE  CountInv'
  <2>1. n \in Nat /\ offered' = offered
    BY <1>2, UmConstants DEF DoNotifyTxOpportunity
  <2>2. CASE n > 0 /\ txon # <<>> /\ SendPdu(Min({n, Len(txon)}))
    <3>1. /\ Len(txon) \in Nat /\ Len(txon') \in Nat /\ Len(txon') < Len(txon)
          /\ sequenceNumber' = Plus(sequenceNumber, 1)
      BY <2>1, <2>2, PduIsSent DEF UmInv
    <3>2. sequenceNumber \in SNs /\ sequenceNumber + 1 < Modulus
      BY <3>1, UmNumbers, UmConstants
    <3>3. sequenceNumber' = sequenceNumber + 1
      BY <3>1, <3>2, SumOfNumbers
    <3>4. PICK k \in Nat : k = NSdus - offered
      BY UmConstants DEF UmInv, UmTypeInv, TypeOK
    <3> DEFINE p == k * SduUnits
    <3>5. p \in Nat /\ all \in Nat /\ sequenceNumber + Len(txon) + p <= all
      BY <3>4, UmConstants DEF UmInv, CountInv
    <3> HIDE DEF p, all
    <3>6. (sequenceNumber + 1) + Len(txon') + p <= all
      BY <3>1, <3>5, UmNumbers
    <3> QED
      BY <2>1, <3>3, <3>4, <3>6 DEF CountInv, p, all
  <2>3. CASE n > 0 /\ txon = <<>> /\ report' = FALSE /\ UNCHANGED <<txon, sequenceNumber, rbsTimer, dataPdus>>
    BY <2>1, <2>3 DEF UmInv, CountInv
  <2>4. CASE n = 0 /\ UNCHANGED <<sender, dataPdus>>
    BY <2>1, <2>4 DEF UmInv, CountInv, sender
  <2> QED
    BY <1>2, <2>2, <2>3, <2>4 DEF DoNotifyTxOpportunity
<1>3. CASE UNCHANGED <<txon, sequenceNumber, offered>>
  BY <1>3 DEF UmInv, CountInv
<1>4. CASE ExpireRbsTimer
  BY <1>3, <1>4 DEF ExpireRbsTimer
<1>5. ASSUME NEW i \in 1 .. 2, DoReceivePdu(i)
      PROVE  CountInv'
  BY <1>3, <1>5 DEF DoReceivePdu, sender
<1>6. CASE ExpireReorderingTimer
  BY <1>3, <1>6 DEF ExpireReorderingTimer, sender
<1>7. CASE LosePdu
  BY <1>3, <1>7 DEF LosePdu, sender
<1>8. CASE UNCHANGED vars
  BY <1>3, <1>8 DEF vars, sender
<1> QED
  BY <1>1, <1>2, <1>4, <1>5, <1>6, <1>7, <1>8 DEF Next, TxOpportunity, ReceivePdu

\* What the queue knows about a PDU that arrives, and what is left of it.
LEMMA ArrivalLeavesTheQueue ==
  ASSUME UmInv, NoWrap, NEW i, DoReceivePdu(i)
  PROVE  /\ dataPdus[i].sn + 1 < Modulus /\ vr.uh <= dataPdus[i].sn + 2
         /\ \A uh \in Nat : uh = vr.uh \/ uh = dataPdus[i].sn + 1 =>
              QueueIs(dataPdus', sequenceNumber, uh)
<1>1. PICK pdus \in Seq(Pdus), number \in Nat, h \in Nat :
        pdus = dataPdus /\ number = sequenceNumber /\ h = vr.uh
  BY UmNumbers DEF UmInv, UmTypeInv
<1>2. /\ i \in DOMAIN pdus /\ pdus[i] \in Pdus /\ dataPdus' \in Seq(Pdus)
      /\ i = 1 \/ (i = 2 /\ ~pdus[1].overtaken)
      /\ dataPdus' = Others(i)
  BY <1>1, PduIsReceived DEF UmInv
<1>3. QueueIs(pdus, number, h) /\ number < Modulus
  BY <1>1, UmNumbers DEF UmInv
<1> DEFINE l == Len(pdus)
<1>4. l \in Nat /\ DOMAIN pdus = 1 .. l /\ i <= l /\ l >= 1 /\ 1 \in DOMAIN pdus
  BY <1>2, LenProperties
<1>5. pdus[1] \in Pdus /\ pdus # <<>>
  BY <1>4, ElementOfSeq, EmptySeq
<1>6. pdus[1].overtaken = TRUE \/ pdus[1].overtaken = FALSE
  BY <1>5 DEF Pdus
<1>7. /\ l <= number
      /\ pdus[1].overtaken = TRUE => l + 1 <= number /\ h <= number - l + 1 /\ pdus[1].sn = number - l - 1
      /\ pdus[1].overtaken = FALSE => h <= number - l /\ pdus[1].sn = number - l
  <2>1. /\ pdus[1].overtaken = TRUE => pdus[1].sn = (number - l) - 1
        /\ pdus[1].overtaken = FALSE => pdus[1].sn = (number - l) + 1 - 1
    BY <1>3, <1>4 DEF QueueIs, Numbered
  <2>2. /\ l <= number
        /\ pdus[1].overtaken = TRUE => l + 1 <= number /\ h <= number - l + 1
        /\ pdus[1].overtaken = FALSE => h <= number - l
    BY <1>3, <1>5 DEF QueueIs, Overtaken
  <2>3. (number - l) + 1 - 1 = number - l
    BY <1>4
  <2> QED
    BY <2>1, <2>2, <2>3
<1>8. CASE i = 1
  <2>1. dataPdus' = RemoveAt(pdus, 1)
    BY <1>1, <1>2, <1>8 DEF Others
  <2>2. Lengthened(dataPdus', pdus, 1, pdus[1])
    BY <1>4, <2>1, RemoveAtShortens
  <2>3. PICK others \in Seq(Pdus) : others = dataPdus'
    BY <1>2
  <2>4. Lengthened(others, pdus, 1, pdus[1])
    BY <2>2, <2>3
  <2>5. ASSUME NEW uh \in Nat, uh = h \/ uh = pdus[1].sn + 1
        PROVE  QueueIs(others, number, uh)
    BY <1>3, <2>4, <2>5, FirstLeaves
  <2>6. pdus[1].sn + 1 < Modulus /\ h <= pdus[1].sn + 2
    <3>1. Modulus \in Nat
      BY UmConstants
    <3> QED
      BY <1>3, <1>4, <1>6, <1>7, <3>1
  <2> QED
    BY <1>1, <1>8, <2>3, <2>5, <2>6
<1>9. CASE i = 2 /\ ~pdus[1].overtaken
  <2> DEFINE e == [pdus[1] EXCEPT !.overtaken = TRUE]  m == [pdus EXCEPT ![1] = e]
  <2>1. e \in Pdus /\ e.overtaken = TRUE /\ e.sn = pdus[1].sn
    BY <1>5 DEF Pdus
  <2>2. dataPdus' = RemoveAt(m, 2)
    BY <1>1, <1>2, <1>9 DEF Others
  <2> HIDE DEF e
  <2>3. /\ m \in Seq(Pdus) /\ Len(m) = Len(pdus) /\ m[1] = e
        /\ \A j \in 1 .. Len(pdus) : j # 1 => m[j] = pdus[j]
    <3>1. 1 \in 1 .. Len(pdus)
      BY <1>4
    <3> QED
      BY <2>1, <3>1, ExceptSeq
  <2>4. PICK marked \in Seq(Pdus) : marked = m
    BY <2>3
  <2>5. /\ Len(marked) = Len(pdus) /\ marked[1].overtaken = TRUE /\ marked[1].sn = pdus[1].sn
        /\ \A j \in 1 .. Len(pdus) : j # 1 => marked[j] = pdus[j]
        /\ dataPdus' = RemoveAt(marked, 2)
    BY <2>1, <2>2, <2>3, <2>4
  <2> HIDE DEF m
  <2>6. 2 \in DOMAIN marked /\ 2 \in DOMAIN pdus /\ pdus[1].overtaken = FALSE
    BY <1>2, <1>4, <1>6, <1>9, <2>5, LenProperties
  <2>7. PICK others \in Seq(Pdus) : others = dataPdus'
    BY <1>2
  <2>8. Lengthened(others, marked, 2, marked[2])
    BY <2>5, <2>6, <2>7, RemoveAtShortens
  <2>9. ASSUME NEW uh \in Nat, uh = h \/ uh = pdus[2].sn + 1
        PROVE  QueueIs(others, number, uh)
    BY <1>3, <2>5, <2>6, <2>8, <2>9, SecondLeaves
  <2>10. pdus[2].sn = (number - l) + 2 - 1
    <3>1. pdus[2].overtaken = FALSE
      BY <1>3, <2>6 DEF QueueIs, Numbered
    <3> QED
      BY <1>3, <2>6, <3>1 DEF QueueIs, Numbered
  <2>11. pdus[2].sn + 1 < Modulus /\ h <= pdus[2].sn + 2
    <3>1. Modulus \in Nat /\ l >= 2
      BY <1>4, <1>9, UmConstants
    <3> QED
      BY <1>3, <1>4, <1>7, <2>6, <2>10, <3>1
  <2> QED
    BY <1>1, <1>9, <2>7, <2>9, <2>11
<1> QED
  BY <1>2, <1>8, <1>9

LEMMA UmInvIsKept ==
  ASSUME UmInv, NoWrap, [Next]_vars
  PROVE  UmInv'
<1>1. UmTypeInv' /\ CountInv'
  BY UmTypesAreKept, CountIsKept DEF UmInv
<1>2. SUFFICES /\ QueueIs(dataPdus', sequenceNumber', vr'.uh)
               /\ WindowIs(rxBuffer', vr'.ur, vr'.uh)
               /\ TimerIs(reorderingTimer', vr'.ur, vr'.ux, vr'.uh)
  BY <1>1 DEF UmInv
<1>3. /\ UmTypeInv
      /\ QueueIs(dataPdus, sequenceNumber, vr.uh)
      /\ WindowIs(rxBuffer, vr.ur, vr.uh)
      /\ TimerIs(reorderingTimer, vr.ur, vr.ux, vr.uh)
  BY DEF UmInv
<1>4. CASE UNCHANGED <<rxBuffer, vr, reorderingTimer, dataPdus, sequenceNumber>>
  BY <1>3, <1>4
<1>5. CASE DoTransmitPdcpPdu
  BY <1>4, <1>5 DEF DoTransmitPdcpPdu, receiver
<1>6. ASSUME NEW n \in Grants, DoNotifyTxOpportunity(n)
      PROVE  /\ QueueIs(dataPdus', sequenceNumber', vr'.uh)
             /\ WindowIs(rxBuffer', vr'.ur, vr'.uh)
             /\ TimerIs(reorderingTimer', vr'.ur, vr'.ux, vr'.uh)
  <2>1. UNCHANGED <<rxBuffer, vr, reorderingTimer>> /\ n \in Nat
    BY <1>6, UmConstants DEF DoNotifyTxOpportunity, receiver
  <2>2. CASE n > 0 /\ txon # <<>> /\ SendPdu(Min({n, Len(txon)}))
    <3>1. PICK units \in Seq(Units) :
            dataPdus' = Append(dataPdus, [sn |-> sequenceNumber, units |-> units, overtaken |-> FALSE])
      BY <1>3, <2>1, <2>2, PduIsSent
    <3>2. sequenceNumber' = sequenceNumber + 1
      <4>1. Len(txon') \in Nat /\ Len(txon') < Len(txon) /\ sequenceNumber' = Plus(sequenceNumber, 1)
        BY <1>3, <2>1, <2>2, PduIsSent
      <4>2. sequenceNumber \in SNs /\ sequenceNumber + 1 < Modulus
        BY <4>1, UmNumbers, UmConstants
      <4> QED
        BY <4>1, <4>2, SumOfNumbers
    <3> DEFINE e == [sn |-> sequenceNumber, units |-> units, overtaken |-> FALSE]
    <3>3. e \in Pdus /\ e.sn = sequenceNumber /\ e.overtaken = FALSE
      BY UmNumbers, UmConstants DEF Pdus
    <3>4. PICK pdus \in Seq(Pdus), number \in Nat, h \in Nat :
            pdus = dataPdus /\ number = sequenceNumber /\ h = vr.uh
      BY UmNumbers DEF UmInv, UmTypeInv
    <3>5. PICK last \in Pdus : last = e
      BY <3>3
    <3>6. QueueIs(pdus, number, h) /\ last.sn = number /\ last.overtaken = FALSE
      BY <1>3, <3>3, <3>4, <3>5
    <3>7. QueueIs(Append(pdus, last), number + 1, h)
      BY <3>6, LastJoins
    <3> QED
      BY <1>3, <2>1, <3>1, <3>2, <3>4, <3>5, <3>7
  <2>3. CASE n > 0 /\ txon = <<>> /\ report' = FALSE /\ UNCHANGED <<txon, sequenceNumber, rbsTimer, dataPdus>>
    BY <1>4, <2>1, <2>3
  <2>4. CASE n = 0 /\ UNCHANGED <<sender, dataPdus>>
    BY <1>4, <2>1, <2>4 DEF sender
  <2> QED
    BY <1>6, <2>2, <2>3, <2>4 DEF DoNotifyTxOpportunity
<1>7. CASE ExpireRbsTimer
  BY <1>4, <1>7 DEF ExpireRbsTimer, receiver
<1>8. ASSUME NEW i \in 1 .. 2, DoReceivePdu(i)
      PROVE  /\ QueueIs(dataPdus', sequenceNumber', vr'.uh)
             /\ WindowIs(rxBuffer', vr'.ur, vr'.uh)
             /\ TimerIs(reorderingTimer', vr'.ur, vr'.ux, vr'.uh)
  <2>1. dataPdus[i] \in Pdus /\ sequenceNumber' = sequenceNumber
    BY <1>3, <1>8, PduIsReceived DEF DoReceivePdu, sender
  <2>2. /\ dataPdus[i].sn + 1 < Modulus /\ vr.uh <= dataPdus[i].sn + 2
        /\ \A uh \in Nat : uh = vr.uh \/ uh = dataPdus[i].sn + 1 =>
             QueueIs(dataPdus', sequenceNumber, uh)
    BY <1>8, ArrivalLeavesTheQueue
  <2>3. vr.uh \in Nat
    BY UmNumbers
  <2>4. CASE IsDiscarded(dataPdus[i].sn)
    <3>1. UNCHANGED <<rxBuffer, vr, reorderingTimer>>
      BY <1>8, <2>4 DEF DoReceivePdu, receiver
    <3> QED
      BY <1>3, <2>1, <2>2, <2>3, <3>1
  <2>5. CASE ~IsDiscarded(dataPdus[i].sn)
    <3>1. Place(dataPdus[i])
      BY <1>8, <2>5 DEF DoReceivePdu
    <3>2. PICK pdu \in Pdus : pdu = dataPdus[i]
      BY <2>1
    <3>3. pdu.sn + 1 < Modulus /\ vr.uh <= pdu.sn + 2 /\ ~IsDiscarded(pdu.sn) /\ Place(pdu)
      BY <2>2, <2>5, <3>1, <3>2
    <3>4. /\ vr'.uh = vr.uh \/ vr'.uh = pdu.sn + 1
          /\ WindowIs(rxBuffer', vr'.ur, vr'.uh)
          /\ TimerIs(reorderingTimer', vr'.ur, vr'.ux, vr'.uh)
      BY <1>3, <3>3, PlaceKeepsTheWindow
    <3>5. vr'.uh \in Nat
      BY <1>1, UmConstants DEF UmTypeInv, TypeOK
    <3>6. QueueIs(dataPdus', sequenceNumber, vr'.uh)
      BY <2>2, <3>2, <3>4, <3>5
    <3> QED
      BY <2>1, <3>4, <3>6
  <2> QED
    BY <2>4, <2>5
<1>9. CASE ExpireReorderingTimer
  <2>1. /\ vr'.uh = vr.uh
        /\ WindowIs(rxBuffer', vr'.ur, vr'.uh)
        /\ TimerIs(reorderingTimer', vr'.ur, vr'.ux, vr'.uh)
    BY <1>3, <1>9, ExpiryKeepsTheWindow
  <2>2. UNCHANGED <<dataPdus, sequenceNumber>>
    BY <1>9 DEF ExpireReorderingTimer, sender
  <2> QED
    BY <1>3, <2>1, <2>2
<1>10. CASE LosePdu
  <2>1. /\ dataPdus # <<>> /\ dataPdus' = Tail(dataPdus)
        /\ UNCHANGED <<rxBuffer, vr, reorderingTimer, sequenceNumber>>
    BY <1>10 DEF LosePdu, sender, receiver
  <2>2. PICK pdus \in Seq(Pdus), number \in Nat, h \in Nat :
          pdus = dataPdus /\ number = sequenceNumber /\ h = vr.uh
    BY UmNumbers DEF UmInv, UmTypeInv
  <2>3. Tail(pdus) \in Seq(Pdus) /\ Lengthened(Tail(pdus), pdus, 1, pdus[1])
    BY <2>1, <2>2, TailShortens
  <2>4. PICK others \in Seq(Pdus) : others = Tail(pdus)
    BY <2>3
  <2>5. QueueIs(pdus, number, h) /\ Lengthened(others, pdus, 1, pdus[1])
    BY <1>3, <2>2, <2>3, <2>4
  <2>6. QueueIs(others, number, h)
    BY <2>5, FirstLeaves
  <2> QED
    BY <1>3, <2>1, <2>2, <2>4, <2>6
<1>11. CASE UNCHANGED vars
  BY <1>4, <1>11 DEF vars, sender, receiver
<1> QED
  BY <1>5, <1>6, <1>7, <1>8, <1>9, <1>10, <1>11 DEF Next, TxOpportunity, ReceivePdu

LEMMA UmInvInitially ==
  ASSUME Init
  PROVE  UmInv
<1>1. UmTypeInv
  BY UmTypesInitially
<1>2. /\ Len(txon) = 0 /\ Len(dataPdus) = 0 /\ sequenceNumber = 0 /\ offered = 0
      /\ dataPdus = <<>> /\ DOMAIN dataPdus = {}
  <2>1. Len(<<>>) = 0
    BY EmptySeq
  <2> QED
    BY <2>1 DEF Init
<1>3. CountInv
  <2> DEFINE all == NSdus * SduUnits
  <2>1. NSdus - offered = NSdus /\ all \in Nat
    BY <1>2, UmConstants
  <2>2. sequenceNumber + Len(txon) + (NSdus - offered) * SduUnits = 0 + 0 + all
    BY <1>2, <2>1
  <2> HIDE DEF all
  <2>3. 0 + 0 + all <= all
    BY <2>1
  <2> QED
    BY <2>2, <2>3 DEF CountInv, all
<1>4. QueueIs(dataPdus, sequenceNumber, vr.uh)
  BY <1>2 DEF QueueIs, Overtaken, Numbered, Init
<1>5. WindowIs(rxBuffer, vr.ur, vr.uh) /\ TimerIs(reorderingTimer, vr.ur, vr.ux, vr.uh)
  <2>1. vr.ur = 0 /\ vr.ux = 0 /\ vr.uh = 0 /\ \A sn \in SNs : rxBuffer[sn] = <<>>
    BY DEF Init
  <2>2. WindowIs(rxBuffer, 0, 0)
    BY <2>1, UmConstants DEF WindowIs
  <2>3. reorderingTimer = FALSE /\ (0 < 0) = FALSE
    BY DEF Init
  <2>4. TimerIs(reorderingTimer, 0, 0, 0)
    BY <2>3 DEF TimerIs
  <2> QED
    BY <2>1, <2>2, <2>4
<1> QED
  BY <1>1, <1>3, <1>4, <1>5 DEF UmInv

LEMMA WatchedInTheWindow ==
  ASSUME UmInv
  PROVE  HeldBackIsWatched
<1>1. PICK a \in SNs, x \in SNs, h \in SNs : a = vr.ur /\ x = vr.ux /\ h = vr.uh
  BY DEF UmInv, UmTypeInv, TypeOK
<1>2. /\ a <= h /\ h <= a + Window
      /\ \A n \in SNs : rxBuffer[n] # <<>> => a < n /\ n < h
      /\ reorderingTimer = (a < h) /\ (a < h => a < x /\ x <= h)
  BY <1>1 DEF UmInv, WindowIs, TimerIs
<1>3. /\ \A n \in SNs : n \in Nat /\ n < Modulus
      /\ Window \in Nat /\ Window > 0 /\ a \in Nat /\ x \in Nat /\ h \in Nat
  BY UmConstants
<1>4. ASSUME NEW n \in SNs, a <= n, n <= h
      PROVE  Dist(n, Base(h)) = n + Window - h
  <2>1. n \in Nat /\ h <= n + Window /\ n < h + Window
    BY <1>2, <1>3, <1>4
  <2> QED
    BY <2>1, Distances
<1>5. Held(rxBuffer) # {} => reorderingTimer
  <2>1. ASSUME NEW n \in Held(rxBuffer) PROVE a < h
    <3>1. n \in SNs /\ rxBuffer[n] # <<>>
      BY DEF Held
    <3> QED
      BY <1>2, <1>3, <3>1
  <2>2. a < h => reorderingTimer
    BY <1>2, Zenon
  <2> QED
    BY <2>1, <2>2
<1>6. reorderingTimer => Dist(a, Base(h)) < Dist(x, Base(h)) /\ Dist(x, Base(h)) <= Window
  <2>1. reorderingTimer => a < h /\ a < x /\ x <= h
    BY <1>2, Zenon
  <2>2. ASSUME a < h, a < x, x <= h
        PROVE  Dist(a, Base(h)) < Dist(x, Base(h)) /\ Dist(x, Base(h)) <= Window
    <3>1. Dist(a, Base(h)) = a + Window - h /\ Dist(x, Base(h)) = x + Window - h
      BY <1>2, <1>3, <1>4, <2>2
    <3> QED
      BY <1>3, <2>2, <3>1
  <2> QED
    BY <2>1, <2>2
<1>7. ASSUME NEW n \in Held(rxBuffer)
      PROVE  Dist(a, Base(h)) < Dist(n, Base(h)) /\ Dist(n, Base(h)) < Window
  <2>1. n \in SNs /\ n \in Nat /\ a < n /\ n < h
    BY <1>2, <1>3 DEF Held
  <2>2. Dist(a, Base(h)) = a + Window - h /\ Dist(n, Base(h)) = n + Window - h
    BY <1>2, <1>3, <1>4, <2>1
  <2> QED
    BY <1>3, <2>1, <2>2
<1> QED
  BY <1>1, <1>5, <1>6, <1>7 DEF HeldBackIsWatched

\* DoReceivePdu and ExpireReorderingTimer of LteRlcUm forget nothing: what is
\* held back is inside the window and behind a gap that t-Reordering runs for,
\* whatever is lost or overtakes.  That holds as long as the sequence numbers
\* do not wrap around.
THEOREM HeldBackStaysWatched ==
  ASSUME NoWrap
  PROVE  Spec => []HeldBackIsWatched
<1>1. Init => UmInv
  BY UmInvInitially
<1>2. UmInv /\ [Next]_vars => UmInv'
  BY UmInvIsKept
<1>3. UmInv => HeldBackIsWatched
  BY WatchedInTheWindow
<1> QED
  BY <1>1, <1>2, <1>3, PTL DEF Spec

------------------------------------------------------------------------------
(* Units, and the pieces a chain of them is cut into. *)

Pieces == Seq(Units)
Cuts == [whole : Seq(Pieces), rest : Pieces]

\* The beginning of an SDU, up to a unit of it.
Beginning(u) == [k \in 1 .. u[2] |-> <<u[1], k>>]

\* The last SDU that is complete when a unit has been read.
Passed(u) == IF Ends(u) THEN u[1] ELSE u[1] - 1

\* The unit behind another in what is sent: the next of its SDU, or the first
\* of a later one.
Follows(u, v) == IF Ends(u) THEN Begins(v) /\ u[1] < v[1] ELSE v = <<u[1], u[2] + 1>>
Chain(c) == c # <<>> /\ \A i \in 1 .. Len(c) - 1 : Follows(c[i], c[i + 1])
Final(c) == c[Len(c)]

\* Whole SDUs with increasing numbers from low to high.
Number(piece) == piece[1][1]
WholeSdus(pieces, low, high) ==
  /\ \A i \in DOMAIN pieces :
       /\ pieces[i] = Sdu(Number(pieces[i])) /\ Number(pieces[i]) \in Nat
       /\ low <= Number(pieces[i]) /\ Number(pieces[i]) <= high
  /\ \A i, j \in DOMAIN pieces : i < j => Number(pieces[i]) < Number(pieces[j])

LEMMA UnitParts ==
  ASSUME NEW u \in Units
  PROVE  /\ u[1] \in Nat /\ u[1] \in 1 .. NSdus /\ u[2] \in Nat /\ u[2] \in 1 .. SduUnits
         /\ u = <<u[1], u[2]>>
         /\ Begins(u) <=> u[2] = 1
         /\ Ends(u) <=> u[2] = SduUnits
         /\ ~Ends(u) => u[2] < SduUnits
         /\ Passed(u) \in Nat /\ Passed(u) <= u[1] /\ u[1] <= Passed(u) + 1
         /\ Ends(u) => Passed(u) = u[1]
         /\ ~Ends(u) => Passed(u) = u[1] - 1
<1>1. /\ u[1] \in 1 .. NSdus /\ u[2] \in 1 .. SduUnits /\ u = <<u[1], u[2]>>
      /\ NSdus \in Nat /\ SduUnits \in Nat
  BY UmConstants DEF Units
<1>2. (Begins(u) <=> u[2] = 1) /\ (Ends(u) <=> u[2] = SduUnits)
  BY Zenon DEF Begins, Ends
<1>3. /\ Ends(u) => Passed(u) = u[1]
      /\ ~Ends(u) => Passed(u) = u[1] - 1
  BY DEF Passed
<1> QED
  BY <1>1, <1>2, <1>3

\* What follows a unit: nothing between is complete.
LEMMA FollowingUnit ==
  ASSUME NEW u \in Units, NEW v \in Units, Follows(u, v)
  PROVE  /\ Passed(u) < v[1] /\ Passed(u) <= Passed(v)
         /\ u[1] < v[1] \/ (u[1] = v[1] /\ u[2] < v[2])
         /\ Ends(u) => Begins(v) /\ u[1] < v[1]
         /\ ~Ends(u) => v[1] = u[1] /\ v[2] = u[2] + 1 /\ ~Begins(v)
<1>1. /\ u[1] \in Nat /\ v[1] \in Nat /\ u[2] \in 1 .. SduUnits /\ v[2] \in 1 .. SduUnits
      /\ SduUnits \in Nat
  BY UnitParts, UmConstants
<1>2. CASE Ends(u)
  <2>1. Begins(v) /\ u[1] < v[1]
    BY <1>2 DEF Follows
  <2>2. Passed(u) = u[1] /\ v[1] <= Passed(v) + 1 /\ Passed(v) \in Nat
    BY <1>2, UnitParts
  <2> QED
    BY <1>1, <1>2, <2>1, <2>2
<1>3. CASE ~Ends(u)
  <2>1. v = <<u[1], u[2] + 1>>
    BY <1>3 DEF Follows
  <2>2. v[1] = u[1] /\ v[2] = u[2] + 1
    BY <2>1
  <2>3. /\ Passed(u) = u[1] - 1 /\ v[1] <= Passed(v) + 1 /\ Passed(v) \in Nat
        /\ Begins(v) <=> v[2] = 1
    BY <1>3, UnitParts
  <2>4. ~Begins(v)
    BY <1>1, <2>2, <2>3
  <2> QED
    BY <1>1, <1>3, <2>2, <2>3, <2>4
<1> QED
  BY <1>2, <1>3

\* An SDU as the beginning of itself.
LEMMA BeginningOfSdu ==
  ASSUME NEW u \in Units
  PROVE  /\ Beginning(u) \in Pieces /\ Len(Beginning(u)) = u[2]
         /\ \A k \in 1 .. u[2] : Beginning(u)[k] = <<u[1], k>>
         /\ Ends(u) => Beginning(u) = Sdu(u[1]) /\ Number(Beginning(u)) = u[1]
<1>1. /\ u[1] \in 1 .. NSdus /\ u[2] \in 1 .. SduUnits /\ u[2] \in Nat /\ SduUnits \in Nat
      /\ Ends(u) <=> u[2] = SduUnits
  BY UnitParts, UmConstants
<1>2. \A k \in 1 .. u[2] : <<u[1], k>> \in Units
  BY <1>1 DEF Units
<1>3. Beginning(u) \in Pieces /\ Len(Beginning(u)) = u[2]
  BY <1>1, <1>2, IsASeq DEF Beginning, Pieces
<1>4. \A k \in 1 .. u[2] : Beginning(u)[k] = <<u[1], k>>
  BY DEF Beginning
<1>5. ASSUME Ends(u)
      PROVE  Beginning(u) = Sdu(u[1]) /\ Number(Beginning(u)) = u[1]
  <2>1. u[2] = SduUnits
    BY <1>1, <1>5
  <2>2. Beginning(u) = Sdu(u[1])
    BY <2>1 DEF Beginning, Sdu
  <2>3. Beginning(u)[1] = <<u[1], 1>>
    BY <1>1, <1>4
  <2> QED
    BY <2>2, <2>3 DEF Number
<1> QED
  BY <1>3, <1>4, <1>5

LEMMA BeginningGrows ==
  ASSUME NEW u \in Units, NEW v \in Units, v[1] = u[1], v[2] = u[2] + 1
  PROVE  Append(Beginning(u), v) = Beginning(v)
<1>1. /\ Beginning(u) \in Pieces /\ Len(Beginning(u)) = u[2] /\ u[2] \in Nat
      /\ \A k \in 1 .. u[2] : Beginning(u)[k] = <<u[1], k>>
      /\ Beginning(v) \in Pieces /\ Len(Beginning(v)) = u[2] + 1
      /\ \A k \in 1 .. u[2] + 1 : Beginning(v)[k] = <<u[1], k>>
      /\ v = <<u[1], u[2] + 1>>
  BY BeginningOfSdu, UnitParts
<1> DEFINE longer == Append(Beginning(u), v)
<1>2. /\ longer \in Pieces /\ Len(longer) = u[2] + 1 /\ longer[u[2] + 1] = v
      /\ \A k \in 1 .. u[2] : longer[k] = Beginning(u)[k]
  BY <1>1, AppendProperties DEF Pieces
<1> HIDE DEF longer
<1>3. \A k \in 1 .. u[2] + 1 : longer[k] = Beginning(v)[k]
  <2> TAKE k \in 1 .. u[2] + 1
  <2>1. k \in 1 .. u[2] \/ k = u[2] + 1
    BY <1>1
  <2>2. u[2] + 1 \in 1 .. u[2] + 1
    BY <1>1
  <2> QED
    BY <1>1, <1>2, <2>1, <2>2
<1>4. longer = Beginning(v)
  BY <1>1, <1>2, <1>3, SeqEqual DEF Pieces
<1> QED
  BY <1>4 DEF longer

LEMMA BeginningStarts ==
  ASSUME NEW v \in Units, Begins(v)
  PROVE  Append(<<>>, v) = Beginning(v)
<1>1. v[2] = 1 /\ v = <<v[1], v[2]>>
  BY UnitParts
<1>2. Append(<<>>, v) = <<v>>
  OBVIOUS
<1>3. Beginning(v) = [k \in 1 .. 1 |-> <<v[1], k>>]
  BY <1>1 DEF Beginning
<1>4. \A k \in 1 .. 1 : k = 1
  OBVIOUS
<1>5. [k \in 1 .. 1 |-> <<v[1], k>>] = [k \in 1 .. 1 |-> v]
  BY <1>1, <1>4
<1>6. <<v>> = [k \in 1 .. 1 |-> v]
  OBVIOUS
<1> QED
  BY <1>2, <1>3, <1>5, <1>6

\* One more SDU, or more of them.
LEMMA OneMoreSdu ==
  ASSUME NEW pieces \in Seq(Pieces), NEW low \in Nat, NEW high \in Nat,
         WholeSdus(pieces, low, high), NEW u \in Units, Ends(u), high < u[1], low <= u[1]
  PROVE  /\ Append(pieces, Beginning(u)) \in Seq(Pieces)
         /\ WholeSdus(Append(pieces, Beginning(u)), low, u[1])
<1> DEFINE l == Len(pieces)  more == Append(pieces, Beginning(u))
<1>1. /\ Beginning(u) \in Pieces /\ Beginning(u) = Sdu(u[1]) /\ Number(Beginning(u)) = u[1]
      /\ u[1] \in Nat
  BY BeginningOfSdu, UnitParts
<1>2. l \in Nat /\ DOMAIN pieces = 1 .. l
  BY LenProperties
<1>3. /\ more \in Seq(Pieces) /\ Len(more) = l + 1 /\ more[l + 1] = Beginning(u)
      /\ \A i \in 1 .. l : more[i] = pieces[i]
  BY <1>1, AppendProperties
<1>4. DOMAIN more = 1 .. l + 1
  BY <1>3, LenProperties
<1> HIDE DEF l, more
<1>5. \A i \in 1 .. l + 1 : i \in 1 .. l \/ i = l + 1
  BY <1>2
<1>6. ASSUME NEW i \in 1 .. l + 1
      PROVE  /\ more[i] = Sdu(Number(more[i])) /\ Number(more[i]) \in Nat
             /\ low <= Number(more[i]) /\ Number(more[i]) <= u[1]
  <2>1. CASE i \in 1 .. l
    <3>1. /\ pieces[i] = Sdu(Number(pieces[i])) /\ Number(pieces[i]) \in Nat
          /\ low <= Number(pieces[i]) /\ Number(pieces[i]) <= high
      BY <1>2, <2>1 DEF WholeSdus
    <3> QED
      BY <1>1, <1>3, <2>1, <3>1
  <2>2. CASE i = l + 1
    BY <1>1, <1>3, <2>2
  <2> QED
    BY <1>5, <2>1, <2>2
<1>7. ASSUME NEW i \in 1 .. l + 1, NEW j \in 1 .. l + 1, i < j
      PROVE  Number(more[i]) < Number(more[j])
  <2>1. i \in 1 .. l
    BY <1>2, <1>7
  <2>2. CASE j \in 1 .. l
    BY <1>2, <1>3, <1>7, <2>1, <2>2 DEF WholeSdus
  <2>3. CASE j = l + 1
    <3>1. Number(pieces[i]) <= high /\ Number(pieces[i]) = Number(more[i])
      BY <1>2, <1>3, <2>1 DEF WholeSdus
    <3> QED
      BY <1>1, <1>3, <1>6, <2>3, <3>1
  <2> QED
    BY <1>5, <2>2, <2>3
<1>8. WholeSdus(more, low, u[1])
  BY <1>4, <1>6, <1>7 DEF WholeSdus
<1> QED
  BY <1>3, <1>8 DEF more

\* What is left of a piece when a unit has been read.
Kept(u) == IF Ends(u) THEN <<>> ELSE Beginning(u)

NothingCut == [whole |-> <<>>, rest |-> <<>>]

\* The step Cut makes with each unit.
CutStep(acc, unit) ==
  IF Ends(unit)
  THEN [whole |-> Append(acc.whole, Append(acc.rest, unit)), rest |-> <<>>]
  ELSE [acc EXCEPT !.rest = Append(@, unit)]

LEMMA CutStepType ==
  ASSUME NEW acc \in Cuts, NEW unit \in Units
  PROVE  /\ CutStep(acc, unit) \in Cuts
         /\ Ends(unit) => /\ CutStep(acc, unit).whole = Append(acc.whole, Append(acc.rest, unit))
                          /\ CutStep(acc, unit).rest = <<>>
         /\ ~Ends(unit) => /\ CutStep(acc, unit).whole = acc.whole
                           /\ CutStep(acc, unit).rest = Append(acc.rest, unit)
<1>1. acc.whole \in Seq(Pieces) /\ acc.rest \in Seq(Units)
  BY DEF Cuts, Pieces
<1>2. Append(acc.rest, unit) \in Seq(Units)
  BY <1>1, AppendProperties
<1> DEFINE piece == Append(acc.rest, unit)
<1>3. piece \in Pieces
  BY <1>2 DEF Pieces
<1> HIDE DEF piece
<1>4. Append(acc.whole, piece) \in Seq(Pieces)
  BY <1>1, <1>3, AppendProperties
<1>5. <<>> \in Pieces
  BY EmptySeq DEF Pieces
<1>6. CASE Ends(unit)
  <2>1. CutStep(acc, unit) = [whole |-> Append(acc.whole, piece), rest |-> <<>>]
    BY <1>6 DEF CutStep, piece
  <2>2. CutStep(acc, unit) \in Cuts
    BY <1>4, <1>5, <2>1 DEF Cuts
  <2> QED
    BY <1>6, <2>1, <2>2 DEF piece
<1>7. CASE ~Ends(unit)
  <2>1. CutStep(acc, unit) = [acc EXCEPT !.rest = piece]
    BY <1>7 DEF CutStep, piece
  <2>2. CutStep(acc, unit) \in Cuts
    BY <1>3, <2>1 DEF Cuts
  <2>3. CutStep(acc, unit).whole = acc.whole /\ CutStep(acc, unit).rest = piece
    BY <2>1 DEF Cuts
  <2> QED
    BY <1>7, <2>2, <2>3 DEF piece
<1> QED
  BY <1>6, <1>7

LEMMA CutStepAtEnd ==
  ASSUME NEW acc \in Cuts, NEW unit \in Units, Ends(unit)
  PROVE  /\ CutStep(acc, unit).whole = Append(acc.whole, Append(acc.rest, unit))
         /\ CutStep(acc, unit).rest = <<>>
BY CutStepType

\* What cutting comes to, if with each unit a property leads to the next.
LEMMA CutByUnits ==
  ASSUME NEW units \in Pieces, NEW Good, NothingCut \in Good[0],
         \A k \in Nat : \A acc \in Cuts :
           k < Len(units) /\ acc \in Good[k] => CutStep(acc, units[k + 1]) \in Good[k + 1]
  PROVE  Cut(units) \in Cuts /\ Cut(units) \in Good[Len(units)]
<1> DEFINE n == Len(units)
           step == [x \in (1 .. n) \X Cuts |-> CutStep(x[2], units[x[1]])]
           choice == [T \in SUBSET (1 .. n) |-> Max(T)]
           rec(f) == [T \in SUBSET (1 .. n) |->
                        IF T = {} THEN NothingCut
                        ELSE LET x == Max(T) IN CutStep(f[T \ {x}], units[x])]
           fold == CHOOSE f : f = rec(f)
           Typed == [k \in Nat |-> {acc \in Cuts : acc \in Good[k]}]
<1>1. n \in Nat /\ DOMAIN units = 1 .. n /\ \A k \in 1 .. n : units[k] \in Units
  BY LenProperties DEF Pieces
<1>2. Cut(units) = fold[1 .. n]
  BY <1>1 DEF Cut, CutStep, NothingCut, FoldLeft, MapThenFoldSet
<1>3. NothingCut \in Cuts
  <2>1. <<>> \in Pieces /\ <<>> \in Seq(Pieces)
    BY EmptySeq DEF Pieces
  <2> QED
    BY <2>1 DEF NothingCut, Cuts
<1>4. fold = rec(fold)
  <2>1. step \in [(1 .. n) \X Cuts -> Cuts]
    BY <1>1, CutStepType
  <2>2. IsFiniteSet(1 .. n)
    BY <1>1, FS_Interval
  <2>3. \A T \in SUBSET (1 .. n) : T # {} => choice[T] = Max(T) /\ choice[T] \in T
    BY <1>1, MaxOfPositions
  <2>4. PICK it \in [SUBSET (1 .. n) -> Cuts] :
          IsRecursive(it, SUBSET (1 .. n), NothingCut, step, choice)
    <3> HIDE DEF step, choice, n
    <3> QED
      BY <1>3, <2>1, <2>2, <2>3, SetRecursion
  <2>5. ASSUME NEW T \in SUBSET (1 .. n), T # {}
        PROVE  step[<<choice[T], it[T \ {choice[T]}]>>] = CutStep(it[T \ {Max(T)}], units[Max(T)])
    <3>1. Max(T) \in 1 .. n /\ choice[T] = Max(T) /\ it[T \ {Max(T)}] \in Cuts
      BY <2>3, <2>4, <2>5
    <3> HIDE DEF choice
    <3> QED
      BY <3>1
  <2>6. \A T \in SUBSET (1 .. n) : it[T] = rec(it)[T]
    BY <2>4, <2>5 DEF IsRecursive
  <2>7. it = rec(it)
    BY <2>6
  <2> QED
    BY <2>7
<1>5. fold[{}] = NothingCut
  BY <1>4
<1>6. ASSUME NEW k \in Nat, k < n
      PROVE  fold[1 .. k + 1] = CutStep(fold[1 .. k], units[k + 1])
  <2>1. 1 .. k + 1 \in SUBSET (1 .. n) /\ 1 .. k + 1 # {}
    <3> HIDE DEF n
    <3> QED
      BY <1>1, <1>6, PrefixInside
  <2> DEFINE T == 1 .. k + 1
  <2> HIDE DEF fold
  <2>2. fold[T] = CutStep(fold[T \ {Max(T)}], units[Max(T)])
    BY <1>4, <2>1
  <2> QED
    BY <2>2, MaxOfPrefix
<1> HIDE DEF fold, rec, step, choice
<1>7. fold[1 .. n] \in Typed[n]
  <2>1. fold[{}] \in Typed[0]
    BY <1>3, <1>5
  <2>2. ASSUME NEW k \in Nat, k < n, fold[1 .. k] \in Typed[k]
        PROVE  fold[1 .. k + 1] \in Typed[k + 1]
    <3>1. fold[1 .. k] \in Cuts /\ fold[1 .. k] \in Good[k]
      BY <2>2
    <3>2. units[k + 1] \in Units
      BY <1>1, <2>2
    <3>3. CutStep(fold[1 .. k], units[k + 1]) \in Cuts
      BY <3>1, <3>2, CutStepType
    <3>4. CutStep(fold[1 .. k], units[k + 1]) \in Good[k + 1]
      BY <2>2, <3>1
    <3> QED
      BY <1>6, <2>2, <3>3, <3>4
  <2> HIDE DEF Typed, n
  <2> QED
    BY <1>1, <2>1, <2>2, PrefixInduction
<1> QED
  BY <1>1, <1>2, <1>7

LEMMA CutOfNothing == Cut(<<>>) = NothingCut
<1> DEFINE Good == [k \in Nat |-> {NothingCut}]
<1>1. <<>> \in Pieces /\ Len(<<>>) = 0
  BY EmptySeq DEF Pieces
<1>2. NothingCut \in Good[0] /\ \A k \in Nat : k < 0 => FALSE
  OBVIOUS
<1>3. \A k \in Nat : \A acc \in Cuts :
        k < Len(<<>>) /\ acc \in Good[k] => CutStep(acc, <<>>[k + 1]) \in Good[k + 1]
  BY <1>1, <1>2
<1>4. Good[0] = {NothingCut}
  OBVIOUS
<1> HIDE DEF Good
<1>5. Cut(<<>>) \in Good[Len(<<>>)]
  BY <1>1, <1>2, <1>3, CutByUnits
<1> QED
  BY <1>1, <1>4, <1>5

\* A chain that begins with an SDU is cut into whole SDUs and the beginning of
\* the one that is not complete.
LEMMA CutOfChain ==
  ASSUME NEW c \in Pieces, Chain(c), Begins(c[1])
  PROVE  /\ Cut(c) \in Cuts
         /\ WholeSdus(Cut(c).whole, c[1][1], Passed(Final(c)))
         /\ Cut(c).rest = Kept(Final(c))
<1> DEFINE n == Len(c)
           Read(acc, k) == /\ WholeSdus(acc.whole, c[1][1], Passed(c[k]))
                           /\ acc.rest = Kept(c[k]) /\ c[1][1] <= c[k][1]
           Good == [k \in Nat |-> {acc \in Cuts : IF k = 0 THEN acc = NothingCut ELSE Read(acc, k)}]
<1>1. /\ n \in Nat /\ n >= 1 /\ \A k \in 1 .. n : c[k] \in Units
      /\ \A k \in 1 .. n - 1 : Follows(c[k], c[k + 1])
  BY LenProperties, ElementOfSeq, EmptySeq DEF Chain, Pieces
<1>2. NothingCut \in Cuts
  <2>1. <<>> \in Pieces /\ <<>> \in Seq(Pieces)
    BY EmptySeq DEF Pieces
  <2> QED
    BY <2>1 DEF NothingCut, Cuts
<1>3. ASSUME NEW k \in Nat, k < n, NEW acc \in Cuts, acc \in Good[k]
      PROVE  CutStep(acc, c[k + 1]) \in Good[k + 1]
  <2>1. PICK z \in Units : z = c[k + 1]
    BY <1>1, <1>3
  <2>2. PICK first \in Units : first = c[1]
    BY <1>1
  <2> DEFINE low == first[1]
  <2>3. acc.whole \in Seq(Pieces) /\ low \in Nat /\ z[1] \in Nat
    BY <2>2, UnitParts DEF Cuts
  <2>4. \E high \in Nat : /\ WholeSdus(acc.whole, low, high) /\ high < z[1] /\ high <= Passed(z)
    <3>1. CASE k = 0
      <4>1. acc.whole = <<>>
        BY <1>3, <3>1 DEF NothingCut
      <4>2. WholeSdus(acc.whole, low, 0)
        BY <4>1 DEF WholeSdus
      <4>3. 0 < z[1] /\ 0 <= Passed(z)
        BY UnitParts
      <4> QED
        BY <4>2, <4>3
    <3>2. CASE k # 0
      <4>1. Read(acc, k) /\ c[k] \in Units /\ Follows(c[k], z)
        BY <1>1, <1>3, <2>1, <3>2
      <4>2. Passed(c[k]) < z[1] /\ Passed(c[k]) <= Passed(z) /\ Passed(c[k]) \in Nat
        BY <4>1, FollowingUnit, UnitParts
      <4> QED
        BY <2>2, <4>1, <4>2
    <3> QED
      BY <3>1, <3>2
  <2>5. Append(acc.rest, z) = Beginning(z) /\ low <= z[1]
    <3>1. CASE k = 0
      <4>1. acc.rest = <<>> /\ z = first
        BY <1>3, <2>1, <2>2, <3>1 DEF NothingCut
      <4>2. Append(<<>>, z) = Beginning(z)
        BY <2>2, <4>1, BeginningStarts
      <4> QED
        BY <2>3, <4>1, <4>2
    <3>2. CASE k # 0
      <4>1. PICK y \in Units : y = c[k]
        BY <1>1, <1>3, <3>2
      <4>2. acc.rest = Kept(y) /\ low <= y[1] /\ Follows(y, z)
        BY <1>1, <1>3, <2>1, <2>2, <3>2, <4>1
      <4>3. y[1] \in Nat
        BY UnitParts
      <4>4. CASE Ends(y)
        <5>1. Begins(z) /\ y[1] < z[1] /\ acc.rest = <<>>
          BY <4>2, <4>4, FollowingUnit DEF Kept
        <5>2. Append(<<>>, z) = Beginning(z)
          BY <5>1, BeginningStarts
        <5> QED
          BY <2>3, <4>2, <4>3, <5>1, <5>2
      <4>5. CASE ~Ends(y)
        <5>1. z[1] = y[1] /\ z[2] = y[2] + 1 /\ acc.rest = Beginning(y)
          BY <4>2, <4>5, FollowingUnit DEF Kept
        <5>2. Append(Beginning(y), z) = Beginning(z)
          BY <5>1, BeginningGrows
        <5> QED
          BY <4>2, <5>1, <5>2
      <4> QED
        BY <4>4, <4>5
    <3> QED
      BY <3>1, <3>2
  <2> DEFINE next == CutStep(acc, z)
  <2>6. next \in Cuts
    BY CutStepType
  <2>7. CASE Ends(z)
    <3>1. next.whole = Append(acc.whole, Beginning(z)) /\ next.rest = <<>>
      BY <2>5, <2>7, CutStepAtEnd
    <3> HIDE DEF next
    <3>2. PICK high \in Nat : WholeSdus(acc.whole, low, high) /\ high < z[1]
      BY <2>4
    <3> HIDE DEF low
    <3>3. WholeSdus(next.whole, low, z[1])
      BY <2>3, <2>5, <2>7, <3>1, <3>2, OneMoreSdu
    <3>4. Passed(z) = z[1] /\ Kept(z) = <<>>
      BY <2>7 DEF Passed, Kept
    <3>5. WholeSdus(next.whole, low, Passed(z)) /\ next.rest = Kept(z)
      BY <3>1, <3>3, <3>4
    <3> QED
      BY <2>1, <2>2, <2>5, <2>6, <3>5 DEF low, next
  <2>8. CASE ~Ends(z)
    <3>1. next.whole = acc.whole /\ next.rest = Beginning(z)
      BY <2>5, <2>8, CutStepType
    <3> HIDE DEF next
    <3>2. PICK high \in Nat : WholeSdus(acc.whole, low, high) /\ high <= Passed(z)
      BY <2>4
    <3>3. WholeSdus(next.whole, low, Passed(z))
      BY <3>1, <3>2, UnitParts DEF WholeSdus
    <3>4. Kept(z) = Beginning(z)
      BY <2>8 DEF Kept
    <3> QED
      BY <2>1, <2>2, <2>5, <2>6, <3>1, <3>3, <3>4 DEF next
  <2> QED
    BY <2>7, <2>8
<1>4. NothingCut \in Good[0]
  BY <1>2
<1>5. Good[n] \subseteq {acc \in Cuts : Read(acc, n)}
  BY <1>1
<1>6. Cut(c) \in Cuts /\ Cut(c) \in Good[n]
  <2>1. \A k \in Nat : \A acc \in Cuts :
          k < Len(c) /\ acc \in Good[k] => CutStep(acc, c[k + 1]) \in Good[k + 1]
    BY <1>3
  <2> HIDE DEF Good, Read
  <2> QED
    BY <1>4, <2>1, CutByUnits
<1> QED
  BY <1>5, <1>6 DEF Final

------------------------------------------------------------------------------
(* Reassembly. *)

LEMMA ChainUnits ==
  ASSUME NEW c \in Pieces, Chain(c)
  PROVE  /\ Len(c) \in Nat /\ Len(c) >= 1 /\ DOMAIN c = 1 .. Len(c)
         /\ \A i \in 1 .. Len(c) : c[i] \in Units
         /\ \A i \in 1 .. Len(c) - 1 : Follows(c[i], c[i + 1])
         /\ c[1] \in Units /\ Final(c) \in Units /\ c # <<>>
BY LenProperties, ElementOfSeq, EmptySeq DEF Chain, Pieces, Final

\* The numbers of the SDUs do not decrease along a chain.
LEMMA ChainAscends ==
  ASSUME NEW c \in Pieces, Chain(c), NEW i \in 1 .. Len(c), NEW j \in 1 .. Len(c), i <= j
  PROVE  c[i][1] <= c[j][1] /\ Passed(c[i]) <= Passed(c[j])
<1> DEFINE n == Len(c)
           Ascends(k, l) == c[k][1] <= c[l][1] /\ Passed(c[k]) <= Passed(c[l])
           Q == {m \in Nat : \A k \in 1 .. n : k + m <= n => Ascends(k, k + m)}
<1>1. /\ n \in Nat /\ \A k \in 1 .. n : c[k] \in Units
      /\ \A k \in 1 .. n - 1 : Follows(c[k], c[k + 1])
  BY ChainUnits
<1>2. \A k \in 1 .. n : c[k][1] \in Nat /\ Passed(c[k]) \in Nat
  BY <1>1, UnitParts
<1> HIDE DEF n
<1>3. 0 \in Q
  <2>1. \A k \in 1 .. n : Ascends(k, k)
    BY <1>2
  <2>2. \A k \in 1 .. n : k + 0 = k
    BY <1>1
  <2> HIDE DEF Ascends
  <2> QED
    BY <2>1, <2>2
<1>4. ASSUME NEW m \in Nat, m \in Q
      PROVE  m + 1 \in Q
  <2> SUFFICES ASSUME NEW k \in 1 .. n, k + (m + 1) <= n
               PROVE  Ascends(k, k + (m + 1))
    OBVIOUS
  <2> DEFINE l == k + m
  <2>1. /\ l \in 1 .. n - 1 /\ l \in 1 .. n /\ l + 1 \in 1 .. n /\ l <= n
        /\ k + (m + 1) = l + 1
    BY <1>1
  <2>2. Ascends(k, l)
    BY <1>4, <2>1
  <2> HIDE DEF l
  <2>3. c[l][1] <= c[l + 1][1] /\ Passed(c[l]) <= Passed(c[l + 1])
    <3>1. PICK u \in Units, v \in Units : u = c[l] /\ v = c[l + 1] /\ Follows(u, v)
      BY <1>1, <2>1
    <3>2. Passed(u) <= Passed(v) /\ (u[1] < v[1] \/ u[1] = v[1]) /\ u[1] \in Nat /\ v[1] \in Nat
      BY <3>1, FollowingUnit, UnitParts
    <3> QED
      BY <3>1, <3>2
  <2>4. /\ c[k][1] \in Nat /\ c[l][1] \in Nat /\ c[l + 1][1] \in Nat
        /\ Passed(c[k]) \in Nat /\ Passed(c[l]) \in Nat /\ Passed(c[l + 1]) \in Nat
    BY <1>2, <2>1
  <2>5. c[k][1] <= c[l + 1][1]
    <3>1. PICK x \in Nat, y \in Nat, z \in Nat :
            x = c[k][1] /\ y = c[l][1] /\ z = c[l + 1][1]
      BY <2>4
    <3>2. x <= y
      BY <2>2, <3>1
    <3>3. y <= z
      BY <2>3, <3>1
    <3>4. x <= z
      BY <3>2, <3>3
    <3> QED
      BY <3>1, <3>4
  <2>6. Passed(c[k]) <= Passed(c[l + 1])
    <3>1. PICK x \in Nat, y \in Nat, z \in Nat :
            x = Passed(c[k]) /\ y = Passed(c[l]) /\ z = Passed(c[l + 1])
      BY <2>4
    <3>2. x <= y
      BY <2>2, <3>1
    <3>3. y <= z
      BY <2>3, <3>1
    <3>4. x <= z
      BY <3>2, <3>3
    <3> QED
      BY <3>1, <3>4
  <2> QED
    BY <2>1, <2>5, <2>6
<1>5. Nat \subseteq Q
  <2> HIDE DEF Q
  <2> QED
    BY <1>3, <1>4, Induction
<1>6. j - i \in Nat /\ i + (j - i) = j /\ j <= n /\ i \in 1 .. n
  BY <1>1 DEF n
<1>7. j - i \in Q
  BY <1>5, <1>6
<1> QED
  BY <1>6, <1>7

LEMMA ChainsJoined ==
  ASSUME NEW c \in Pieces, Chain(c), NEW d \in Pieces, Chain(d), Follows(Final(c), d[1])
  PROVE  /\ c \o d \in Pieces /\ Chain(c \o d)
         /\ (c \o d)[1] = c[1] /\ Final(c \o d) = Final(d)
<1> DEFINE joined == c \o d  l == Len(c)  n == Len(d)
<1>1. /\ joined \in Seq(Units) /\ Len(joined) = l + n
      /\ \A i \in 1 .. l : joined[i] = c[i]
      /\ \A i \in 1 .. n : joined[l + i] = d[i]
  BY JoinedParts DEF Pieces
<1>2. /\ l \in Nat /\ l >= 1 /\ n \in Nat /\ n >= 1
      /\ \A i \in 1 .. l - 1 : Follows(c[i], c[i + 1])
      /\ \A i \in 1 .. n - 1 : Follows(d[i], d[i + 1])
      /\ Follows(c[l], d[1])
  BY ChainUnits DEF Final
<1>3. Final(d) = d[n]
  BY DEF Final
<1> HIDE DEF joined, l, n
<1>4. ASSUME NEW k \in 1 .. l + n - 1 PROVE Follows(joined[k], joined[k + 1])
  <2>1. CASE k < l
    <3>1. k \in 1 .. l /\ k + 1 \in 1 .. l /\ k \in 1 .. l - 1
      BY <1>2, <2>1
    <3> QED
      BY <1>1, <1>2, <3>1
  <2>2. CASE k = l
    <3>1. l \in 1 .. l /\ 1 \in 1 .. n
      BY <1>2
    <3> QED
      BY <1>1, <1>2, <2>2, <3>1
  <2>3. CASE k > l
    <3>1. PICK i \in 1 .. n - 1 : k = l + i
      <4>1. k - l \in 1 .. n - 1 /\ k = l + (k - l)
        BY <1>2, <2>3
      <4> QED
        BY <4>1
    <3>2. i \in 1 .. n /\ i + 1 \in 1 .. n /\ k + 1 = l + (i + 1)
      BY <1>2, <3>1
    <3>3. joined[k] = d[i] /\ joined[k + 1] = d[i + 1]
      BY <1>1, <3>1, <3>2
    <3> QED
      BY <1>2, <3>3
  <2> QED
    BY <1>2, <2>1, <2>2, <2>3
<1>5. joined # <<>> /\ joined[1] = c[1] /\ joined[l + n] = d[n]
  <2>1. 1 \in 1 .. l /\ n \in 1 .. n /\ l + n # 0
    BY <1>2
  <2> QED
    BY <1>1, <2>1, EmptySeq
<1> QED
  BY <1>1, <1>3, <1>4, <1>5 DEF joined, Chain, Final, Pieces

LEMMA ChainIsSplit ==
  ASSUME NEW c \in Pieces, Chain(c), NEW m \in 1 .. Len(c)
  PROVE  LET first == SubSeq(c, 1, m)  rest == SubSeq(c, m + 1, Len(c))
         IN /\ first \in Pieces /\ rest \in Pieces /\ Len(first) = m
            /\ Chain(first) /\ first[1] = c[1] /\ Final(first) = c[m]
            /\ rest = <<>> => Final(first) = Final(c)
            /\ rest # <<>> => Chain(rest) /\ Final(rest) = Final(c) /\ Follows(Final(first), rest[1])
<1> DEFINE n == Len(c)  first == SubSeq(c, 1, m)  rest == SubSeq(c, m + 1, n)
<1>1. /\ n \in Nat /\ m \in Nat /\ 1 <= m /\ m <= n /\ m \in 0 .. n
      /\ \A i \in 1 .. n - 1 : Follows(c[i], c[i + 1])
  BY ChainUnits
<1>2. /\ first \in Seq(Units) /\ Len(first) = m /\ \A i \in 1 .. m : first[i] = c[i]
      /\ rest \in Seq(Units) /\ Len(rest) = n - m
      /\ \A i \in 1 .. n - m : rest[i] = c[m + i]
  BY <1>1, TwoParts DEF Pieces
<1>3. Final(c) = c[n]
  BY DEF Final
<1> HIDE DEF first, rest, n
<1>4. Chain(first) /\ first[1] = c[1] /\ Final(first) = c[m]
  <2>1. \A i \in 1 .. m - 1 : i \in 1 .. m /\ i + 1 \in 1 .. m /\ i \in 1 .. n - 1
    BY <1>1
  <2>2. \A i \in 1 .. m - 1 : Follows(first[i], first[i + 1])
    BY <1>1, <1>2, <2>1
  <2>3. 1 \in 1 .. m /\ m \in 1 .. m
    BY <1>1
  <2>4. first # <<>>
    BY <1>1, <1>2, EmptySeq
  <2> QED
    BY <1>2, <2>2, <2>3, <2>4 DEF Chain, Final
<1>5. rest = <<>> => m = n
  BY <1>1, <1>2, EmptySeq
<1>6. ASSUME rest # <<>>
      PROVE  Chain(rest) /\ Final(rest) = c[n] /\ Follows(c[m], rest[1])
  <2>1. n - m # 0
    BY <1>1, <1>2, <1>6, EmptySeq
  <2>2. /\ 1 \in 1 .. n - m /\ n - m \in 1 .. n - m /\ m + (n - m) = n /\ m \in 1 .. n - 1
    BY <1>1, <2>1
  <2>3. ASSUME NEW i \in 1 .. n - m - 1 PROVE Follows(rest[i], rest[i + 1])
    <3>1. /\ i \in 1 .. n - m /\ i + 1 \in 1 .. n - m /\ m + i \in 1 .. n - 1
          /\ m + (i + 1) = (m + i) + 1
      BY <1>1
    <3> QED
      BY <1>1, <1>2, <3>1
  <2> QED
    BY <1>1, <1>2, <1>6, <2>2, <2>3 DEF Chain, Final
<1> QED
  BY <1>2, <1>3, <1>4, <1>5, <1>6 DEF first, rest, n, Pieces

\* The beginning of an SDU, up to a unit of it.
LEMMA BeginningIsChain ==
  ASSUME NEW x \in Units
  PROVE  LET c == Beginning(x)
         IN c \in Pieces /\ Chain(c) /\ Begins(c[1]) /\ c[1][1] = x[1] /\ Final(c) = x
<1> DEFINE c == Beginning(x)  l == x[2]
<1>1. /\ c \in Pieces /\ Len(c) = l /\ \A k \in 1 .. l : c[k] = <<x[1], k>>
      /\ l \in 1 .. SduUnits /\ SduUnits \in Nat /\ x = <<x[1], l>>
  BY BeginningOfSdu, UnitParts, UmConstants
<1> HIDE DEF c, l
<1>2. ASSUME NEW k \in 1 .. l - 1 PROVE Follows(c[k], c[k + 1])
  <2>1. k \in 1 .. l /\ k + 1 \in 1 .. l /\ k # SduUnits
    BY <1>1
  <2>2. c[k] = <<x[1], k>> /\ c[k + 1] = <<x[1], k + 1>>
    BY <1>1, <2>1
  <2> QED
    BY <2>1, <2>2 DEF Follows, Ends
<1>3. 1 \in 1 .. l /\ l \in 1 .. l /\ c # <<>>
  BY <1>1, EmptySeq
<1>4. c[1] = <<x[1], 1>> /\ c[l] = x
  BY <1>1, <1>3
<1>5. Begins(c[1]) /\ c[1][1] = x[1]
  BY <1>4 DEF Begins
<1> QED
  BY <1>1, <1>2, <1>3, <1>4, <1>5 DEF c, Chain, Final

LEMMA SduIsChain ==
  ASSUME NEW s \in 1 .. NSdus
  PROVE  /\ Sdu(s) \in Pieces /\ Chain(Sdu(s))
         /\ Begins(Sdu(s)[1]) /\ Sdu(s)[1][1] = s
         /\ Ends(Final(Sdu(s))) /\ Final(Sdu(s))[1] = s
<1>1. PICK x \in Units : x = <<s, SduUnits>>
  <2>1. <<s, SduUnits>> \in Units
    BY UmConstants DEF Units
  <2> QED
    BY <2>1
<1>2. x[1] = s /\ x[2] = SduUnits /\ Ends(x)
  BY <1>1 DEF Ends
<1>3. Beginning(x) = Sdu(s)
  BY <1>2, BeginningOfSdu
<1> QED
  BY <1>2, <1>3, BeginningIsChain

\* What was kept of an SDU and the chain that goes on with it are one chain.
LEMMA ChainIsJoined ==
  ASSUME NEW x \in Units, NEW c \in Pieces, Chain(c), Follows(x, c[1])
  PROVE  LET joined == Beginning(x) \o c
         IN /\ joined \in Pieces /\ Chain(joined) /\ Begins(joined[1])
            /\ joined[1][1] = x[1] /\ Final(joined) = Final(c)
<1>1. PICK b \in Pieces :
        /\ b = Beginning(x) /\ Chain(b) /\ Begins(b[1]) /\ b[1][1] = x[1] /\ Final(b) = x
  BY BeginningIsChain
<1>2. /\ b \o c \in Pieces /\ Chain(b \o c)
      /\ (b \o c)[1] = b[1] /\ Final(b \o c) = Final(c)
  BY <1>1, ChainsJoined
<1> QED
  BY <1>1, <1>2

\* What is behind the SDU a chain begins in the middle of.
LEMMA ChainWithoutHead ==
  ASSUME NEW c \in Pieces, Chain(c)
  PROVE  LET rest == WithoutHead(c)
         IN /\ rest \in Pieces
            /\ rest = <<>> \/ (/\ Chain(rest) /\ Begins(rest[1])
                              /\ c[1][1] < rest[1][1] /\ Final(rest) = Final(c))
<1> DEFINE E == {i \in DOMAIN c : Ends(c[i])}  e == Min(E)
           rest == SubSeq(c, e + 1, Len(c))
<1>1. /\ Len(c) \in Nat /\ Len(c) >= 1 /\ DOMAIN c = 1 .. Len(c)
      /\ \A i \in 1 .. Len(c) : c[i] \in Units
  BY ChainUnits
<1>2. CASE E = {}
  <2>1. WithoutHead(c) = <<>>
    BY <1>2 DEF WithoutHead
  <2> QED
    BY <2>1, EmptySeq DEF Pieces
<1>3. CASE E # {}
  <2>1. WithoutHead(c) = rest
    BY <1>3 DEF WithoutHead
  <2>2. e \in E
    <3>1. E \subseteq Nat
      BY <1>1
    <3> HIDE DEF E
    <3> QED
      BY <1>3, <3>1, MinOfNumbers
  <2>3. e \in 1 .. Len(c) /\ Ends(c[e])
    BY <1>1, <2>2
  <2> HIDE DEF E, e
  <2>4. /\ rest \in Pieces
        /\ rest # <<>> => Chain(rest) /\ Final(rest) = Final(c) /\ Follows(c[e], rest[1])
    BY <2>3, ChainIsSplit
  <2> HIDE DEF rest
  <2>5. ASSUME rest # <<>> PROVE Begins(rest[1]) /\ c[1][1] < rest[1][1]
    <3>1. PICK u \in Units, v \in Units, f \in Units : u = c[e] /\ v = rest[1] /\ f = c[1]
      BY <1>1, <2>3, <2>4, <2>5, ChainUnits
    <3>2. Begins(v) /\ u[1] < v[1]
      BY <2>3, <2>4, <2>5, <3>1 DEF Follows
    <3>3. 1 \in 1 .. Len(c) /\ 1 <= e
      BY <1>1, <2>3
    <3>4. c[1][1] <= c[e][1]
      BY <2>3, <3>3, ChainAscends
    <3>5. f[1] \in Nat /\ u[1] \in Nat /\ v[1] \in Nat
      BY UnitParts
    <3> QED
      BY <3>1, <3>2, <3>4, <3>5
  <2> QED
    BY <2>1, <2>4, <2>5
<1> QED
  BY <1>2, <1>3

\* SDUs delivered, and more of them behind.
LEMMA MoreSdus ==
  ASSUME NEW d \in Seq(Pieces), NEW p \in Nat, WholeSdus(d, 0, p),
         NEW w \in Seq(Pieces), NEW low \in Nat, NEW high \in Nat, WholeSdus(w, low, high),
         p < low, p <= high
  PROVE  d \o w \in Seq(Pieces) /\ WholeSdus(d \o w, 0, high)
<1> DEFINE l == Len(d)  n == Len(w)  all == d \o w
<1>1. /\ all \in Seq(Pieces) /\ Len(all) = l + n /\ l \in Nat /\ n \in Nat
      /\ \A i \in 1 .. l : all[i] = d[i]
      /\ \A i \in 1 .. n : all[l + i] = w[i]
      /\ \A k \in 1 .. l + n : k \in 1 .. l \/ \E i \in 1 .. n : k = l + i
  BY JoinedParts
<1>2. DOMAIN d = 1 .. l /\ DOMAIN w = 1 .. n /\ DOMAIN all = 1 .. l + n
  BY <1>1, LenProperties
<1> HIDE DEF l, n, all
<1>3. \A i \in 1 .. l : /\ all[i] = Sdu(Number(all[i])) /\ Number(all[i]) \in Nat
                       /\ 0 <= Number(all[i]) /\ Number(all[i]) <= p
  BY <1>1, <1>2 DEF WholeSdus
<1>4. \A i \in 1 .. n : /\ all[l + i] = Sdu(Number(all[l + i])) /\ Number(all[l + i]) \in Nat
                       /\ low <= Number(all[l + i]) /\ Number(all[l + i]) <= high
  BY <1>1, <1>2 DEF WholeSdus
<1>5. ASSUME NEW k \in 1 .. l + n
      PROVE  /\ all[k] = Sdu(Number(all[k])) /\ Number(all[k]) \in Nat
             /\ 0 <= Number(all[k]) /\ Number(all[k]) <= high
  <2>1. CASE k \in 1 .. l
    BY <1>3, <2>1
  <2>2. CASE \E i \in 1 .. n : k = l + i
    BY <1>4, <2>2
  <2> QED
    BY <1>1, <2>1, <2>2
<1>6. ASSUME NEW k \in 1 .. l + n, NEW m \in 1 .. l + n, k < m
      PROVE  Number(all[k]) < Number(all[m])
  <2>1. CASE m \in 1 .. l
    <3>1. k \in 1 .. l
      BY <1>1, <1>6, <2>1
    <3> QED
      BY <1>1, <1>2, <1>6, <2>1, <3>1 DEF WholeSdus
  <2>2. CASE k \in 1 .. l /\ \E i \in 1 .. n : m = l + i
    <3>1. Number(all[k]) \in Nat /\ Number(all[k]) <= p
      BY <1>3, <2>2
    <3>2. Number(all[m]) \in Nat /\ low <= Number(all[m])
      BY <1>4, <2>2
    <3> QED
      BY <3>1, <3>2
  <2>3. CASE (\E i \in 1 .. n : k = l + i) /\ (\E i \in 1 .. n : m = l + i)
    <3>1. PICK i \in 1 .. n, j \in 1 .. n : k = l + i /\ m = l + j
      BY <2>3
    <3>2. i < j
      BY <1>1, <1>6, <3>1
    <3>3. Number(w[i]) < Number(w[j])
      BY <1>2, <3>2 DEF WholeSdus
    <3> QED
      BY <1>1, <3>1, <3>3
  <2>4. CASE (\E i \in 1 .. n : k = l + i) /\ m \in 1 .. l
    BY <1>1, <1>6, <2>4
  <2> QED
    BY <1>1, <2>1, <2>2, <2>3, <2>4
<1>7. WholeSdus(all, 0, high)
  BY <1>2, <1>5, <1>6 DEF WholeSdus
<1> QED
  BY <1>1, <1>7 DEF all

\* States of the reassembly.
States == [expected : SNs, keepS0 : Pieces, delivered : Seq(Pieces), failed : BOOLEAN]

LEMMA CutType ==
  ASSUME NEW units \in Pieces
  PROVE  Cut(units) \in Cuts /\ Cut(units).whole \in Seq(Pieces) /\ Cut(units).rest \in Pieces
<1> DEFINE Good == [k \in Nat |-> Cuts]
<1>1. NothingCut \in Cuts
  <2>1. <<>> \in Pieces /\ <<>> \in Seq(Pieces)
    BY EmptySeq DEF Pieces
  <2> QED
    BY <2>1 DEF NothingCut, Cuts
<1>2. Len(units) \in Nat /\ \A k \in Nat : k < Len(units) => units[k + 1] \in Units
  BY LenProperties DEF Pieces
<1>3. \A k \in Nat : Good[k] = Cuts
  OBVIOUS
<1> HIDE DEF Good
<1>4. \A k \in Nat : \A acc \in Cuts :
        k < Len(units) /\ acc \in Good[k] => CutStep(acc, units[k + 1]) \in Good[k + 1]
  BY <1>2, <1>3, CutStepType
<1>5. Cut(units) \in Cuts
  BY <1>1, <1>3, <1>4, CutByUnits
<1> QED
  BY <1>5 DEF Cuts

\* What is cut in the step Reassemble makes.
CutFrom(rs, sn, units) ==
  IF rs.keepS0 # <<>> /\ sn = rs.expected /\ ~Begins(units[1]) THEN rs.keepS0 \o units
  ELSE IF Begins(units[1]) THEN units ELSE WithoutHead(units)
Impossible(rs, sn, units) == rs.keepS0 # <<>> /\ sn = rs.expected /\ Begins(units[1])

LEMMA ReassembleIs ==
  ASSUME NEW rs \in States, NEW sn \in SNs, NEW units \in Pieces
  PROVE  LET next == Reassemble(rs, sn, units)
             cut == Cut(CutFrom(rs, sn, units))
         IN /\ next.expected = Plus(sn, 1)
            /\ Impossible(rs, sn, units) =>
                 next.failed = TRUE /\ next.keepS0 = rs.keepS0 /\ next.delivered = rs.delivered
            /\ ~Impossible(rs, sn, units) =>
                 /\ next.failed = rs.failed /\ next.keepS0 = cut.rest
                 /\ next.delivered = rs.delivered \o cut.whole
            /\ DOMAIN next = {"expected", "keepS0", "delivered", "failed"}
            /\ next = [expected |-> next.expected, keepS0 |-> next.keepS0,
                       delivered |-> next.delivered, failed |-> next.failed]
<1> DEFINE cut == Cut(CutFrom(rs, sn, units))
           failing == [rs EXCEPT !.expected = Plus(sn, 1), !.failed = TRUE]
           going == [rs EXCEPT !.expected = Plus(sn, 1), !.keepS0 = cut.rest,
                               !.delivered = @ \o cut.whole]
<1>1. Reassemble(rs, sn, units) = IF Impossible(rs, sn, units) THEN failing ELSE going
  <2>1. CASE rs.keepS0 # <<>> /\ sn = rs.expected /\ Begins(units[1])
    BY <2>1 DEF Reassemble, Impossible
  <2>2. CASE rs.keepS0 # <<>> /\ sn = rs.expected /\ ~Begins(units[1])
    BY <2>2 DEF Reassemble, Impossible, CutFrom
  <2>3. CASE ~(rs.keepS0 # <<>> /\ sn = rs.expected) /\ Begins(units[1])
    BY <2>3 DEF Reassemble, Impossible, CutFrom
  <2>4. CASE ~(rs.keepS0 # <<>> /\ sn = rs.expected) /\ ~Begins(units[1])
    BY <2>4 DEF Reassemble, Impossible, CutFrom
  <2> QED
    BY <2>1, <2>2, <2>3, <2>4, Zenon
<1> HIDE DEF cut
<1>2. CASE Impossible(rs, sn, units)
  BY <1>1, <1>2 DEF States, cut
<1>3. CASE ~Impossible(rs, sn, units)
  BY <1>1, <1>3 DEF States, cut
<1> QED
  BY <1>2, <1>3

LEMMA WithoutHeadType ==
  ASSUME NEW units \in Pieces
  PROVE  WithoutHead(units) \in Pieces
<1> DEFINE E == {i \in DOMAIN units : Ends(units[i])}
<1>1. DOMAIN units = 1 .. Len(units) /\ Len(units) \in Nat /\ units \in Seq(Units)
  BY LenProperties DEF Pieces
<1>2. CASE E = {}
  <2>1. WithoutHead(units) = <<>>
    BY <1>2 DEF WithoutHead
  <2> QED
    BY <2>1, EmptySeq DEF Pieces
<1>3. CASE E # {}
  <2>1. WithoutHead(units) = SubSeq(units, Min(E) + 1, Len(units))
    BY <1>3 DEF WithoutHead
  <2>2. E \subseteq Nat /\ E \subseteq 0 .. Len(units)
    BY <1>1
  <2> HIDE DEF E
  <2>3. Min(E) \in 0 .. Len(units)
    BY <1>3, <2>2, MinOfNumbers
  <2>4. SubSeq(units, Min(E) + 1, Len(units)) \in Seq(Units)
    BY <1>1, <2>3, TwoParts
  <2> QED
    BY <2>1, <2>4 DEF Pieces
<1> QED
  BY <1>2, <1>3

LEMMA ReassembleType ==
  ASSUME NEW rs \in States, NEW sn \in SNs, NEW units \in Pieces
  PROVE  Reassemble(rs, sn, units) \in States
<1> DEFINE from == CutFrom(rs, sn, units)  cut == Cut(from)  next == Reassemble(rs, sn, units)
<1>1. rs.keepS0 \in Pieces /\ rs.delivered \in Seq(Pieces) /\ rs.failed \in BOOLEAN
  BY DEF States
<1>2. rs.keepS0 \o units \in Pieces
  BY <1>1, ConcatProperties DEF Pieces
<1>3. from \in Pieces
  BY <1>2, WithoutHeadType DEF CutFrom
<1> HIDE DEF from
<1>4. cut.whole \in Seq(Pieces) /\ cut.rest \in Pieces
  BY <1>3, CutType
<1> HIDE DEF cut
<1>5. rs.delivered \o cut.whole \in Seq(Pieces)
  BY <1>1, <1>4, ConcatProperties
<1>6. Plus(sn, 1) \in SNs
  BY SumOfNumbers
<1>7. /\ next.expected = Plus(sn, 1)
      /\ next = [expected |-> next.expected, keepS0 |-> next.keepS0,
                 delivered |-> next.delivered, failed |-> next.failed]
      /\ \/ next.failed = TRUE /\ next.keepS0 = rs.keepS0 /\ next.delivered = rs.delivered
         \/ /\ next.failed = rs.failed /\ next.keepS0 = cut.rest
            /\ next.delivered = rs.delivered \o cut.whole
  BY ReassembleIs DEF cut, from
<1> HIDE DEF next
<1>8. /\ next.expected \in SNs /\ next.keepS0 \in Pieces /\ next.delivered \in Seq(Pieces)
      /\ next.failed \in BOOLEAN
  BY <1>1, <1>4, <1>5, <1>6, <1>7
<1>9. next \in States
  BY <1>7, <1>8 DEF States
<1> QED
  BY <1>9 DEF next

\* The next PDU is read: nothing before it is delivered twice or out of order,
\* and what was kept is joined only with what follows it.
LEMMA ChainIsRead ==
  ASSUME NEW rs \in States, rs.failed = FALSE, NEW sn \in SNs, sn + 1 < Modulus,
         NEW units \in Pieces, Chain(units),
         NEW p \in Nat, WholeSdus(rs.delivered, 0, p), p < units[1][1],
         rs.keepS0 # <<>> /\ sn = rs.expected =>
           \E x \in Units : rs.keepS0 = Kept(x) /\ Follows(x, units[1]) /\ p = Passed(x)
  PROVE  LET next == Reassemble(rs, sn, units)
         IN /\ next.expected = sn + 1 /\ next.failed = FALSE
            /\ next.keepS0 = <<>> \/ next.keepS0 = Kept(Final(units))
            /\ WholeSdus(next.delivered, 0, Passed(Final(units)))
<1> DEFINE from == CutFrom(rs, sn, units)  cut == Cut(from)  next == Reassemble(rs, sn, units)
<1>1. PICK f \in Units, y \in Units : f = units[1] /\ y = Final(units)
  BY ChainUnits
<1>2. p <= Passed(y) /\ Passed(y) \in Nat /\ f[1] \in Nat
  <2>1. 1 \in 1 .. Len(units) /\ Len(units) \in 1 .. Len(units) /\ 1 <= Len(units)
    BY ChainUnits
  <2>2. Passed(units[1]) <= Passed(units[Len(units)])
    BY <2>1, ChainAscends
  <2>3. Passed(f) <= Passed(y)
    BY <1>1, <2>2 DEF Final
  <2>4. f[1] \in Nat /\ Passed(f) \in Nat /\ f[1] <= Passed(f) + 1 /\ Passed(y) \in Nat
    BY UnitParts
  <2>5. p < f[1]
    BY <1>1
  <2> QED
    BY <2>3, <2>4, <2>5
<1>3. /\ ~Impossible(rs, sn, units) /\ from \in Pieces
      /\ from = <<>> \/ (/\ Chain(from) /\ Begins(from[1]) /\ Final(from) = y
                        /\ p < from[1][1])
  <2>1. CASE rs.keepS0 # <<>> /\ sn = rs.expected
    <3>1. PICK x \in Units : rs.keepS0 = Kept(x) /\ Follows(x, f) /\ p = Passed(x)
      BY <1>1, <2>1
    <3>2. ~Ends(x) /\ rs.keepS0 = Beginning(x)
      BY <2>1, <3>1 DEF Kept
    <3>3. ~Begins(f)
      BY <3>1, <3>2, FollowingUnit
    <3>4. ~Impossible(rs, sn, units) /\ from = Beginning(x) \o units
      BY <1>1, <2>1, <3>2, <3>3 DEF Impossible, CutFrom
    <3>5. /\ Beginning(x) \o units \in Pieces /\ Chain(Beginning(x) \o units)
          /\ Begins((Beginning(x) \o units)[1])
          /\ (Beginning(x) \o units)[1][1] = x[1] /\ Final(Beginning(x) \o units) = y
      BY <1>1, <3>1, <3>2, ChainIsJoined
    <3>6. p < x[1]
      BY <3>1, <3>2, UnitParts
    <3> HIDE DEF from
    <3> QED
      BY <3>4, <3>5, <3>6
  <2>2. CASE ~(rs.keepS0 # <<>> /\ sn = rs.expected) /\ Begins(f)
    <3>1. ~Impossible(rs, sn, units) /\ from = units
      BY <1>1, <2>2 DEF Impossible, CutFrom
    <3> HIDE DEF from
    <3> QED
      BY <1>1, <2>2, <3>1
  <2>3. CASE ~(rs.keepS0 # <<>> /\ sn = rs.expected) /\ ~Begins(f)
    <3>1. ~Impossible(rs, sn, units) /\ from = WithoutHead(units)
      BY <1>1, <2>3 DEF Impossible, CutFrom
    <3> DEFINE rest == WithoutHead(units)
    <3>2. /\ rest \in Pieces
          /\ rest = <<>> \/ (/\ Chain(rest) /\ Begins(rest[1])
                            /\ f[1] < rest[1][1] /\ Final(rest) = y)
      BY <1>1, ChainWithoutHead
    <3> HIDE DEF from, rest
    <3>3. ASSUME rest # <<>> PROVE p < rest[1][1]
      <4>1. rest[1] \in Units
        BY <3>2, <3>3, ChainUnits
      <4>2. rest[1][1] \in Nat /\ f[1] < rest[1][1] /\ p < f[1]
        BY <1>1, <3>2, <3>3, <4>1, UnitParts
      <4> QED
        BY <1>2, <4>2
    <3>4. from = rest
      BY <3>1 DEF rest
    <3> QED
      BY <3>1, <3>2, <3>3, <3>4
  <2> QED
    BY <2>1, <2>2, <2>3
<1> HIDE DEF from
<1>4. /\ next.expected = Plus(sn, 1) /\ next.failed = rs.failed
      /\ next.keepS0 = cut.rest /\ next.delivered = rs.delivered \o cut.whole
  BY <1>3, ReassembleIs DEF from
<1> HIDE DEF next
<1>5. next.expected = sn + 1 /\ next.failed = FALSE
  BY <1>4, SumOfNumbers
<1>6. rs.delivered \in Seq(Pieces)
  BY DEF States
<1>7. /\ next.keepS0 = <<>> \/ next.keepS0 = Kept(y)
      /\ WholeSdus(next.delivered, 0, Passed(y))
  <2>1. CASE from = <<>>
    <3>1. cut.whole = <<>> /\ cut.rest = <<>>
      BY <2>1, CutOfNothing DEF NothingCut
    <3> HIDE DEF cut
    <3>2. next.delivered = rs.delivered
      BY <1>4, <1>6, <3>1, ConcatEmptySeq
    <3>3. WholeSdus(rs.delivered, 0, Passed(y))
      BY <1>2 DEF WholeSdus
    <3> QED
      BY <1>4, <3>1, <3>2, <3>3
  <2>2. CASE from # <<>>
    <3>1. Chain(from) /\ Begins(from[1]) /\ Final(from) = y /\ p < from[1][1] /\ from \in Pieces
      BY <1>3, <2>2
    <3>2. /\ cut \in Cuts /\ cut.rest = Kept(y)
          /\ WholeSdus(cut.whole, from[1][1], Passed(y))
      BY <3>1, CutOfChain
    <3>3. from[1][1] \in Nat /\ cut.whole \in Seq(Pieces)
      BY <3>1, <3>2, ChainUnits, UnitParts DEF Cuts
    <3> HIDE DEF cut
    <3>4. PICK low \in Nat : low = from[1][1]
      BY <3>3
    <3>5. PICK w \in Seq(Pieces) : w = cut.whole
      BY <3>3
    <3>6. WholeSdus(rs.delivered \o w, 0, Passed(y))
      BY <1>2, <1>6, <3>1, <3>2, <3>4, <3>5, MoreSdus
    <3> QED
      BY <1>4, <3>2, <3>5, <3>6
  <2> QED
    BY <2>1, <2>2
<1> QED
  BY <1>1, <1>5, <1>7 DEF next

------------------------------------------------------------------------------
(* The stream that is sent, and the reading of it. *)

\* The units of the PDUs sent so far, by their numbers, and those still to be
\* sent: one behind the other, whole SDUs up to the last one handed in.
StreamIs(sent, number, waiting, last) ==
  /\ \A a \in SNs : a < number => Chain(sent[a]) /\ Final(sent[a])[1] <= last
  /\ \A a \in SNs : a + 1 < number => Follows(Final(sent[a]), sent[a + 1][1])
  /\ waiting # <<>> => Chain(waiting) /\ Ends(Final(waiting)) /\ Final(waiting)[1] <= last
  /\ \A a \in SNs : a + 1 = number =>
       IF waiting = <<>> THEN Ends(Final(sent[a])) ELSE Follows(Final(sent[a]), waiting[1])

\* What has been read of it: up to the PDU before the one that is expected.
ReadIs(rs, sent, number) ==
  /\ rs \in States /\ rs.failed = FALSE /\ rs.expected <= number
  /\ rs.expected = 0 => rs.keepS0 = <<>> /\ rs.delivered = <<>>
  /\ \A a \in SNs : a + 1 = rs.expected =>
       /\ rs.keepS0 = <<>> \/ rs.keepS0 = Kept(Final(sent[a]))
       /\ WholeSdus(rs.delivered, 0, Passed(Final(sent[a])))

LEMMA StreamAscends ==
  ASSUME NEW sent \in [SNs -> Pieces], NEW number \in SNs, NEW waiting, NEW last,
         StreamIs(sent, number, waiting, last),
         NEW a \in SNs, NEW b \in SNs, a < b, b < number
  PROVE  Passed(Final(sent[a])) < sent[b][1][1]
<1> DEFINE Q == {m \in Nat : a + m + 1 < number =>
                              Passed(Final(sent[a])) < sent[a + m + 1][1][1]}
<1>1. \A n \in SNs : n \in Nat /\ n < Modulus
  BY UmConstants
<1>2. ASSUME NEW n \in Nat, n < number
      PROVE  /\ n \in SNs /\ sent[n][1] \in Units /\ Final(sent[n]) \in Units
             /\ Passed(sent[n][1]) <= Passed(Final(sent[n]))
  <2>1. n \in SNs
    BY <1>1, <1>2, UmConstants
  <2>2. PICK c \in Pieces : c = sent[n] /\ Chain(c)
    BY <1>2, <2>1 DEF StreamIs
  <2>3. /\ c[1] \in Units /\ Final(c) \in Units /\ 1 \in 1 .. Len(c) /\ Len(c) \in 1 .. Len(c)
        /\ 1 <= Len(c)
    BY <2>2, ChainUnits
  <2>4. Passed(c[1]) <= Passed(Final(c))
    BY <2>2, <2>3, ChainAscends DEF Final
  <2> QED
    BY <2>1, <2>2, <2>3, <2>4
<1>3. ASSUME NEW n \in Nat, n + 1 < number
      PROVE  Passed(Final(sent[n])) < sent[n + 1][1][1]
  <2>1. n < number /\ n + 1 \in Nat
    BY <1>1, <1>3
  <2>2. PICK u \in Units, v \in Units : u = Final(sent[n]) /\ v = sent[n + 1][1]
    BY <1>2, <1>3, <2>1
  <2>3. Follows(u, v)
    BY <1>2, <1>3, <2>1, <2>2 DEF StreamIs
  <2> QED
    BY <2>2, <2>3, FollowingUnit
<1>4. 0 \in Q
  <2>1. a \in Nat /\ a + 0 + 1 = a + 1
    BY <1>1
  <2> QED
    BY <1>3, <2>1
<1>5. ASSUME NEW m \in Nat, m \in Q PROVE m + 1 \in Q
  <2> DEFINE n == a + m + 1
  <2>1. n \in Nat /\ a + (m + 1) + 1 = n + 1
    BY <1>1
  <2>2. ASSUME n + 1 < number
        PROVE  Passed(Final(sent[a])) < sent[n + 1][1][1]
    <3>1. n < number /\ a < number /\ n + 1 \in Nat /\ a \in Nat
      BY <1>1, <2>1, <2>2
    <3>2. Passed(Final(sent[a])) < sent[n][1][1]
      BY <1>5, <3>1
    <3> HIDE DEF n
    <3>3. PICK u \in Units, f \in Units, y \in Units, g \in Units :
            /\ u = Final(sent[a]) /\ f = sent[n][1] /\ y = Final(sent[n]) /\ g = sent[n + 1][1]
            /\ Passed(f) <= Passed(y)
      BY <1>2, <2>1, <2>2, <3>1
    <3>4. Passed(y) < g[1]
      BY <1>3, <2>1, <2>2, <3>3
    <3>5. /\ Passed(u) \in Nat /\ f[1] \in Nat /\ f[1] <= Passed(f) + 1 /\ Passed(f) \in Nat
          /\ Passed(y) \in Nat /\ g[1] \in Nat
      BY UnitParts
    <3>6. Passed(u) < f[1]
      BY <3>2, <3>3
    <3> QED
      BY <3>3, <3>4, <3>5, <3>6
  <2> QED
    BY <2>1, <2>2
<1>6. Nat \subseteq Q
  <2> HIDE DEF Q
  <2> QED
    BY <1>4, <1>5, Induction
<1>7. b - a - 1 \in Nat /\ a + (b - a - 1) + 1 = b
  BY <1>1
<1> QED
  BY <1>6, <1>7

\* A PDU behind all that was read is read next.
LEMMA PduIsRead ==
  ASSUME NEW sent \in [SNs -> Pieces], NEW number \in SNs, NEW waiting, NEW last,
         StreamIs(sent, number, waiting, last),
         NEW rs, ReadIs(rs, sent, number), NEW sn \in SNs, rs.expected <= sn, sn < number
  PROVE  /\ ReadIs(Reassemble(rs, sn, sent[sn]), sent, number)
         /\ Reassemble(rs, sn, sent[sn]).expected = sn + 1
<1>1. /\ \A n \in SNs : n \in Nat /\ n < Modulus
      /\ sn \in Nat /\ number \in Nat /\ sn + 1 < Modulus /\ sn + 1 <= number /\ sn + 1 # 0
  BY UmConstants
<1>2. rs \in States /\ rs.failed = FALSE /\ rs.expected \in SNs
  BY DEF ReadIs, States
<1>3. PICK units \in Pieces : units = sent[sn] /\ Chain(units)
  BY DEF StreamIs
<1>4. units[1] \in Units /\ Final(units) \in Units
  BY <1>3, ChainUnits
<1>5. \E p \in Nat :
        /\ WholeSdus(rs.delivered, 0, p) /\ p < units[1][1]
        /\ rs.keepS0 # <<>> /\ sn = rs.expected =>
             \E x \in Units : rs.keepS0 = Kept(x) /\ Follows(x, units[1]) /\ p = Passed(x)
  <2>1. CASE rs.expected = 0
    <3>1. rs.keepS0 = <<>> /\ rs.delivered = <<>>
      BY <2>1 DEF ReadIs
    <3>2. WholeSdus(rs.delivered, 0, 0)
      BY <3>1 DEF WholeSdus
    <3>3. 0 < units[1][1]
      BY <1>4, UnitParts
    <3> QED
      BY <3>1, <3>2, <3>3
  <2>2. CASE rs.expected # 0
    <3>1. PICK a \in SNs : a + 1 = rs.expected
      <4>1. rs.expected - 1 \in SNs /\ (rs.expected - 1) + 1 = rs.expected
        BY <1>1, <1>2, <2>2, UmConstants
      <4> QED
        BY <4>1
    <3>2. a \in Nat /\ a < sn /\ a < number
      BY <1>1, <1>2, <3>1
    <3>3. PICK c \in Pieces : c = sent[a] /\ Chain(c)
      BY <3>2 DEF StreamIs
    <3>4. PICK x \in Units : x = Final(c)
      BY <3>3, ChainUnits
    <3>5. /\ rs.keepS0 = <<>> \/ rs.keepS0 = Kept(x)
          /\ WholeSdus(rs.delivered, 0, Passed(x))
      BY <3>1, <3>3, <3>4 DEF ReadIs
    <3>6. Passed(x) < units[1][1]
      BY <1>3, <3>2, <3>3, <3>4, StreamAscends
    <3>7. sn = rs.expected => Follows(x, units[1])
      BY <1>1, <1>3, <3>1, <3>3, <3>4 DEF StreamIs
    <3>8. Passed(x) \in Nat
      BY UnitParts
    <3> QED
      BY <3>5, <3>6, <3>7, <3>8
  <2> QED
    BY <2>1, <2>2
<1>6. PICK p \in Nat :
        /\ WholeSdus(rs.delivered, 0, p) /\ p < units[1][1]
        /\ rs.keepS0 # <<>> /\ sn = rs.expected =>
             \E x \in Units : rs.keepS0 = Kept(x) /\ Follows(x, units[1]) /\ p = Passed(x)
  BY <1>5
<1> DEFINE next == Reassemble(rs, sn, units)
<1>7. /\ next.expected = sn + 1 /\ next.failed = FALSE
      /\ next.keepS0 = <<>> \/ next.keepS0 = Kept(Final(units))
      /\ WholeSdus(next.delivered, 0, Passed(Final(units)))
  <2>1. rs \in States /\ rs.failed = FALSE /\ sn + 1 < Modulus /\ Chain(units)
    BY <1>1, <1>2, <1>3
  <2>2. WholeSdus(rs.delivered, 0, p) /\ p < units[1][1]
    BY <1>6
  <2>3. rs.keepS0 # <<>> /\ sn = rs.expected =>
          \E x \in Units : rs.keepS0 = Kept(x) /\ Follows(x, units[1]) /\ p = Passed(x)
    BY <1>6
  <2> QED
    BY <2>1, <2>2, <2>3, ChainIsRead
<1>8. next \in States
  BY <1>2, ReassembleType
<1> HIDE DEF next
<1>9. \A a \in SNs : a + 1 = next.expected => a = sn
  BY <1>1, <1>7
<1>10. ReadIs(next, sent, number)
  BY <1>1, <1>3, <1>7, <1>8, <1>9 DEF ReadIs
<1> QED
  BY <1>3, <1>7, <1>10 DEF next

\* The step Deliver makes with each number.
DeliverStep(rs, buffer, sn) ==
  IF buffer[sn] = <<>> THEN rs ELSE Reassemble(rs, sn, buffer[sn])

LEMMA DeliverStepType ==
  ASSUME NEW rs \in States, NEW buffer \in [SNs -> Pieces], NEW sn \in SNs
  PROVE  DeliverStep(rs, buffer, sn) \in States
<1>1. buffer[sn] \in Pieces
  OBVIOUS
<1>2. Reassemble(rs, sn, buffer[sn]) \in States
  BY <1>1, ReassembleType
<1> QED
  BY <1>2 DEF DeliverStep

\* What Deliver comes to, if with each number a property leads to the next.
LEMMA DeliverByNumbers ==
  ASSUME NEW rx, rx.buffer \in [SNs -> Pieces], rx.reassembly \in States,
         NEW n \in Nat, NEW sns \in [1 .. n -> SNs], NEW Good, rx.reassembly \in Good[0],
         \A k \in Nat : \A rs \in States :
           k < n /\ rs \in Good[k] => DeliverStep(rs, rx.buffer, sns[k + 1]) \in Good[k + 1]
  PROVE  Deliver(rx, sns).reassembly \in States /\ Deliver(rx, sns).reassembly \in Good[n]
<1> DEFINE step == [x \in (1 .. n) \X States |-> DeliverStep(x[2], rx.buffer, sns[x[1]])]
           choice == [T \in SUBSET (1 .. n) |-> Max(T)]
           rec(f) == [T \in SUBSET (1 .. n) |->
                        IF T = {} THEN rx.reassembly
                        ELSE LET x == Max(T) IN DeliverStep(f[T \ {x}], rx.buffer, sns[x])]
           fold == CHOOSE f : f = rec(f)
           Typed == [k \in Nat |-> {rs \in States : rs \in Good[k]}]
<1>1. DOMAIN sns = 1 .. n /\ \A k \in 1 .. n : sns[k] \in SNs
  OBVIOUS
<1>2. Deliver(rx, sns).reassembly = fold[1 .. n]
  BY <1>1 DEF Deliver, DeliverStep, FoldLeft, MapThenFoldSet
<1>4. fold = rec(fold)
  <2>1. step \in [(1 .. n) \X States -> States]
    BY <1>1, DeliverStepType
  <2>2. IsFiniteSet(1 .. n)
    BY <1>1, FS_Interval
  <2>3. \A T \in SUBSET (1 .. n) : T # {} => choice[T] = Max(T) /\ choice[T] \in T
    BY <1>1, MaxOfPositions
  <2>4. PICK it \in [SUBSET (1 .. n) -> States] :
          IsRecursive(it, SUBSET (1 .. n), rx.reassembly, step, choice)
    <3> HIDE DEF step, choice
    <3> QED
      BY <2>1, <2>2, <2>3, SetRecursion
  <2>5. ASSUME NEW T \in SUBSET (1 .. n), T # {}
        PROVE  step[<<choice[T], it[T \ {choice[T]}]>>]
                 = DeliverStep(it[T \ {Max(T)}], rx.buffer, sns[Max(T)])
    <3>1. Max(T) \in 1 .. n /\ choice[T] = Max(T) /\ it[T \ {Max(T)}] \in States
      BY <2>3, <2>4, <2>5
    <3> HIDE DEF choice
    <3> QED
      BY <3>1
  <2>6. \A T \in SUBSET (1 .. n) : it[T] = rec(it)[T]
    BY <2>4, <2>5 DEF IsRecursive
  <2>7. it = rec(it)
    BY <2>6
  <2> QED
    BY <2>7
<1>5. fold[{}] = rx.reassembly
  BY <1>4
<1>6. ASSUME NEW k \in Nat, k < n
      PROVE  fold[1 .. k + 1] = DeliverStep(fold[1 .. k], rx.buffer, sns[k + 1])
  <2>1. 1 .. k + 1 \in SUBSET (1 .. n) /\ 1 .. k + 1 # {}
    BY <1>6, PrefixInside
  <2> DEFINE T == 1 .. k + 1
  <2> HIDE DEF fold
  <2>2. fold[T] = DeliverStep(fold[T \ {Max(T)}], rx.buffer, sns[Max(T)])
    BY <1>4, <2>1
  <2> QED
    BY <2>2, MaxOfPrefix
<1> HIDE DEF fold, rec, step, choice
<1>7. fold[1 .. n] \in Typed[n]
  <2>1. fold[{}] \in Typed[0]
    BY <1>5
  <2>2. ASSUME NEW k \in Nat, k < n, fold[1 .. k] \in Typed[k]
        PROVE  fold[1 .. k + 1] \in Typed[k + 1]
    <3>1. fold[1 .. k] \in States /\ fold[1 .. k] \in Good[k]
      BY <2>2
    <3>2. k + 1 \in 1 .. n
      BY <2>2
    <3>3. DeliverStep(fold[1 .. k], rx.buffer, sns[k + 1]) \in States
      BY <1>1, <3>1, <3>2, DeliverStepType
    <3>4. DeliverStep(fold[1 .. k], rx.buffer, sns[k + 1]) \in Good[k + 1]
      BY <2>2, <3>1
    <3> QED
      BY <1>6, <2>2, <3>3, <3>4
  <2> HIDE DEF Typed
  <2> QED
    BY <2>1, <2>2, PrefixInduction
<1> QED
  BY <1>2, <1>7

\* What is held back are copies of PDUs that were sent.
HeldIs(buffer, sent, number) ==
  \A sn \in SNs : buffer[sn] # <<>> => sn < number /\ buffer[sn] = sent[sn]

\* The numbers behind low of PDUs that are there are not behind what is read,
\* and before a bound.
UnreadIs(buffer, from, low, n, bound) ==
  \A sn \in SNs : buffer[sn] # <<>> /\ low <= sn /\ sn < low + n => from <= sn /\ sn < bound

\* PDUs with successive numbers are read, those of them that are there.
LEMMA DeliverReads ==
  ASSUME NEW sent \in [SNs -> Pieces], NEW number \in SNs, NEW waiting, NEW last,
         StreamIs(sent, number, waiting, last),
         NEW rx, rx.buffer \in Buffers, HeldIs(rx.buffer, sent, number),
         ReadIs(rx.reassembly, sent, number),
         NEW bound \in Nat, rx.reassembly.expected <= bound,
         NEW low \in Nat, NEW n \in Nat, low + n <= Modulus,
         UnreadIs(rx.buffer, rx.reassembly.expected, low, n, bound),
         NEW sns, sns = [i \in 1 .. n |-> low + (i - 1)]
  PROVE  /\ ReadIs(Deliver(rx, sns).reassembly, sent, number)
         /\ Deliver(rx, sns).reassembly.expected <= bound
<1> DEFINE from == rx.reassembly.expected  buffer == rx.buffer
           Good == [k \in Nat |-> {rs \in States :
                      ReadIs(rs, sent, number) /\ rs.expected <= bound
                        /\ (rs.expected = from \/ rs.expected <= low + k)}]
<1>1. /\ \A k \in SNs : k \in Nat /\ k < Modulus
      /\ \A k \in Nat : k < Modulus => k \in SNs
  BY UmConstants
<1>2. sns \in [1 .. n -> SNs] /\ \A k \in Nat : k < n => sns[k + 1] = low + k
  <2>1. ASSUME NEW i \in 1 .. n PROVE low + (i - 1) \in SNs
    <3>1. low + (i - 1) \in Nat /\ low + (i - 1) < Modulus
      BY UmConstants
    <3> QED
      BY <1>1, <3>1
  <2>2. ASSUME NEW k \in Nat, k < n PROVE sns[k + 1] = low + k
    <3>1. k + 1 \in 1 .. n /\ (k + 1) - 1 = k
      BY <2>2
    <3> QED
      BY <3>1
  <2> QED
    BY <2>1, <2>2
<1>3. buffer \in [SNs -> Pieces] /\ rx.reassembly \in States /\ from \in Nat
  BY <1>1 DEF Buffers, Pieces, ReadIs, States
<1>4. ASSUME NEW k \in Nat, NEW rs \in States, k < n, rs \in Good[k]
      PROVE  DeliverStep(rs, buffer, sns[k + 1]) \in Good[k + 1]
  <2>1. /\ ReadIs(rs, sent, number) /\ rs.expected <= bound
        /\ rs.expected = from \/ rs.expected <= low + k
    BY <1>4
  <2>2. PICK sn \in SNs : sn = sns[k + 1] /\ sn = low + k
    <3>1. low + k \in Nat /\ low + k < Modulus
      BY <1>4, UmConstants
    <3>2. low + k \in SNs /\ sns[k + 1] = low + k
      BY <1>1, <1>2, <1>4, <3>1
    <3> QED
      BY <3>2
  <2>3. rs.expected \in Nat /\ sn \in Nat
    BY <1>1 DEF States
  <2> HIDE DEF from, buffer
  <2>4. CASE buffer[sn] = <<>>
    <3>1. DeliverStep(rs, buffer, sn) = rs
      BY <2>4 DEF DeliverStep
    <3>2. rs.expected = from \/ rs.expected <= low + (k + 1)
      BY <2>1, <2>3
    <3> QED
      BY <2>1, <2>2, <3>1, <3>2
  <2>5. CASE buffer[sn] # <<>>
    <3>1. from <= sn /\ sn < bound
      <4>1. low <= sn /\ sn < low + n
        BY <1>4, <2>2
      <4> QED
        BY <2>5, <4>1 DEF UnreadIs, from, buffer
    <3>2. sn < number /\ buffer[sn] = sent[sn]
      BY <2>5 DEF HeldIs, buffer
    <3>3. rs.expected <= sn
      BY <2>1, <2>2, <2>3, <3>1
    <3> DEFINE next == Reassemble(rs, sn, sent[sn])
    <3>4. ReadIs(next, sent, number) /\ next.expected = sn + 1
      BY <2>1, <3>2, <3>3, PduIsRead
    <3> HIDE DEF next
    <3>5. next \in States
      BY <3>4 DEF ReadIs
    <3>6. next.expected <= bound /\ next.expected <= low + (k + 1)
      BY <2>2, <2>3, <3>1, <3>4
    <3>7. DeliverStep(rs, buffer, sn) = next
      BY <2>5, <3>2 DEF DeliverStep, next
    <3>8. next \in Good[k + 1]
      BY <3>4, <3>5, <3>6
    <3> QED
      BY <2>2, <3>7, <3>8
  <2> QED
    BY <2>4, <2>5
<1>5. rx.reassembly \in Good[0]
  BY <1>3
<1>6. Good[n] \subseteq {rs \in States : ReadIs(rs, sent, number) /\ rs.expected <= bound}
  OBVIOUS
<1> HIDE DEF Good
<1>7. Deliver(rx, sns).reassembly \in Good[n]
  <2>1. \A k \in Nat : \A rs \in States :
          k < n /\ rs \in Good[k] => DeliverStep(rs, rx.buffer, sns[k + 1]) \in Good[k + 1]
    BY <1>4
  <2> QED
    BY <1>2, <1>3, <1>5, <2>1, DeliverByNumbers
<1> QED
  BY <1>6, <1>7

\* What falls out of the window is read.
LEMMA OutsideReads ==
  ASSUME NEW sent \in [SNs -> Pieces], NEW number \in SNs, NEW waiting, NEW last,
         StreamIs(sent, number, waiting, last),
         NEW rx, rx.buffer \in Buffers, HeldIs(rx.buffer, sent, number),
         ReadIs(rx.reassembly, sent, number),
         NEW bound \in Nat, rx.reassembly.expected <= bound, NEW uh,
         \A sn \in Held(rx.buffer) : rx.reassembly.expected <= sn,
         \A sn \in Held(rx.buffer) : ~Inside(sn, uh) => sn < bound
  PROVE  /\ ReadIs(ReassembleOutsideWindow(rx, uh).reassembly, sent, number)
         /\ ReassembleOutsideWindow(rx, uh).reassembly.expected <= bound
<1> DEFINE T == {sn \in Held(rx.buffer) : Inside(sn, uh)} \cup {Modulus}
           first == Min(T)
           sns == [i \in 1 .. first |-> i - 1]
<1>1. ReassembleOutsideWindow(rx, uh) = Deliver(rx, sns)
  BY DEF ReassembleOutsideWindow
<1>2. /\ \A sn \in SNs : sn \in Nat /\ sn < Modulus
      /\ Modulus \in Nat /\ Held(rx.buffer) \subseteq SNs
  BY UmConstants DEF Held
<1>3. first \in Nat /\ first <= Modulus /\ \A sn \in Held(rx.buffer) : Inside(sn, uh) => first <= sn
  <2>1. T \subseteq Nat /\ T # {} /\ Modulus \in T
    BY <1>2
  <2> HIDE DEF T
  <2>2. first \in T /\ \A sn \in T : first <= sn
    BY <2>1, MinOfNumbers
  <2> QED
    BY <2>1, <2>2 DEF T
<1>4. sns = [i \in 1 .. first |-> 0 + (i - 1)]
  BY <1>3
<1> HIDE DEF first, sns
<1>5. UnreadIs(rx.buffer, rx.reassembly.expected, 0, first, bound)
  <2>1. ASSUME NEW sn \in SNs, rx.buffer[sn] # <<>>, sn < 0 + first
        PROVE  rx.reassembly.expected <= sn /\ sn < bound
    <3>1. sn \in Held(rx.buffer)
      BY <2>1 DEF Held
    <3>2. ~Inside(sn, uh)
      BY <1>2, <1>3, <2>1, <3>1
    <3> QED
      BY <3>1, <3>2
  <2> QED
    BY <2>1 DEF UnreadIs
<1>6. 0 \in Nat /\ 0 + first <= Modulus
  BY <1>3
<1> QED
  BY <1>1, <1>3, <1>4, <1>5, <1>6, DeliverReads

\* The numbers of an interval do not wrap.
LEMMA IntervalNumbers ==
  ASSUME NEW rx, NEW low \in SNs, NEW high \in SNs, NEW uh \in SNs,
         low <= high, high <= uh, uh <= low + Window
  PROVE  /\ high - low \in Nat /\ low + (high - low) = high
         /\ ReassembleSnInterval(rx, low, high, uh) =
              Deliver(rx, [i \in 1 .. high - low |-> low + (i - 1)])
<1> DEFINE n == IF Dist(low, Base(uh)) < Dist(high, Base(uh)) THEN Dist(high, low) ELSE 0
           sns == [i \in 1 .. n |-> Plus(low, i - 1)]
<1>1. ReassembleSnInterval(rx, low, high, uh) = Deliver(rx, sns)
  BY DEF ReassembleSnInterval
<1>2. /\ low \in Nat /\ high \in Nat /\ uh \in Nat /\ high < Modulus
      /\ \A sn \in SNs : sn \in Nat
  BY UmConstants
<1>3. n = high - low
  <2>1. Dist(low, Base(uh)) = low + Window - uh /\ Dist(high, Base(uh)) = high + Window - uh
    <3>1. /\ uh <= low + Window /\ low < uh + Window
          /\ uh <= high + Window /\ high < uh + Window
      BY <1>2, UmConstants
    <3> QED
      BY <3>1, Distances
  <2>2. Dist(high, low) = high - low
    BY DifferenceOfNumbers
  <2>3. Dist(low, Base(uh)) < Dist(high, Base(uh)) <=> low < high
    BY <1>2, <2>1, UmConstants
  <2>4. CASE low < high
    BY <2>2, <2>3, <2>4
  <2>5. CASE ~(low < high)
    <3>1. low = high /\ high - low = 0
      BY <1>2, <2>5
    <3> QED
      BY <2>3, <2>5, <3>1
  <2> QED
    BY <2>4, <2>5
<1> HIDE DEF n
<1>4. n \in Nat /\ low + n = high
  BY <1>2, <1>3
<1>5. sns = [i \in 1 .. n |-> low + (i - 1)]
  <2>1. ASSUME NEW i \in 1 .. n PROVE Plus(low, i - 1) = low + (i - 1)
    <3>1. i - 1 \in Nat /\ low + (i - 1) < Modulus
      BY <1>2, <1>4, UmConstants
    <3> QED
      BY <3>1, SumOfNumbers
  <2> QED
    BY <2>1
<1> HIDE DEF sns
<1> QED
  BY <1>1, <1>3, <1>4, <1>5

\* What is in sequence, or behind a gap that is given up, is read.
LEMMA IntervalReads ==
  ASSUME NEW sent \in [SNs -> Pieces], NEW number \in SNs, NEW waiting, NEW last,
         StreamIs(sent, number, waiting, last),
         NEW rx, rx.buffer \in Buffers, HeldIs(rx.buffer, sent, number),
         ReadIs(rx.reassembly, sent, number),
         NEW low \in SNs, NEW high \in SNs, NEW uh \in SNs,
         low <= high, high <= uh, uh <= low + Window,
         rx.reassembly.expected <= low
  PROVE  /\ ReadIs(ReassembleSnInterval(rx, low, high, uh).reassembly, sent, number)
         /\ ReassembleSnInterval(rx, low, high, uh).reassembly.expected <= high
<1>. PICK n \in Nat : n = high - low /\ low + n = high
  BY IntervalNumbers
<1>. DEFINE sns == [i \in 1 .. n |-> low + (i - 1)]
<1>1. /\ low + n = high /\ sns = [i \in 1 .. n |-> low + (i - 1)]
      /\ ReassembleSnInterval(rx, low, high, uh) = Deliver(rx, sns)
  BY IntervalNumbers
<1>. HIDE DEF sns
<1>2. /\ low \in Nat /\ high \in Nat /\ uh \in Nat /\ high < Modulus
      /\ \A sn \in SNs : sn \in Nat
  BY UmConstants
<1>3. rx.reassembly.expected \in Nat
  BY <1>2 DEF ReadIs, States
<1>4. UnreadIs(rx.buffer, rx.reassembly.expected, low, n, high)
  BY <1>1, <1>2, <1>3 DEF UnreadIs
<1>5. low + n <= Modulus /\ rx.reassembly.expected <= high
  BY <1>1, <1>2, <1>3, UmConstants
<1> QED
  BY <1>1, <1>2, <1>4, <1>5, DeliverReads

------------------------------------------------------------------------------
(* The stream grows at one end, and is cut into PDUs at the other. *)

\* DoTransmitPdcpPdu: an SDU is put behind what waits, or dropped.
LEMMA StreamGetsSdu ==
  ASSUME NEW sent \in [SNs -> Pieces], NEW number \in SNs, NEW waiting \in Pieces, NEW last \in Nat,
         StreamIs(sent, number, waiting, last), last + 1 \in 1 .. NSdus
  PROVE  /\ StreamIs(sent, number, waiting, last + 1)
         /\ StreamIs(sent, number, waiting \o Sdu(last + 1), last + 1)
<1> DEFINE s == last + 1
<1>1. PICK c \in Pieces : c = Sdu(s)
  BY SduIsChain
<1>2. /\ Chain(c) /\ Begins(c[1]) /\ c[1][1] = s /\ Ends(Final(c)) /\ Final(c)[1] = s
      /\ c[1] \in Units /\ Final(c) \in Units /\ c # <<>>
  BY <1>1, SduIsChain, ChainUnits
<1>3. s \in Nat /\ last < s /\ s <= s
  OBVIOUS
<1> HIDE DEF s
<1>4. \A a \in SNs : a < number =>
        Chain(sent[a]) /\ Final(sent[a]) \in Units /\ Final(sent[a])[1] <= last
          /\ Final(sent[a])[1] \in Nat
  BY ChainUnits, UnitParts DEF StreamIs
<1>5. \A a \in SNs : a < number => Chain(sent[a]) /\ Final(sent[a])[1] <= s
  BY <1>3, <1>4
<1>6. waiting # <<>> =>
        /\ Chain(waiting) /\ Ends(Final(waiting)) /\ Final(waiting)[1] <= last
        /\ Final(waiting) \in Units /\ Final(waiting)[1] \in Nat /\ Final(waiting)[1] <= s
  BY <1>3, ChainUnits, UnitParts DEF StreamIs
<1>7. /\ \A a \in SNs : a + 1 < number => Follows(Final(sent[a]), sent[a + 1][1])
      /\ \A a \in SNs : a + 1 = number =>
           IF waiting = <<>> THEN Ends(Final(sent[a])) ELSE Follows(Final(sent[a]), waiting[1])
  BY DEF StreamIs
<1>8. StreamIs(sent, number, waiting, s)
  BY <1>5, <1>6, <1>7 DEF StreamIs
<1>9. StreamIs(sent, number, waiting \o c, s)
  <2>1. CASE waiting = <<>>
    <3>1. waiting \o c = c
      BY <2>1, ConcatEmptySeq DEF Pieces
    <3>2. ASSUME NEW a \in SNs, a + 1 = number PROVE Follows(Final(sent[a]), c[1])
      <4>1. a < number
        BY <3>2, UmConstants
      <4>2. Ends(Final(sent[a])) /\ Final(sent[a])[1] < c[1][1]
        BY <1>2, <1>3, <1>4, <1>7, <2>1, <3>2, <4>1
      <4> QED
        BY <1>2, <4>2 DEF Follows
    <3>3. StreamIs(sent, number, c, s)
      BY <1>2, <1>3, <1>5, <1>7, <3>2 DEF StreamIs
    <3> QED
      BY <3>1, <3>3
  <2>2. CASE waiting # <<>>
    <3>1. Follows(Final(waiting), c[1])
      <4>1. Ends(Final(waiting)) /\ Final(waiting)[1] < c[1][1]
        BY <1>2, <1>3, <1>6, <2>2
      <4> QED
        BY <1>2, <4>1 DEF Follows
    <3> DEFINE joined == waiting \o c
    <3>2. /\ joined \in Pieces /\ Chain(joined) /\ joined[1] = waiting[1]
          /\ Final(joined) = Final(c)
      BY <1>2, <1>6, <2>2, <3>1, ChainsJoined
    <3> HIDE DEF joined
    <3>3. joined # <<>>
      BY <3>2, ChainUnits
    <3>4. StreamIs(sent, number, joined, s)
      BY <1>2, <1>3, <1>5, <1>7, <2>2, <3>2, <3>3 DEF StreamIs
    <3> QED
      BY <3>4 DEF joined
  <2> QED
    BY <2>1, <2>2
<1> QED
  BY <1>1, <1>8, <1>9 DEF s

\* SendPdu: the next PDU is the beginning of what waits.
LEMMA StreamGivesPdu ==
  ASSUME NEW sent \in [SNs -> Pieces], NEW number \in SNs, NEW waiting \in Pieces, NEW last,
         StreamIs(sent, number, waiting, last), waiting # <<>>, NEW m \in 1 .. Len(waiting),
         last \in Nat
  PROVE  StreamIs([sent EXCEPT ![number] = SubSeq(waiting, 1, m)], number + 1,
                  SubSeq(waiting, m + 1, Len(waiting)), last)
<1> DEFINE first == SubSeq(waiting, 1, m)  rest == SubSeq(waiting, m + 1, Len(waiting))
           after == [sent EXCEPT ![number] = first]
<1>1. Chain(waiting) /\ Ends(Final(waiting)) /\ Final(waiting)[1] <= last
  BY DEF StreamIs
<1>2. /\ first \in Pieces /\ rest \in Pieces
      /\ Chain(first) /\ first[1] = waiting[1] /\ Final(first) = waiting[m]
      /\ rest = <<>> => Final(first) = Final(waiting)
      /\ rest # <<>> => Chain(rest) /\ Final(rest) = Final(waiting) /\ Follows(Final(first), rest[1])
  BY <1>1, ChainIsSplit
<1>3. Final(first)[1] <= last
  <2>1. /\ Len(waiting) \in Nat /\ Len(waiting) \in 1 .. Len(waiting) /\ m <= Len(waiting)
        /\ \A i \in 1 .. Len(waiting) : waiting[i] \in Units
    BY <1>1, ChainUnits
  <2>2. waiting[m][1] <= waiting[Len(waiting)][1]
    BY <1>1, <2>1, ChainAscends
  <2>3. waiting[m][1] \in Nat /\ waiting[Len(waiting)][1] \in Nat
    BY <2>1, UnitParts
  <2> QED
    BY <1>1, <1>2, <2>2, <2>3 DEF Final
<1>4. \A a \in SNs : after[a] = IF a = number THEN first ELSE sent[a]
  OBVIOUS
<1>5. \A a \in SNs : a \in Nat
  BY UmConstants
<1> HIDE DEF first, rest, after
<1>6. \A a \in SNs : a < number + 1 => Chain(after[a]) /\ Final(after[a])[1] <= last
  <2>1. ASSUME NEW a \in SNs, a < number + 1 PROVE a = number \/ a < number
    BY <1>5, <2>1
  <2> QED
    BY <1>2, <1>3, <1>4, <2>1 DEF StreamIs
<1>7. ASSUME NEW a \in SNs, a + 1 < number + 1
      PROVE  Follows(Final(after[a]), after[a + 1][1])
  <2>1. a # number /\ after[a] = sent[a] /\ a + 1 \in SNs
    BY <1>4, <1>5, <1>7, UmConstants
  <2>2. CASE a + 1 = number
    BY <1>2, <1>4, <2>1, <2>2 DEF StreamIs
  <2>3. CASE a + 1 # number
    <3>1. a + 1 < number /\ after[a + 1] = sent[a + 1]
      BY <1>4, <1>5, <1>7, <2>1, <2>3
    <3> QED
      BY <2>1, <3>1 DEF StreamIs
  <2> QED
    BY <2>2, <2>3
<1>8. ASSUME NEW a \in SNs, a + 1 = number + 1
      PROVE  IF rest = <<>> THEN Ends(Final(after[a])) ELSE Follows(Final(after[a]), rest[1])
  <2>1. a = number
    BY <1>5, <1>8
  <2> QED
    BY <1>1, <1>2, <1>4, <2>1
<1>9. rest # <<>> => Chain(rest) /\ Ends(Final(rest)) /\ Final(rest)[1] <= last
  BY <1>1, <1>2
<1>10. StreamIs(after, number + 1, rest, last)
  BY <1>6, <1>7, <1>8, <1>9 DEF StreamIs
<1> QED
  BY <1>10 DEF after, first, rest

\* What was sent before is still there.
LEMMA ReadAfterPdu ==
  ASSUME NEW sent \in [SNs -> Pieces], NEW number \in SNs, NEW rs, ReadIs(rs, sent, number),
         NEW units \in Pieces
  PROVE  ReadIs(rs, [sent EXCEPT ![number] = units], number + 1)
<1> DEFINE after == [sent EXCEPT ![number] = units]
<1>1. \A a \in SNs : a # number => after[a] = sent[a]
  OBVIOUS
<1> HIDE DEF after
<1>2. rs \in States /\ rs.expected \in Nat /\ number \in Nat /\ \A a \in SNs : a \in Nat
  BY UmConstants DEF ReadIs, States
<1>3. rs.expected <= number
  BY DEF ReadIs
<1>4. rs.expected <= number + 1 /\ \A a \in SNs : a + 1 = rs.expected => after[a] = sent[a]
  BY <1>1, <1>2, <1>3
<1>5. ReadIs(rs, after, number + 1)
  BY <1>2, <1>4 DEF ReadIs
<1> QED
  BY <1>5 DEF after

------------------------------------------------------------------------------
(* The order of what is delivered. *)

\* PDUs on their way are copies of PDUs that were sent.
QueuedIs(pdus, sent, number) ==
  \A i \in DOMAIN pdus : pdus[i].sn < number /\ pdus[i].units = sent[pdus[i].sn]

\* What arrives and what is held back was sent, and what was read is not beyond
\* VR(UR), behind which everything waits.
OrderIs(sent) ==
  /\ StreamIs(sent, sequenceNumber, txon, offered)
  /\ QueuedIs(dataPdus, sent, sequenceNumber)
  /\ HeldIs(rxBuffer, sent, sequenceNumber)
  /\ ReadIs(reassembly, sent, sequenceNumber)
  /\ reassembly.expected <= vr.ur

OrderInv == UmInv /\ \E sent \in [SNs -> Pieces] : OrderIs(sent)

\* The buffer after an interval has been read.
LEMMA IntervalHolds ==
  ASSUME NEW sent, NEW number, NEW rx, rx.buffer \in Buffers, HeldIs(rx.buffer, sent, number),
         NEW sns
  PROVE  HeldIs(Deliver(rx, sns).buffer, sent, number)
<1>1. \A sn \in SNs : Deliver(rx, sns).buffer[sn] =
        IF \E i \in DOMAIN sns : sns[i] = sn THEN <<>> ELSE rx.buffer[sn]
  BY DeliverTakesOut
<1>2. \A sn \in SNs : Deliver(rx, sns).buffer[sn] # <<>> =>
        rx.buffer[sn] # <<>> /\ Deliver(rx, sns).buffer[sn] = rx.buffer[sn]
  BY <1>1
<1> QED
  BY <1>2 DEF HeldIs

LEMMA PlaceReads ==
  ASSUME UmTypeInv, WindowIs(rxBuffer, vr.ur, vr.uh),
         NEW pdu \in Pdus, pdu.sn + 1 < Modulus, vr.uh <= pdu.sn + 2,
         ~IsDiscarded(pdu.sn), Place(pdu),
         NEW sent \in [SNs -> Pieces], NEW number \in SNs, NEW waiting, NEW last,
         StreamIs(sent, number, waiting, last), HeldIs(rxBuffer, sent, number),
         ReadIs(reassembly, sent, number), reassembly.expected <= vr.ur,
         pdu.sn < number, pdu.units = sent[pdu.sn]
  PROVE  /\ HeldIs(rxBuffer', sent, number)
         /\ ReadIs(reassembly', sent, number) /\ reassembly'.expected <= vr'.ur
<1>1. PICK a \in SNs, sn \in SNs : a = vr.ur /\ sn = pdu.sn
  BY DEF UmTypeInv, TypeOK, Pdus
<1>2. PICK uh \in SNs, low \in SNs, high \in SNs : \E placed, moved :
        PlaceSteps(pdu, uh, low, high, placed, moved)
  BY PlaceInSteps
<1>3. PICK placed, moved : PlaceSteps(pdu, uh, low, high, placed, moved)
  BY <1>2
<1>4. /\ placed.reassembly = reassembly /\ placed.buffer \in Buffers
      /\ placed.buffer = [rxBuffer EXCEPT ![sn] = pdu.units]
      /\ \A n \in SNs : placed.buffer[n] # <<>> => a <= n /\ n < uh
      /\ moved = placed \/ moved = ReassembleOutsideWindow(placed, uh)
      /\ moved.buffer \in Buffers
      /\ a <= low /\ low <= high /\ high <= uh /\ uh <= low + Window
      /\ rxBuffer' = ReassembleSnInterval(moved, low, high, uh).buffer
      /\ reassembly' = ReassembleSnInterval(moved, low, high, uh).reassembly
      /\ Reordering(high, uh)
  BY <1>1, <1>3 DEF PlaceSteps
<1>5. /\ \A n \in SNs : n \in Nat /\ n < Modulus
      /\ Window \in Nat /\ a \in Nat /\ uh \in Nat /\ low \in Nat /\ high \in Nat
  BY UmConstants
<1>6. reassembly \in States /\ reassembly.expected \in Nat /\ reassembly.expected <= a
  BY <1>1, <1>5 DEF ReadIs, States
<1>7. HeldIs(placed.buffer, sent, number)
  <2>1. rxBuffer \in Buffers
    BY DEF UmTypeInv, TypeOK, Buffers, Units
  <2>2. \A n \in SNs : placed.buffer[n] = IF n = sn THEN sent[sn] ELSE rxBuffer[n]
    BY <1>1, <1>4, <2>1 DEF Buffers
  <2> QED
    BY <1>1, <2>2 DEF HeldIs
<1>8. /\ HeldIs(moved.buffer, sent, number)
      /\ ReadIs(moved.reassembly, sent, number) /\ moved.reassembly.expected <= low
  <2>1. CASE moved = placed
    BY <1>4, <1>5, <1>6, <1>7, <2>1
  <2>2. CASE moved = ReassembleOutsideWindow(placed, uh)
    <3>1. \A n \in Held(placed.buffer) : placed.reassembly.expected <= n
      BY <1>4, <1>5, <1>6 DEF Held
    <3>2. ASSUME NEW n \in Held(placed.buffer), ~Inside(n, uh) PROVE n < low
      <4>1. n \in SNs /\ n < uh
        BY <1>4 DEF Held
      <4>2. ~(uh <= n + Window)
        BY <3>2, <4>1, InsideIsBehind
      <4> QED
        BY <1>4, <1>5, <4>1, <4>2
    <3>3. placed.reassembly.expected <= low /\ ReadIs(placed.reassembly, sent, number)
      BY <1>4, <1>5, <1>6
    <3>4. /\ ReadIs(moved.reassembly, sent, number)
          /\ moved.reassembly.expected <= low
      BY <1>4, <1>5, <1>7, <2>2, <3>1, <3>2, <3>3, OutsideReads
    <3>5. HeldIs(moved.buffer, sent, number)
      BY <1>4, <1>7, <2>2, IntervalHolds DEF ReassembleOutsideWindow
    <3> QED
      BY <3>4, <3>5
  <2> QED
    BY <1>4, <2>1, <2>2
<1>9. HeldIs(rxBuffer', sent, number)
  BY <1>4, <1>8, IntervalHolds DEF ReassembleSnInterval
<1>10. ReadIs(reassembly', sent, number) /\ reassembly'.expected <= high
  BY <1>4, <1>8, IntervalReads
<1>11. vr'.ur = high
  BY <1>4, ReorderingTypes
<1> QED
  BY <1>9, <1>10, <1>11

LEMMA ExpiryReads ==
  ASSUME UmTypeInv, WindowIs(rxBuffer, vr.ur, vr.uh),
         TimerIs(reorderingTimer, vr.ur, vr.ux, vr.uh), ExpireReorderingTimer,
         NEW sent \in [SNs -> Pieces], NEW number \in SNs, NEW waiting, NEW last,
         StreamIs(sent, number, waiting, last), HeldIs(rxBuffer, sent, number),
         ReadIs(reassembly, sent, number), reassembly.expected <= vr.ur
  PROVE  /\ HeldIs(rxBuffer', sent, number)
         /\ ReadIs(reassembly', sent, number) /\ reassembly'.expected <= vr'.ur
<1>1. PICK a \in SNs, x \in SNs, h \in SNs : a = vr.ur /\ x = vr.ux /\ h = vr.uh
  BY DEF UmTypeInv, TypeOK
<1> DEFINE ur == Plus(x, Min({i \in 0 .. Modulus : i = Modulus \/ rxBuffer[Plus(x, i)] = <<>>}))
           rx == [buffer |-> rxBuffer, reassembly |-> reassembly]
           done == ReassembleSnInterval(rx, a, ur, h)
<1>2. /\ reorderingTimer /\ rxBuffer' = done.buffer /\ reassembly' = done.reassembly
      /\ vr'.ur = ur
  <2>1. vr \in [ur : SNs, ux : SNs, uh : SNs]
    BY DEF UmTypeInv, TypeOK
  <2> QED
    BY <1>1, <2>1 DEF ExpireReorderingTimer
<1>3. /\ \A n \in SNs : n \in Nat /\ n < Modulus
      /\ Window \in Nat /\ a \in Nat /\ x \in Nat /\ h \in Nat
  BY UmConstants
<1>4. /\ a <= h /\ h <= a + Window /\ a < h /\ a < x /\ x <= h
      /\ \A n \in SNs : rxBuffer[n] # <<>> => a < n /\ n < h
  BY <1>1, <1>2 DEF WindowIs, TimerIs
<1>5. rxBuffer[h] = <<>>
  BY <1>3, <1>4
<1>6. ur \in SNs /\ x <= ur /\ ur <= h
  BY <1>4, <1>5, GapFound
<1>7. rx.buffer = rxBuffer /\ rx.reassembly = reassembly /\ rx.buffer \in Buffers
  BY DEF UmTypeInv, TypeOK, Buffers, Units
<1> HIDE DEF ur, rx
<1>8. a <= ur
  BY <1>3, <1>4, <1>6
<1>9. rx.reassembly.expected <= a /\ ReadIs(rx.reassembly, sent, number)
  BY <1>1, <1>7
<1>10. ReadIs(done.reassembly, sent, number) /\ done.reassembly.expected <= ur
  BY <1>4, <1>6, <1>7, <1>8, <1>9, IntervalReads
<1>11. HeldIs(done.buffer, sent, number)
  BY <1>7, IntervalHolds DEF ReassembleSnInterval
<1> QED
  BY <1>2, <1>10, <1>11

\* The PDUs that are left are PDUs that were on their way.
LEMMA QueuedAreLeft ==
  ASSUME NEW pdus \in Seq(Pdus), NEW sent, NEW number, QueuedIs(pdus, sent, number),
         NEW others \in Seq(Pdus), NEW k,
         Lengthened(others, pdus, k, pdus[k])
  PROVE  QueuedIs(others, sent, number)
<1>1. \A i \in DOMAIN others : \E j \in DOMAIN pdus : pdus[j] = others[i]
  BY ElementsOfLengthened
<1> QED
  BY <1>1 DEF QueuedIs

LEMMA QueuedAfterArrival ==
  ASSUME UmTypeInv, NEW i, DoReceivePdu(i),
         NEW sent, NEW number, QueuedIs(dataPdus, sent, number)
  PROVE  /\ dataPdus[i].sn < number /\ dataPdus[i].units = sent[dataPdus[i].sn]
         /\ QueuedIs(dataPdus', sent, number)
<1>1. PICK pdus \in Seq(Pdus) : pdus = dataPdus
  BY DEF UmTypeInv
<1>2. /\ i \in DOMAIN pdus /\ dataPdus' \in Seq(Pdus) /\ dataPdus' = Others(i)
      /\ QueuedIs(pdus, sent, number)
  BY <1>1, PduIsReceived
<1>3. PICK others \in Seq(Pdus) : others = dataPdus'
  BY <1>2
<1>4. pdus[i].sn < number /\ pdus[i].units = sent[pdus[i].sn]
  BY <1>2 DEF QueuedIs
<1>5. CASE i # 2
  <2>1. Lengthened(others, pdus, i, pdus[i])
    BY <1>1, <1>2, <1>3, <1>5, RemoveAtShortens DEF Others
  <2>2. QueuedIs(others, sent, number)
    BY <1>2, <2>1, QueuedAreLeft
  <2> QED
    BY <1>1, <1>3, <1>4, <2>2
<1>6. CASE i = 2
  <2> DEFINE e == [pdus[1] EXCEPT !.overtaken = TRUE]  m == [pdus EXCEPT ![1] = e]
  <2>1. DOMAIN pdus = 1 .. Len(pdus) /\ Len(pdus) \in Nat /\ 1 \in 1 .. Len(pdus) /\ 2 \in DOMAIN pdus
    BY <1>2, <1>6, LenProperties
  <2>2. pdus[1] \in Pdus
    BY <2>1, ElementOfSeq
  <2>3. e \in Pdus /\ e.sn = pdus[1].sn /\ e.units = pdus[1].units
    BY <2>2 DEF Pdus
  <2>4. others = RemoveAt(m, 2)
    BY <1>1, <1>2, <1>3, <1>6 DEF Others
  <2> HIDE DEF e
  <2>5. /\ m \in Seq(Pdus) /\ Len(m) = Len(pdus) /\ m[1] = e
        /\ \A j \in 1 .. Len(pdus) : j # 1 => m[j] = pdus[j]
    BY <2>1, <2>3, ExceptSeq
  <2>6. PICK marked \in Seq(Pdus) : marked = m
    BY <2>5
  <2>7. DOMAIN marked = DOMAIN pdus
    BY <2>1, <2>5, <2>6, LenProperties
  <2>8. /\ marked[1] = e /\ \A j \in DOMAIN pdus : j # 1 => marked[j] = pdus[j]
        /\ others = RemoveAt(marked, 2)
    BY <2>1, <2>4, <2>5, <2>6
  <2> HIDE DEF m
  <2>9. QueuedIs(marked, sent, number)
    BY <1>2, <2>1, <2>3, <2>7, <2>8 DEF QueuedIs
  <2>10. Lengthened(others, marked, 2, marked[2])
    BY <2>1, <2>7, <2>8, RemoveAtShortens
  <2>11. QueuedIs(others, sent, number)
    BY <2>9, <2>10, QueuedAreLeft
  <2> QED
    BY <1>1, <1>3, <1>4, <2>11
<1> QED
  BY <1>5, <1>6

\* What is sent next is behind what is on its way, held back or read.
GivesPdu(n) ==
  DoNotifyTxOpportunity(n) /\ n > 0 /\ txon # <<>> /\ SendPdu(Min({n, Len(txon)}))
PduIsGiven == \E n \in Grants : GivesPdu(n)

LEMMA OrderAfterPdu ==
  ASSUME UmInv, NoWrap, NEW sent \in [SNs -> Pieces], OrderIs(sent), PduIsGiven
  PROVE  \E number \in SNs, waiting \in Pieces, m \in 1 .. Len(txon) :
           /\ number = sequenceNumber /\ number + 1 < Modulus /\ waiting = txon
           /\ txon' = SubSeq(waiting, m + 1, Len(waiting)) /\ sequenceNumber' = number + 1
           /\ [sent EXCEPT ![number] = SubSeq(waiting, 1, m)] \in [SNs -> Pieces]
           /\ OrderIs([sent EXCEPT ![number] = SubSeq(waiting, 1, m)])'
<1>0. PICK n \in Grants :
        DoNotifyTxOpportunity(n) /\ n > 0 /\ txon # <<>> /\ SendPdu(Min({n, Len(txon)}))
  BY DEF PduIsGiven, GivesPdu
<1>1. PICK number \in SNs, waiting \in Pieces, last \in Nat, pdus \in Seq(Pdus) :
        number = sequenceNumber /\ waiting = txon /\ last = offered /\ pdus = dataPdus
  BY UmNumbers DEF UmInv, UmTypeInv, TypeOK, Units, Pieces
<1>2. PICK m \in 1 .. Len(waiting) :
        /\ txon' = SubSeq(waiting, m + 1, Len(waiting))
        /\ dataPdus' = Append(pdus, [sn |-> number, units |-> SubSeq(waiting, 1, m),
                                     overtaken |-> FALSE])
  BY <1>0, <1>1, UmConstants, PduIsCut DEF Pieces
<1>3. sequenceNumber' = number + 1 /\ number + 1 < Modulus
  <2>1. /\ Len(txon') \in Nat /\ Len(txon') < Len(txon) /\ sequenceNumber' = Plus(number, 1)
    BY <1>0, <1>1, UmConstants, PduIsSent DEF UmInv
  <2>2. number + 1 < Modulus
    BY <1>1, <2>1, UmNumbers, UmConstants
  <2> QED
    BY <2>1, <2>2, SumOfNumbers
<1>4. UNCHANGED <<rxBuffer, vr, reassembly, offered>>
  BY <1>0 DEF DoNotifyTxOpportunity, receiver
<1>5. StreamIs(sent, number, waiting, last) /\ waiting # <<>>
  BY <1>0, <1>1 DEF OrderIs
<1> DEFINE units == SubSeq(waiting, 1, m)  rest == SubSeq(waiting, m + 1, Len(waiting))
           after == [sent EXCEPT ![number] = units]
<1>6. units \in Pieces /\ StreamIs(after, number + 1, rest, last)
  <2>1. Chain(waiting)
    BY <1>5 DEF StreamIs
  <2> QED
    BY <1>5, <2>1, ChainIsSplit, StreamGivesPdu
<1>7. after \in [SNs -> Pieces] /\ \A a \in SNs : after[a] = IF a = number THEN units ELSE sent[a]
  BY <1>6
<1>8. ReadIs(reassembly, after, number + 1)
  <2>1. PICK rs : rs = reassembly
    OBVIOUS
  <2>2. ReadIs(rs, sent, number)
    BY <1>1, <2>1 DEF OrderIs
  <2>3. ReadIs(rs, [sent EXCEPT ![number] = units], number + 1)
    BY <1>6, <2>2, ReadAfterPdu
  <2> QED
    BY <2>1, <2>3
<1> HIDE DEF units, rest, after
<1>9. \A a \in SNs : a \in Nat
  BY UmConstants
<1>10. HeldIs(rxBuffer, after, number + 1)
  <2>1. HeldIs(rxBuffer, sent, number)
    BY <1>1 DEF OrderIs
  <2>2. \A a \in SNs : a < number => a < number + 1 /\ after[a] = sent[a]
    BY <1>7, <1>9
  <2> QED
    BY <2>1, <2>2 DEF HeldIs
<1>11. QueuedIs(dataPdus', after, number + 1)
  <2> DEFINE e == [sn |-> number, units |-> units, overtaken |-> FALSE]  l == Len(pdus)
             longer == Append(pdus, e)
  <2>1. e \in Pdus /\ e.sn = number /\ e.units = units
    BY <1>6 DEF Pdus, Pieces
  <2> HIDE DEF e
  <2>2. /\ longer \in Seq(Pdus) /\ Len(longer) = l + 1 /\ longer[l + 1] = e
        /\ \A i \in 1 .. l : longer[i] = pdus[i]
    BY <2>1, AppendProperties
  <2>3. /\ l \in Nat /\ DOMAIN pdus = 1 .. l /\ DOMAIN longer = 1 .. l + 1
        /\ \A i \in 1 .. l : pdus[i] \in Pdus
    BY <2>2, LenProperties, ElementOfSeq
  <2>4. longer = dataPdus'
    BY <1>2 DEF e, units
  <2>5. QueuedIs(pdus, sent, number)
    BY <1>1 DEF OrderIs
  <2> HIDE DEF longer, l
  <2>6. ASSUME NEW i \in 1 .. l + 1
        PROVE  longer[i].sn < number + 1 /\ longer[i].units = after[longer[i].sn]
    <3>1. CASE i \in 1 .. l
      <4>1. /\ longer[i] = pdus[i] /\ pdus[i].sn \in SNs
            /\ pdus[i].sn < number /\ pdus[i].units = sent[pdus[i].sn]
        BY <2>2, <2>3, <2>5, <3>1 DEF QueuedIs, Pdus
      <4> QED
        BY <1>7, <1>9, <4>1
    <3>2. CASE i = l + 1
      BY <1>7, <1>9, <2>1, <2>2, <3>2
    <3> QED
      BY <2>3, <3>1, <3>2
  <2> QED
    BY <2>3, <2>4, <2>6 DEF QueuedIs
<1>12. reassembly.expected <= vr.ur
  BY DEF OrderIs
<1>13. OrderIs(after)'
  BY <1>1, <1>2, <1>3, <1>4, <1>6, <1>8, <1>10, <1>11, <1>12 DEF OrderIs, rest
<1> QED
  BY <1>1, <1>2, <1>3, <1>7, <1>13 DEF after, units

LEMMA OrderOtherwise ==
  ASSUME UmInv, NoWrap, NEW sent \in [SNs -> Pieces], OrderIs(sent), [Next]_vars, ~PduIsGiven
  PROVE  OrderIs(sent)'
<1>1. /\ StreamIs(sent, sequenceNumber, txon, offered)
      /\ QueuedIs(dataPdus, sent, sequenceNumber)
      /\ HeldIs(rxBuffer, sent, sequenceNumber)
      /\ ReadIs(reassembly, sent, sequenceNumber) /\ reassembly.expected <= vr.ur
  BY DEF OrderIs
<1>2. CASE UNCHANGED <<sequenceNumber, txon, offered, dataPdus, rxBuffer, reassembly, vr>>
  BY <1>1, <1>2 DEF OrderIs
<1>3. /\ UmTypeInv /\ sequenceNumber \in SNs /\ txon \in Pieces /\ offered \in Nat
      /\ WindowIs(rxBuffer, vr.ur, vr.uh)
      /\ TimerIs(reorderingTimer, vr.ur, vr.ux, vr.uh)
  BY DEF UmInv, UmTypeInv, TypeOK, Units, Pieces
<1>4. CASE DoTransmitPdcpPdu
  <2>1. /\ offered' = offered + 1 /\ offered + 1 \in 1 .. NSdus
        /\ txon' = txon \/ txon' = txon \o Sdu(offered + 1)
        /\ UNCHANGED <<sequenceNumber, rxBuffer, vr, reassembly, dataPdus>>
    <3>1. offered < NSdus
      BY <1>4 DEF DoTransmitPdcpPdu
    <3>2. offered + 1 \in 1 .. NSdus
      BY <1>3, <3>1, UmConstants
    <3> QED
      BY <1>4, <3>2 DEF DoTransmitPdcpPdu, receiver
  <2>2. PICK number \in SNs, waiting \in Pieces, last \in Nat :
          number = sequenceNumber /\ waiting = txon /\ last = offered
    BY <1>3
  <2>3. /\ StreamIs(sent, number, waiting, last + 1)
        /\ StreamIs(sent, number, waiting \o Sdu(last + 1), last + 1)
    BY <1>1, <2>1, <2>2, StreamGetsSdu
  <2>4. OrderIs(sent)'
    BY <1>1, <2>1, <2>2, <2>3 DEF OrderIs
  <2> QED
    BY <2>4
<1>5. ASSUME NEW n \in Grants, DoNotifyTxOpportunity(n)
      PROVE  OrderIs(sent)'
  <2>1. UNCHANGED <<rxBuffer, vr, reassembly, offered>>
    BY <1>5 DEF DoNotifyTxOpportunity, receiver
  <2>2. CASE n > 0 /\ txon # <<>> /\ SendPdu(Min({n, Len(txon)}))
    BY <1>5, <2>2 DEF PduIsGiven, GivesPdu
  <2>3. CASE n > 0 /\ txon = <<>> /\ report' = FALSE /\ UNCHANGED <<txon, sequenceNumber, rbsTimer, dataPdus>>
    BY <1>2, <2>1, <2>3
  <2>4. CASE n = 0 /\ UNCHANGED <<sender, dataPdus>>
    BY <1>2, <2>1, <2>4 DEF sender
  <2> QED
    BY <1>5, <2>2, <2>3, <2>4 DEF DoNotifyTxOpportunity
<1>6. CASE ExpireRbsTimer
  BY <1>2, <1>6 DEF ExpireRbsTimer, receiver
<1>7. ASSUME NEW i \in 1 .. 2, DoReceivePdu(i)
      PROVE  OrderIs(sent)'
  <2>1. PICK pdu \in Pdus : pdu = dataPdus[i]
    BY <1>3, <1>7, PduIsReceived
  <2>2. /\ pdu.sn < sequenceNumber /\ pdu.units = sent[pdu.sn]
        /\ QueuedIs(dataPdus', sent, sequenceNumber)
    BY <1>1, <1>3, <1>7, <2>1, QueuedAfterArrival
  <2>3. UNCHANGED <<sequenceNumber, txon, offered>>
    BY <1>7 DEF DoReceivePdu, sender
  <2>4. CASE IsDiscarded(pdu.sn)
    <3>1. UNCHANGED <<rxBuffer, vr, reassembly>>
      BY <1>7, <2>1, <2>4 DEF DoReceivePdu, receiver
    <3> QED
      BY <1>1, <2>2, <2>3, <3>1 DEF OrderIs
  <2>5. CASE ~IsDiscarded(pdu.sn)
    <3>1. pdu.sn + 1 < Modulus /\ vr.uh <= pdu.sn + 2
      BY <1>7, <2>1, ArrivalLeavesTheQueue
    <3>2. Place(pdu)
      BY <1>7, <2>1, <2>5 DEF DoReceivePdu
    <3>3. PICK number \in SNs, waiting \in Pieces, last \in Nat :
            number = sequenceNumber /\ waiting = txon /\ last = offered
      BY <1>3
    <3>4. /\ StreamIs(sent, number, waiting, last) /\ HeldIs(rxBuffer, sent, number)
          /\ ReadIs(reassembly, sent, number) /\ reassembly.expected <= vr.ur
          /\ pdu.sn < number /\ pdu.units = sent[pdu.sn]
      BY <1>1, <2>2, <3>3
    <3>5. /\ HeldIs(rxBuffer', sent, number)
          /\ ReadIs(reassembly', sent, number) /\ reassembly'.expected <= vr'.ur
      BY <1>3, <2>5, <3>1, <3>2, <3>4, PlaceReads
    <3> QED
      BY <2>2, <2>3, <3>3, <3>4, <3>5 DEF OrderIs
  <2> QED
    BY <2>4, <2>5
<1>8. CASE ExpireReorderingTimer
  <2>1. UNCHANGED <<sequenceNumber, txon, offered, dataPdus>>
    BY <1>8 DEF ExpireReorderingTimer, sender
  <2>2. PICK number \in SNs, waiting \in Pieces, last \in Nat :
          number = sequenceNumber /\ waiting = txon /\ last = offered
    BY <1>3
  <2>3. /\ StreamIs(sent, number, waiting, last) /\ HeldIs(rxBuffer, sent, number)
        /\ ReadIs(reassembly, sent, number) /\ reassembly.expected <= vr.ur
    BY <1>1, <2>2
  <2>4. /\ HeldIs(rxBuffer', sent, number)
        /\ ReadIs(reassembly', sent, number) /\ reassembly'.expected <= vr'.ur
    BY <1>3, <1>8, <2>3, ExpiryReads
  <2>5. OrderIs(sent)'
    BY <1>1, <2>1, <2>2, <2>3, <2>4 DEF OrderIs
  <2> QED
    BY <2>5
<1>9. CASE LosePdu
  <2>1. /\ dataPdus # <<>> /\ dataPdus' = Tail(dataPdus)
        /\ UNCHANGED <<rxBuffer, vr, reassembly, sequenceNumber, txon, offered>>
    BY <1>9 DEF LosePdu, sender, receiver
  <2>2. PICK pdus \in Seq(Pdus) : pdus = dataPdus
    BY <1>3 DEF UmTypeInv
  <2>3. PICK others \in Seq(Pdus) : others = Tail(pdus) /\ Lengthened(others, pdus, 1, pdus[1])
    BY <2>1, <2>2, TailShortens
  <2>4. QueuedIs(others, sent, sequenceNumber)
    BY <1>1, <2>2, <2>3, QueuedAreLeft
  <2>5. OrderIs(sent)'
    BY <1>1, <2>1, <2>2, <2>3, <2>4 DEF OrderIs
  <2> QED
    BY <2>5
<1>10. CASE UNCHANGED vars
  BY <1>2, <1>10 DEF vars, sender, receiver
<1> QED
  BY <1>4, <1>5, <1>6, <1>7, <1>8, <1>9, <1>10 DEF Next, TxOpportunity, ReceivePdu

LEMMA OrderIsKept ==
  ASSUME UmInv, NoWrap, NEW sent \in [SNs -> Pieces], OrderIs(sent), [Next]_vars
  PROVE  \E after \in [SNs -> Pieces] : OrderIs(after)'
<1>1. CASE PduIsGiven
  BY <1>1, OrderAfterPdu
<1>2. CASE ~PduIsGiven
  BY <1>2, OrderOtherwise
<1> QED
  BY <1>1, <1>2

LEMMA OrderInitially ==
  ASSUME Init
  PROVE  \E sent \in [SNs -> Pieces] : OrderIs(sent)
<1> DEFINE sent == [sn \in SNs |-> <<>>]
<1>1. <<>> \in Pieces /\ <<>> \in Seq(Pieces) /\ DOMAIN <<>> = {}
  BY EmptySeq DEF Pieces
<1>2. sent \in [SNs -> Pieces]
  BY <1>1
<1> HIDE DEF sent
<1>3. /\ sequenceNumber = 0 /\ txon = <<>> /\ offered = 0 /\ dataPdus = <<>> /\ vr.ur = 0
      /\ reassembly = InitialReassembly /\ \A sn \in SNs : rxBuffer[sn] = <<>>
  BY DEF Init
<1>4. \A a \in SNs : a \in Nat /\ 0 \in SNs
  BY UmConstants
<1>5. \A a \in SNs : ~(a < 0) /\ ~(a + 1 < 0) /\ a + 1 # 0
  BY <1>4
<1>6. StreamIs(sent, 0, <<>>, 0)
  BY <1>5 DEF StreamIs
<1>7. ReadIs(InitialReassembly, sent, 0) /\ InitialReassembly.expected = 0
  <2>1. InitialReassembly \in States
    BY <1>1, <1>4, UmConstants DEF InitialReassembly, States
  <2> QED
    BY <1>5, <2>1 DEF ReadIs, InitialReassembly
<1>8. QueuedIs(<<>>, sent, 0)
  BY <1>1 DEF QueuedIs
<1>9. HeldIs(rxBuffer, sent, 0)
  BY <1>3 DEF HeldIs
<1>10. OrderIs(sent)
  BY <1>3, <1>6, <1>7, <1>8, <1>9 DEF OrderIs
<1> QED
  BY <1>2, <1>10

LEMMA ReadInOrder ==
  ASSUME NEW sent \in [SNs -> Pieces], OrderIs(sent), UmTypeInv
  PROVE  DeliveredInOrder
<1>1. PICK rs \in States, number \in SNs :
        rs = reassembly /\ number = sequenceNumber /\ ReadIs(rs, sent, number)
  BY DEF OrderIs, ReadIs, UmTypeInv, TypeOK
<1>2. \E p \in Nat : WholeSdus(rs.delivered, 0, p)
  <2>1. CASE rs.expected = 0
    <3>1. rs.delivered = <<>>
      BY <1>1, <2>1 DEF ReadIs
    <3>2. WholeSdus(rs.delivered, 0, 0)
      BY <3>1 DEF WholeSdus
    <3> QED
      BY <3>2
  <2>2. CASE rs.expected # 0
    <3>1. PICK a \in SNs : a + 1 = rs.expected
      <4>1. rs.expected \in Nat /\ rs.expected < Modulus
        BY UmConstants DEF States
      <4>2. rs.expected - 1 \in SNs /\ (rs.expected - 1) + 1 = rs.expected
        BY <2>2, <4>1, UmConstants
      <4> QED
        BY <4>2
    <3>2. WholeSdus(rs.delivered, 0, Passed(Final(sent[a])))
      BY <1>1, <3>1 DEF ReadIs
    <3>3. a < number
      <4>1. a \in Nat /\ number \in Nat /\ rs.expected <= number
        BY <1>1, UmConstants DEF ReadIs
      <4> QED
        BY <3>1, <4>1
    <3>4. PICK c \in Pieces : c = sent[a] /\ Chain(c)
      BY <1>1, <3>3 DEF OrderIs, StreamIs
    <3>5. Passed(Final(c)) \in Nat
      BY <3>4, ChainUnits, UnitParts
    <3> QED
      BY <3>2, <3>4, <3>5
  <2> QED
    BY <2>1, <2>2
<1>3. rs.failed = FALSE
  BY <1>1 DEF ReadIs
<1> QED
  BY <1>1, <1>2, <1>3 DEF WholeSdus, DeliveredInOrder, Number

\* ReassembleAndDeliver of LteRlcUm, with the window and t-Reordering that call
\* it: whatever is lost or overtakes, what is handed up are SDUs, each whole, in
\* the order they were handed in and never twice, and the transition the code
\* calls impossible is never met.  That holds as long as the sequence numbers do
\* not wrap around.
THEOREM SdusArriveInOrder ==
  ASSUME NoWrap
  PROVE  Spec => []DeliveredInOrder
<1>1. Init => OrderInv
  BY UmInvInitially, OrderInitially DEF OrderInv
<1>2. OrderInv /\ [Next]_vars => OrderInv'
  BY UmInvIsKept, OrderIsKept DEF OrderInv
<1>3. OrderInv => DeliveredInOrder
  BY ReadInOrder DEF OrderInv, UmInv
<1> QED
  BY <1>1, <1>2, <1>3, PTL DEF Spec

------------------------------------------------------------------------------
(* How many SDUs a piece of the stream completes. *)

Ended(u) == IF Ends(u) THEN 1 ELSE 0

\* Of low SDUs that were complete before the units, high are behind them.
CountsUp(units, low, high, f) ==
  /\ f[0] = low /\ f[Len(units)] = high
  /\ \A i \in 1 .. Len(units) : f[i] = f[i - 1] + Ended(units[i])
Counts(units, low, high) == \E f \in [0 .. Len(units) -> Nat] : CountsUp(units, low, high, f)

LEMMA CountsOfNothing ==
  ASSUME NEW low, NEW high, Counts(<<>>, low, high)
  PROVE  low = high
BY EmptySeq DEF Counts, CountsUp

LEMMA NothingCounts ==
  ASSUME NEW low \in Nat
  PROVE  Counts(<<>>, low, low)
<1> DEFINE f == [i \in 0 .. 0 |-> low]
<1>1. Len(<<>>) = 0 /\ f \in [0 .. 0 -> Nat] /\ f[0] = low
  BY EmptySeq
<1> HIDE DEF f
<1>2. CountsUp(<<>>, low, low, f)
  BY <1>1 DEF CountsUp
<1> QED
  BY <1>1, <1>2 DEF Counts

LEMMA CountsOfParts ==
  ASSUME NEW s \in Pieces, NEW t \in Pieces, NEW low, NEW mid, NEW high,
         Counts(s, low, mid), Counts(t, mid, high)
  PROVE  Counts(s \o t, low, high)
<1> DEFINE l == Len(s)  n == Len(t)  joined == s \o t
<1>1. /\ joined \in Pieces /\ Len(joined) = l + n /\ l \in Nat /\ n \in Nat
      /\ \A i \in 1 .. l : joined[i] = s[i]
      /\ \A i \in 1 .. n : joined[l + i] = t[i]
  BY JoinedParts DEF Pieces
<1>2. PICK f \in [0 .. l -> Nat] : CountsUp(s, low, mid, f)
  BY DEF Counts
<1>3. PICK g \in [0 .. n -> Nat] : CountsUp(t, mid, high, g)
  BY DEF Counts
<1>4. /\ f[0] = low /\ f[l] = mid /\ \A i \in 1 .. l : f[i] = f[i - 1] + Ended(s[i])
      /\ g[0] = mid /\ g[n] = high /\ \A i \in 1 .. n : g[i] = g[i - 1] + Ended(t[i])
  BY <1>2, <1>3 DEF CountsUp
<1> HIDE DEF l, n, joined
<1> DEFINE h == [i \in 0 .. l + n |-> IF i <= l THEN f[i] ELSE g[i - l]]
<1>5. h \in [0 .. l + n -> Nat]
  <2>1. ASSUME NEW i \in 0 .. l + n PROVE (IF i <= l THEN f[i] ELSE g[i - l]) \in Nat
    <3>1. CASE i <= l
      <4>1. i \in 0 .. l
        BY <1>1, <3>1
      <4> QED
        BY <3>1, <4>1
    <3>2. CASE ~(i <= l)
      <4>1. i - l \in 0 .. n
        BY <1>1, <3>2
      <4> QED
        BY <3>2, <4>1
    <3> QED
      BY <3>1, <3>2
  <2> QED
    BY <2>1
<1>6. /\ \A i \in 0 .. l : h[i] = f[i]
      /\ \A i \in 0 .. n : h[l + i] = g[i]
  <2>1. ASSUME NEW i \in 0 .. l PROVE h[i] = f[i]
    <3>1. i \in 0 .. l + n /\ i <= l
      BY <1>1
    <3> QED
      BY <3>1
  <2>2. ASSUME NEW i \in 0 .. n PROVE h[l + i] = g[i]
    <3>1. CASE i = 0
      <4>1. l \in 0 .. l + n /\ l <= l /\ l + i = l
        BY <1>1, <3>1
      <4>2. h[l] = f[l]
        BY <4>1
      <4> QED
        BY <1>4, <3>1, <4>1, <4>2
    <3>2. CASE i # 0
      <4>1. l + i \in 0 .. l + n /\ ~(l + i <= l) /\ (l + i) - l = i
        BY <1>1, <3>2
      <4> QED
        BY <4>1
    <3> QED
      BY <3>1, <3>2
  <2> QED
    BY <2>1, <2>2
<1> HIDE DEF h
<1>7. h[0] = low /\ h[l + n] = high
  <2>1. 0 \in 0 .. l /\ n \in 0 .. n
    BY <1>1
  <2> QED
    BY <1>4, <1>6, <2>1
<1>8. ASSUME NEW k \in 1 .. l + n
      PROVE  h[k] = h[k - 1] + Ended(joined[k])
  <2>1. CASE k \in 1 .. l
    <3>1. k \in 0 .. l /\ k - 1 \in 0 .. l
      BY <1>1, <2>1
    <3> QED
      BY <1>1, <1>4, <1>6, <2>1, <3>1
  <2>2. CASE ~(k \in 1 .. l)
    <3>1. PICK i \in 1 .. n : k = l + i
      <4>1. k - l \in 1 .. n /\ k = l + (k - l)
        BY <1>1, <2>2
      <4> QED
        BY <4>1
    <3>2. i \in 0 .. n /\ i - 1 \in 0 .. n /\ k - 1 = l + (i - 1)
      BY <1>1, <3>1
    <3>3. h[k] = g[i] /\ h[k - 1] = g[i - 1] /\ joined[k] = t[i]
      BY <1>1, <1>6, <3>1, <3>2
    <3> QED
      BY <1>4, <3>3
  <2> QED
    BY <2>1, <2>2
<1>9. CountsUp(joined, low, high, h)
  BY <1>1, <1>7, <1>8 DEF CountsUp
<1> QED
  BY <1>1, <1>5, <1>9 DEF Counts, joined

\* A stream that is cut in two.
LEMMA CountsAreSplit ==
  ASSUME NEW c \in Pieces, NEW m \in 1 .. Len(c), NEW low, NEW high, Counts(c, low, high)
  PROVE  \E mid \in Nat : /\ Counts(SubSeq(c, 1, m), low, mid)
                          /\ Counts(SubSeq(c, m + 1, Len(c)), mid, high)
<1> DEFINE n == Len(c)  first == SubSeq(c, 1, m)  rest == SubSeq(c, m + 1, n)
<1>1. /\ n \in Nat /\ m \in 0 .. n /\ m \in Nat /\ m <= n
      /\ Len(first) = m /\ \A i \in 1 .. m : first[i] = c[i]
      /\ Len(rest) = n - m /\ \A i \in 1 .. n - m : rest[i] = c[m + i]
  <2>1. n \in Nat
    BY LenProperties DEF Pieces
  <2>2. m \in 0 .. Len(c)
    BY <2>1
  <2> QED
    BY <2>1, <2>2, TwoParts DEF Pieces
<1>2. PICK f \in [0 .. n -> Nat] : CountsUp(c, low, high, f)
  BY DEF Counts
<1>3. f[0] = low /\ f[n] = high /\ \A i \in 1 .. n : f[i] = f[i - 1] + Ended(c[i])
  BY <1>2 DEF CountsUp
<1> HIDE DEF n, first, rest
<1> DEFINE g == [i \in 0 .. m |-> f[i]]  h == [i \in 0 .. n - m |-> f[m + i]]
<1>4. g \in [0 .. m -> Nat] /\ \A i \in 0 .. m : g[i] = f[i]
  <2>1. \A i \in 0 .. m : i \in 0 .. n
    BY <1>1
  <2> QED
    BY <2>1
<1>5. h \in [0 .. n - m -> Nat] /\ \A i \in 0 .. n - m : h[i] = f[m + i]
  <2>1. \A i \in 0 .. n - m : m + i \in 0 .. n
    BY <1>1
  <2> QED
    BY <2>1
<1> HIDE DEF g, h
<1>6. CountsUp(first, low, f[m], g)
  <2>1. 0 \in 0 .. m /\ m \in 0 .. m
    BY <1>1
  <2>2. ASSUME NEW i \in 1 .. m PROVE g[i] = g[i - 1] + Ended(first[i])
    <3>1. i \in 0 .. m /\ i - 1 \in 0 .. m /\ i \in 1 .. n
      BY <1>1
    <3> QED
      BY <1>1, <1>3, <1>4, <3>1
  <2> QED
    BY <1>1, <1>3, <1>4, <2>1, <2>2 DEF CountsUp
<1>7. CountsUp(rest, f[m], high, h)
  <2>1. 0 \in 0 .. n - m /\ n - m \in 0 .. n - m /\ m + 0 = m /\ m + (n - m) = n
    BY <1>1
  <2>2. ASSUME NEW i \in 1 .. n - m PROVE h[i] = h[i - 1] + Ended(rest[i])
    <3>1. /\ i \in 0 .. n - m /\ i - 1 \in 0 .. n - m /\ m + i \in 1 .. n
          /\ m + (i - 1) = (m + i) - 1
      BY <1>1
    <3>2. h[i] = f[m + i] /\ h[i - 1] = f[(m + i) - 1] /\ rest[i] = c[m + i]
      BY <1>1, <1>5, <3>1
    <3> QED
      BY <1>3, <3>1, <3>2
  <2> QED
    BY <1>1, <1>3, <1>5, <2>1, <2>2 DEF CountsUp
<1>8. f[m] \in Nat
  BY <1>1
<1> QED
  BY <1>1, <1>4, <1>5, <1>6, <1>7, <1>8 DEF Counts, first, rest, n

\* The beginning of an SDU completes it with its last unit.
LEMMA BeginningCounts ==
  ASSUME NEW x \in Units, NEW low \in Nat
  PROVE  Counts(Beginning(x), low, low + Ended(x))
<1> DEFINE c == Beginning(x)  l == x[2]
           f == [i \in 0 .. l |-> IF i < SduUnits THEN low ELSE low + 1]
<1>1. /\ Len(c) = l /\ l \in 1 .. SduUnits /\ SduUnits \in Nat /\ x = <<x[1], l>>
      /\ \A k \in 1 .. l : c[k] = <<x[1], k>>
  BY BeginningOfSdu, UnitParts, UmConstants
<1>2. Ends(x) <=> l = SduUnits
  BY UnitParts
<1>3. f \in [0 .. l -> Nat] /\ \A i \in 0 .. l : f[i] = IF i < SduUnits THEN low ELSE low + 1
  OBVIOUS
<1> HIDE DEF c, l, f
<1>4. f[0] = low /\ f[l] = low + Ended(x)
  <2>1. 0 \in 0 .. l /\ l \in 0 .. l /\ 0 < SduUnits
    BY <1>1
  <2>2. CASE l = SduUnits
    <3>1. ~(l < SduUnits) /\ Ended(x) = 1
      BY <1>1, <1>2, <2>2 DEF Ended
    <3> QED
      BY <1>3, <2>1, <3>1
  <2>3. CASE l # SduUnits
    <3>1. l < SduUnits /\ Ended(x) = 0
      BY <1>1, <1>2, <2>3 DEF Ended
    <3> QED
      BY <1>3, <2>1, <3>1
  <2> QED
    BY <2>2, <2>3
<1>5. ASSUME NEW i \in 1 .. l PROVE f[i] = f[i - 1] + Ended(c[i])
  <2>1. i \in 0 .. l /\ i - 1 \in 0 .. l /\ i - 1 < SduUnits
    BY <1>1
  <2>2. c[i] = <<x[1], i>>
    BY <1>1
  <2>3. Ended(c[i]) = IF i = SduUnits THEN 1 ELSE 0
    BY <2>2 DEF Ended, Ends
  <2>4. i < SduUnits <=> i # SduUnits
    BY <1>1
  <2> QED
    BY <1>3, <2>1, <2>3, <2>4
<1>6. CountsUp(c, low, low + Ended(x), f)
  BY <1>1, <1>4, <1>5 DEF CountsUp
<1> QED
  BY <1>1, <1>3, <1>6 DEF Counts, c

LEMMA SduCounts ==
  ASSUME NEW s \in 1 .. NSdus, NEW low \in Nat
  PROVE  Counts(Sdu(s), low, low + 1)
<1>1. PICK x \in Units : x = <<s, SduUnits>>
  <2>1. <<s, SduUnits>> \in Units
    BY UmConstants DEF Units
  <2> QED
    BY <2>1
<1>2. x[1] = s /\ Ends(x) /\ Ended(x) = 1
  BY <1>1 DEF Ends, Ended
<1>3. Beginning(x) = Sdu(s)
  BY <1>2, BeginningOfSdu
<1> QED
  BY <1>2, <1>3, BeginningCounts

\* As many SDUs are cut off as are completed.
LEMMA CutCounts ==
  ASSUME NEW units \in Pieces, NEW low \in Nat, NEW high \in Nat, Counts(units, low, high)
  PROVE  low + Len(Cut(units).whole) = high
<1> DEFINE n == Len(units)
<1>1. PICK f \in [0 .. n -> Nat] : CountsUp(units, low, high, f)
  BY DEF Counts
<1>2. f[0] = low /\ f[n] = high /\ \A i \in 1 .. n : f[i] = f[i - 1] + Ended(units[i])
  BY <1>1 DEF CountsUp
<1>3. n \in Nat /\ \A i \in 1 .. n : units[i] \in Units
  BY LenProperties, ElementOfSeq DEF Pieces
<1> DEFINE Good == [k \in Nat |-> {acc \in Cuts : k <= n => low + Len(acc.whole) = f[k]}]
<1>4. ASSUME NEW k \in Nat, NEW acc \in Cuts, k < n, acc \in Good[k]
      PROVE  CutStep(acc, units[k + 1]) \in Good[k + 1]
  <2>1. PICK z \in Units : z = units[k + 1]
    BY <1>3, <1>4
  <2> DEFINE next == CutStep(acc, z)
  <2>2. next \in Cuts
    BY CutStepType
  <2>3. acc.whole \in Seq(Pieces) /\ Append(acc.rest, z) \in Pieces
    BY AppendProperties DEF Cuts, Pieces
  <2>4. Len(acc.whole) \in Nat /\ low + Len(acc.whole) = f[k]
    BY <1>3, <1>4, <2>3, LenProperties
  <2>5. f[k + 1] = f[k] + Ended(z)
    <3>1. k + 1 \in 1 .. n /\ (k + 1) - 1 = k
      BY <1>3, <1>4
    <3> QED
      BY <1>2, <2>1, <3>1
  <2>6. Len(next.whole) = Len(acc.whole) + Ended(z)
    <3>1. CASE Ends(z)
      <4>1. next.whole = Append(acc.whole, Append(acc.rest, z)) /\ Ended(z) = 1
        BY <3>1, CutStepType DEF Ended
      <4> HIDE DEF next
      <4>2. Len(next.whole) = Len(acc.whole) + 1
        BY <2>3, <4>1, AppendProperties
      <4> QED
        BY <4>1, <4>2
    <3>2. CASE ~Ends(z)
      <4>1. next.whole = acc.whole /\ Ended(z) = 0
        BY <3>2, CutStepType DEF Ended
      <4> HIDE DEF next
      <4> QED
        BY <2>4, <4>1
    <3> QED
      BY <3>1, <3>2
  <2> HIDE DEF next
  <2>7. low + Len(next.whole) = f[k + 1]
    <3>1. Ended(z) \in Nat
      BY DEF Ended
    <3> QED
      BY <2>4, <2>5, <2>6, <3>1
  <2>8. next \in Good[k + 1]
    BY <2>2, <2>7
  <2> QED
    BY <2>1, <2>8 DEF next
<1>5. NothingCut \in Good[0]
  <2>1. <<>> \in Pieces /\ <<>> \in Seq(Pieces) /\ Len(<<>>) = 0
    BY EmptySeq DEF Pieces
  <2>2. NothingCut \in Cuts /\ low + Len(NothingCut.whole) = low
    BY <2>1 DEF NothingCut, Cuts
  <2> QED
    BY <1>2, <2>2
<1>6. Good[n] \subseteq {acc \in Cuts : low + Len(acc.whole) = f[n]}
  BY <1>3
<1>7. Cut(units) \in Good[n]
  <2>1. \A k \in Nat : \A acc \in Cuts :
          k < Len(units) /\ acc \in Good[k] => CutStep(acc, units[k + 1]) \in Good[k + 1]
    BY <1>4
  <2> HIDE DEF Good
  <2> QED
    BY <1>5, <2>1, CutByUnits
<1> QED
  BY <1>2, <1>6, <1>7
------------------------------------------------------------------------------
(* Reading without a loss. *)

\* All PDUs before ur have been read and no other, one after the other.
AllRead(rs, sent, count, ur) ==
  /\ rs.expected = ur /\ Len(rs.delivered) = count[ur]
  /\ \A a \in SNs : a + 1 = ur => rs.keepS0 = Kept(Final(sent[a]))

\* How many SDUs the stream completes before each PDU, and in all.
StreamCounts(sent, count, number, waiting, total) ==
  /\ count[0] = 0
  /\ \A a \in SNs : a < number => Counts(sent[a], count[a], count[a + 1])
  /\ Counts(waiting, count[number], total)
  /\ IF number = 0 THEN waiting # <<>> => Begins(waiting[1]) ELSE Begins(sent[0][1])

LEMMA PossibleReading ==
  ASSUME NEW rs \in States, NEW sn \in SNs, NEW units \in Pieces, ~Impossible(rs, sn, units)
  PROVE  /\ Reassemble(rs, sn, units).expected = Plus(sn, 1)
         /\ Reassemble(rs, sn, units).keepS0 = Cut(CutFrom(rs, sn, units)).rest
         /\ Reassemble(rs, sn, units).delivered = rs.delivered \o Cut(CutFrom(rs, sn, units)).whole
BY ReassembleIs

LEMMA NextIsRead ==
  ASSUME NEW rs \in States, NEW sn \in SNs, sn = rs.expected, sn + 1 < Modulus,
         NEW units \in Pieces, Chain(units),
         NEW high \in Nat, Counts(units, Len(rs.delivered), high),
         \/ rs.keepS0 = <<>> /\ Begins(units[1])
         \/ \E x \in Units : ~Ends(x) /\ rs.keepS0 = Beginning(x) /\ Follows(x, units[1])
  PROVE  LET next == Reassemble(rs, sn, units)
         IN /\ next.expected = sn + 1 /\ Len(next.delivered) = high
            /\ next.keepS0 = Kept(Final(units))
<1> DEFINE from == CutFrom(rs, sn, units)  cut == Cut(from)  next == Reassemble(rs, sn, units)
<1>1. PICK before \in Nat : before = Len(rs.delivered)
  BY LenProperties DEF States
<1>2. /\ ~Impossible(rs, sn, units) /\ from \in Pieces
      /\ Chain(from) /\ Begins(from[1]) /\ Final(from) = Final(units)
      /\ Counts(from, before, high)
  <2>1. CASE rs.keepS0 = <<>> /\ Begins(units[1])
    <3>1. from = units /\ ~Impossible(rs, sn, units)
      BY <2>1 DEF CutFrom, Impossible
    <3> HIDE DEF from
    <3> QED
      BY <1>1, <2>1, <3>1
  <2>2. ASSUME NEW x \in Units, ~Ends(x), rs.keepS0 = Beginning(x), Follows(x, units[1])
        PROVE  /\ ~Impossible(rs, sn, units) /\ from \in Pieces
               /\ Chain(from) /\ Begins(from[1]) /\ Final(from) = Final(units)
               /\ Counts(from, before, high)
    <3>1. Beginning(x) \in Pieces /\ Beginning(x) # <<>>
      BY BeginningIsChain DEF Chain
    <3>2. units[1] \in Units
      BY ChainUnits
    <3>3. ~Begins(units[1])
      BY <2>2, <3>2, FollowingUnit
    <3>4. from = Beginning(x) \o units /\ ~Impossible(rs, sn, units)
      BY <2>2, <3>1, <3>3 DEF CutFrom, Impossible
    <3>5. Counts(Beginning(x), before, before)
      <4>1. Ended(x) = 0 /\ before + 0 = before
        BY <2>2 DEF Ended
      <4>2. Counts(Beginning(x), before, before + Ended(x))
        BY BeginningCounts
      <4> QED
        BY <4>1, <4>2
    <3>6. Counts(units, before, high)
      BY <1>1
    <3>7. Counts(Beginning(x) \o units, before, high)
      BY <3>1, <3>5, <3>6, CountsOfParts
    <3>8. /\ Beginning(x) \o units \in Pieces /\ Chain(Beginning(x) \o units)
          /\ Begins((Beginning(x) \o units)[1])
          /\ Final(Beginning(x) \o units) = Final(units)
      BY <2>2, ChainIsJoined
    <3> HIDE DEF from
    <3> QED
      BY <3>4, <3>7, <3>8
  <2> QED
    BY <2>1, <2>2
<1>3. /\ next.expected = Plus(sn, 1)
      /\ next.keepS0 = cut.rest /\ next.delivered = rs.delivered \o cut.whole
  BY <1>2, PossibleReading
<1>4. cut.rest = Kept(Final(units)) /\ cut.whole \in Seq(Pieces)
  <2> HIDE DEF from
  <2>1. cut.rest = Kept(Final(from))
    BY <1>2, CutOfChain
  <2>2. cut.whole \in Seq(Pieces)
    BY <1>2, CutType
  <2> QED
    BY <1>2, <2>1, <2>2
<1>5. before + Len(cut.whole) = high
  <2> HIDE DEF from
  <2> QED
    BY <1>2, CutCounts
<1> HIDE DEF cut, next
<1>6. Len(next.delivered) = high
  <2>1. rs.delivered \in Seq(Pieces)
    BY DEF States
  <2>2. Len(rs.delivered \o cut.whole) = Len(rs.delivered) + Len(cut.whole)
    BY <1>4, <2>1, ConcatProperties
  <2> QED
    BY <1>1, <1>3, <1>5, <2>2
<1>7. next.expected = sn + 1
  BY <1>3, SumOfNumbers
<1> QED
  BY <1>3, <1>4, <1>6, <1>7 DEF next

LEMMA NextPduIsRead ==
  ASSUME NEW sent \in [SNs -> Pieces], NEW number \in SNs, NEW waiting, NEW last,
         StreamIs(sent, number, waiting, last),
         NEW count \in [SNs -> Nat], NEW total, StreamCounts(sent, count, number, waiting, total),
         NEW rs, ReadIs(rs, sent, number), NEW sn \in SNs, AllRead(rs, sent, count, sn),
         sn < number
  PROVE  AllRead(Reassemble(rs, sn, sent[sn]), sent, count, sn + 1)
<1>1. /\ \A n \in SNs : n \in Nat /\ n < Modulus
      /\ sn + 1 < Modulus /\ sn + 1 \in SNs
  BY UmConstants
<1>2. /\ rs \in States /\ rs.expected = sn /\ Len(rs.delivered) = count[sn]
      /\ rs.expected = 0 => rs.keepS0 = <<>>
  BY DEF ReadIs, AllRead
<1>3. PICK units \in Pieces : units = sent[sn] /\ Chain(units)
  BY DEF StreamIs
<1>4. PICK high \in Nat : high = count[sn + 1] /\ Counts(units, count[sn], high)
  BY <1>1, <1>3 DEF StreamCounts
<1>5. \/ rs.keepS0 = <<>> /\ Begins(units[1])
      \/ \E x \in Units : ~Ends(x) /\ rs.keepS0 = Beginning(x) /\ Follows(x, units[1])
  <2>1. CASE sn = 0
    <3>1. rs.keepS0 = <<>> /\ number # 0
      BY <1>1, <1>2, <2>1
    <3>2. Begins(sent[0][1])
      BY <3>1 DEF StreamCounts
    <3> QED
      BY <1>3, <2>1, <3>1, <3>2
  <2>2. CASE sn # 0
    <3>1. PICK a \in SNs : a + 1 = sn
      <4>1. sn - 1 \in SNs /\ (sn - 1) + 1 = sn
        BY <1>1, <2>2, UmConstants
      <4> QED
        BY <4>1
    <3>2. a < number
      BY <1>1, <3>1
    <3>3. PICK c \in Pieces : c = sent[a] /\ Chain(c)
      BY <3>2 DEF StreamIs
    <3>4. PICK x \in Units : x = Final(c)
      BY <3>3, ChainUnits
    <3>5. Follows(x, units[1])
      BY <1>3, <3>1, <3>3, <3>4 DEF StreamIs
    <3>6. rs.keepS0 = Kept(x)
      BY <3>1, <3>3, <3>4 DEF AllRead
    <3>7. CASE Ends(x)
      <4>1. Begins(units[1])
        BY <3>5, <3>7 DEF Follows
      <4> QED
        BY <3>6, <3>7, <4>1 DEF Kept
    <3>8. CASE ~Ends(x)
      <4>1. rs.keepS0 = Beginning(x)
        BY <3>6, <3>8 DEF Kept
      <4> QED
        BY <3>5, <3>8, <4>1
    <3> QED
      BY <3>7, <3>8
  <2> QED
    BY <2>1, <2>2
<1> DEFINE next == Reassemble(rs, sn, units)
<1>6. /\ next.expected = sn + 1 /\ Len(next.delivered) = high
      /\ next.keepS0 = Kept(Final(units))
  <2>1. sn = rs.expected /\ Counts(units, Len(rs.delivered), high)
    BY <1>2, <1>4
  <2> QED
    BY <1>1, <1>2, <1>3, <1>5, <2>1, NextIsRead
<1> HIDE DEF next
<1>7. \A a \in SNs : a + 1 = sn + 1 => a = sn
  BY <1>1
<1>8. AllRead(next, sent, count, sn + 1)
  BY <1>3, <1>4, <1>6, <1>7 DEF AllRead
<1> QED
  BY <1>3, <1>8 DEF next

LEMMA DeliverReadsAll ==
  ASSUME NEW sent \in [SNs -> Pieces], NEW number \in SNs, NEW waiting, NEW last,
         StreamIs(sent, number, waiting, last),
         NEW count \in [SNs -> Nat], NEW total, StreamCounts(sent, count, number, waiting, total),
         NEW rx, rx.buffer \in Buffers, ReadIs(rx.reassembly, sent, number),
         NEW low \in Nat, NEW n \in Nat, low + n <= number,
         AllRead(rx.reassembly, sent, count, low),
         \A sn \in SNs : low <= sn /\ sn < low + n => rx.buffer[sn] = sent[sn],
         NEW sns, sns = [i \in 1 .. n |-> low + (i - 1)]
  PROVE  AllRead(Deliver(rx, sns).reassembly, sent, count, low + n)
<1> DEFINE buffer == rx.buffer
           Good == [k \in Nat |-> {rs \in States :
                      ReadIs(rs, sent, number) /\ AllRead(rs, sent, count, low + k)}]
<1>1. /\ \A k \in SNs : k \in Nat /\ k < Modulus
      /\ \A k \in Nat : k < Modulus => k \in SNs
  BY UmConstants
<1>2. /\ sns \in [1 .. n -> SNs]
      /\ \A k \in Nat : k < n => sns[k + 1] = low + k /\ low + k \in SNs /\ low + k < number
  <2>1. ASSUME NEW i \in 1 .. n PROVE low + (i - 1) \in SNs
    <3>1. low + (i - 1) \in Nat /\ low + (i - 1) < Modulus
      BY <1>1, UmConstants
    <3> QED
      BY <1>1, <3>1
  <2>2. ASSUME NEW k \in Nat, k < n
        PROVE  sns[k + 1] = low + k /\ low + k \in SNs /\ low + k < number
    <3>1. k + 1 \in 1 .. n /\ (k + 1) - 1 = k
      BY <2>2
    <3>2. sns[k + 1] = low + k /\ low + k \in SNs
      BY <2>1, <3>1
    <3>3. low + k < number
      BY <1>1, <2>2
    <3> QED
      BY <3>2, <3>3
  <2> QED
    BY <2>1, <2>2
<1>3. buffer \in [SNs -> Pieces] /\ rx.reassembly \in States
  BY DEF Buffers, Pieces, ReadIs
<1>4. ASSUME NEW k \in Nat, NEW rs \in States, k < n, rs \in Good[k]
      PROVE  DeliverStep(rs, buffer, sns[k + 1]) \in Good[k + 1]
  <2>1. PICK sn \in SNs : sn = low + k /\ sn = sns[k + 1] /\ sn < number
    BY <1>2, <1>4
  <2>2. ReadIs(rs, sent, number) /\ AllRead(rs, sent, count, sn)
    BY <1>4, <2>1
  <2>3. buffer[sn] = sent[sn] /\ buffer[sn] # <<>>
    <3>1. low <= sn /\ sn < low + n
      BY <1>4, <2>1
    <3>2. Chain(sent[sn])
      BY <2>1 DEF StreamIs
    <3> QED
      BY <3>1, <3>2 DEF Chain
  <2> HIDE DEF buffer
  <2>4. AllRead(Reassemble(rs, sn, sent[sn]), sent, count, sn + 1)
    BY <2>1, <2>2, NextPduIsRead
  <2>5. ReadIs(Reassemble(rs, sn, sent[sn]), sent, number)
    <3>1. rs.expected <= sn
      BY <1>1, <2>2 DEF AllRead
    <3> QED
      BY <2>1, <2>2, <3>1, PduIsRead
  <2> DEFINE next == Reassemble(rs, sn, sent[sn])
  <2>6. DeliverStep(rs, buffer, sn) = next
    BY <2>3 DEF DeliverStep
  <2> HIDE DEF next
  <2>7. next \in States /\ ReadIs(next, sent, number) /\ AllRead(next, sent, count, sn + 1)
    BY <2>4, <2>5 DEF ReadIs, next
  <2>8. low + (k + 1) = sn + 1
    BY <2>1
  <2>9. next \in Good[k + 1]
    BY <2>7, <2>8
  <2> QED
    BY <2>1, <2>6, <2>9
<1>5. rx.reassembly \in Good[0]
  <2>1. low + 0 = low
    OBVIOUS
  <2> QED
    BY <1>3, <2>1
<1>6. Good[n] \subseteq {rs \in States : AllRead(rs, sent, count, low + n)}
  OBVIOUS
<1> HIDE DEF Good
<1>7. Deliver(rx, sns).reassembly \in Good[n]
  <2>1. \A k \in Nat : \A rs \in States :
          k < n /\ rs \in Good[k] => DeliverStep(rs, rx.buffer, sns[k + 1]) \in Good[k + 1]
    BY <1>4
  <2> QED
    BY <1>2, <1>3, <1>5, <2>1, DeliverByNumbers
<1> QED
  BY <1>6, <1>7

\* Numbers that are not there change nothing.
LEMMA DeliverReadsNothing ==
  ASSUME NEW rx, rx.buffer \in Buffers, rx.reassembly \in States,
         NEW n \in Nat, NEW sns \in [1 .. n -> SNs], \A i \in 1 .. n : rx.buffer[sns[i]] = <<>>
  PROVE  Deliver(rx, sns).reassembly = rx.reassembly
<1> DEFINE Good == [k \in Nat |-> {rx.reassembly}]
<1>1. \A k \in Nat : Good[k] = {rx.reassembly}
  OBVIOUS
<1>2. rx.buffer \in [SNs -> Pieces]
  BY DEF Buffers, Pieces
<1> HIDE DEF Good
<1>3. ASSUME NEW k \in Nat, NEW rs \in States, k < n, rs \in Good[k]
      PROVE  DeliverStep(rs, rx.buffer, sns[k + 1]) \in Good[k + 1]
  <2>1. k + 1 \in 1 .. n
    BY <1>3
  <2>2. DeliverStep(rs, rx.buffer, sns[k + 1]) = rs
    BY <2>1 DEF DeliverStep
  <2> QED
    BY <1>1, <1>3, <2>2
<1>4. rx.reassembly \in Good[0]
  BY <1>1
<1>5. Deliver(rx, sns).reassembly \in Good[n]
  <2>1. \A k \in Nat : \A rs \in States :
          k < n /\ rs \in Good[k] => DeliverStep(rs, rx.buffer, sns[k + 1]) \in Good[k + 1]
    BY <1>3
  <2> QED
    BY <1>2, <1>4, <2>1, DeliverByNumbers
<1> QED
  BY <1>1, <1>5

\* When nothing has fallen out of the window nothing changes.
LEMMA NothingOutside ==
  ASSUME NEW rx, rx.buffer \in Buffers, rx.reassembly \in States, NEW uh,
         \A sn \in Held(rx.buffer) : Inside(sn, uh)
  PROVE  /\ ReassembleOutsideWindow(rx, uh).reassembly = rx.reassembly
         /\ \A sn \in SNs : ReassembleOutsideWindow(rx, uh).buffer[sn] = rx.buffer[sn]
<1> DEFINE T == {sn \in Held(rx.buffer) : Inside(sn, uh)} \cup {Modulus}
           first == Min(T)
           sns == [i \in 1 .. first |-> i - 1]
           left == ReassembleOutsideWindow(rx, uh).buffer
<1>1. ReassembleOutsideWindow(rx, uh) = Deliver(rx, sns)
  BY DEF ReassembleOutsideWindow
<1>2. /\ \A sn \in SNs : sn \in Nat /\ sn < Modulus
      /\ \A sn \in Nat : sn < Modulus => sn \in SNs
      /\ Modulus \in Nat /\ Held(rx.buffer) \subseteq SNs
  BY UmConstants DEF Held
<1>3. first \in Nat /\ first <= Modulus
  <2>1. T \subseteq Nat /\ T # {} /\ Modulus \in T
    BY <1>2
  <2> HIDE DEF T
  <2> QED
    BY <2>1, MinOfNumbers
<1>4. /\ \A sn \in Held(rx.buffer) : Inside(sn, uh) => first <= sn
      /\ \A sn \in SNs : left[sn] = IF sn < first THEN <<>> ELSE rx.buffer[sn]
  BY OutsideTakesOut
<1> HIDE DEF first
<1>5. \A sn \in SNs : sn < first => rx.buffer[sn] = <<>>
  <2> SUFFICES ASSUME NEW sn \in SNs, sn < first, rx.buffer[sn] # <<>> PROVE FALSE
    OBVIOUS
  <2>1. first <= sn
    BY <1>4 DEF Held
  <2> QED
    BY <1>2, <1>3, <2>1
<1>6. sns \in [1 .. first -> SNs] /\ \A i \in 1 .. first : rx.buffer[sns[i]] = <<>>
  <2>1. ASSUME NEW i \in 1 .. first PROVE i - 1 \in SNs /\ i - 1 < first
    BY <1>2, <1>3
  <2> QED
    BY <1>5, <2>1
<1> HIDE DEF sns, left
<1>7. Deliver(rx, sns).reassembly = rx.reassembly
  BY <1>3, <1>6, DeliverReadsNothing
<1>8. \A sn \in SNs : left[sn] = rx.buffer[sn]
  BY <1>4, <1>5
<1> QED
  BY <1>1, <1>7, <1>8 DEF left
LEMMA IntervalReadsAll ==
  ASSUME NEW sent \in [SNs -> Pieces], NEW number \in SNs, NEW waiting, NEW last,
         StreamIs(sent, number, waiting, last),
         NEW count \in [SNs -> Nat], NEW total, StreamCounts(sent, count, number, waiting, total),
         NEW rx, rx.buffer \in Buffers, ReadIs(rx.reassembly, sent, number),
         NEW low \in SNs, NEW high \in SNs, NEW uh \in SNs,
         low <= high, high <= uh, uh <= low + Window, high <= number,
         AllRead(rx.reassembly, sent, count, low),
         \A sn \in SNs : low <= sn /\ sn < high => rx.buffer[sn] = sent[sn]
  PROVE  AllRead(ReassembleSnInterval(rx, low, high, uh).reassembly, sent, count, high)
<1>. PICK n \in Nat : n = high - low /\ low + n = high
  BY IntervalNumbers
<1>. DEFINE sns == [i \in 1 .. n |-> low + (i - 1)]
<1>1. /\ low + n = high /\ sns = [i \in 1 .. n |-> low + (i - 1)]
      /\ ReassembleSnInterval(rx, low, high, uh) = Deliver(rx, sns)
  BY IntervalNumbers
<1>. HIDE DEF sns
<1>2. low \in Nat
  BY UmConstants
<1>3. low + n <= number /\ \A sn \in SNs : low <= sn /\ sn < low + n => rx.buffer[sn] = sent[sn]
  BY <1>1
<1>4. AllRead(Deliver(rx, sns).reassembly, sent, count, low + n)
  BY <1>1, <1>2, <1>3, DeliverReadsAll
<1> QED
  BY <1>1, <1>4

\* A PDU that is next, one that overtakes a single one, and the one it has
\* overtaken are placed so that VR(UR) stays in front of the first PDU that has
\* not come, and all before it are read.
IsNext(sn, ur, uh) == ur = uh /\ sn = uh
Overtakes(sn, ur, uh) == ur = uh /\ sn = uh + 1
IsOvertaken(sn, ur, uh) == uh = ur + 2 /\ sn = ur

LEMMA WindowAfterInTime ==
  ASSUME NEW a \in SNs, NEW h \in SNs, NEW sn \in SNs, NEW uh \in SNs, NEW low \in SNs,
         sn < uh, h <= uh, uh = h \/ uh = sn + 1, a <= low, low = a \/ low + Window = uh,
         IsNext(sn, a, h) \/ Overtakes(sn, a, h) \/ IsOvertaken(sn, a, h)
  PROVE  /\ IsNext(sn, a, h) => uh = a + 1
         /\ Overtakes(sn, a, h) => uh = a + 2
         /\ IsOvertaken(sn, a, h) => uh = a + 2
         /\ low = a /\ uh <= a + Window
<1>1. /\ a \in Nat /\ h \in Nat /\ sn \in Nat /\ uh \in Nat /\ low \in Nat /\ uh < Modulus
      /\ Window \in Nat /\ Window > 0 /\ Modulus \in Nat /\ Modulus = Window + Window
  BY UmConstants
<1>2. /\ IsNext(sn, a, h) => uh = a + 1
      /\ Overtakes(sn, a, h) => uh = a + 2
      /\ IsOvertaken(sn, a, h) => uh = a + 2
  BY <1>1 DEF IsNext, Overtakes, IsOvertaken
<1>3. uh = a + 1 \/ uh = a + 2
  BY <1>2
<1>4. uh <= a + Window
  BY <1>1, <1>3
<1>5. low = a
  BY <1>1, <1>4
<1> QED
  BY <1>2, <1>4, <1>5

\* Besides the PDU itself only the one that has overtaken it is read.
LEMMA ReadWithIt ==
  ASSUME NEW a \in SNs, NEW h \in SNs, NEW sn \in SNs, NEW high \in SNs, NEW n \in SNs,
         IsNext(sn, a, h) \/ Overtakes(sn, a, h) \/ IsOvertaken(sn, a, h),
         IsNext(sn, a, h) => high = a + 1,
         Overtakes(sn, a, h) => high = a,
         IsOvertaken(sn, a, h) => high = a + 2,
         a <= n, n < high, n # sn
  PROVE  IsOvertaken(sn, a, h) /\ n = a + 1
<1>1. a \in Nat /\ h \in Nat /\ sn \in Nat /\ high \in Nat /\ n \in Nat
  BY UmConstants
<1> QED
  BY <1>1 DEF IsNext, Overtakes, IsOvertaken

LEMMA PlaceReadsAll ==
  ASSUME UmTypeInv, WindowIs(rxBuffer, vr.ur, vr.uh),
         NEW pdu \in Pdus, pdu.sn + 1 < Modulus, vr.uh <= pdu.sn + 2,
         ~IsDiscarded(pdu.sn), Place(pdu),
         NEW sent \in [SNs -> Pieces], NEW number \in SNs, NEW waiting, NEW last,
         StreamIs(sent, number, waiting, last), HeldIs(rxBuffer, sent, number),
         ReadIs(reassembly, sent, number), pdu.sn < number, pdu.units = sent[pdu.sn],
         NEW count \in [SNs -> Nat], NEW total, StreamCounts(sent, count, number, waiting, total),
         AllRead(reassembly, sent, count, vr.ur),
         \/ IsNext(pdu.sn, vr.ur, vr.uh)
         \/ Overtakes(pdu.sn, vr.ur, vr.uh)
         \/ IsOvertaken(pdu.sn, vr.ur, vr.uh) /\ rxBuffer[vr.ur + 1] # <<>>
  PROVE  /\ AllRead(reassembly', sent, count, vr'.ur)
         /\ IsNext(pdu.sn, vr.ur, vr.uh) => vr'.ur = vr.uh + 1 /\ vr'.uh = vr.uh + 1
         /\ Overtakes(pdu.sn, vr.ur, vr.uh) =>
              vr'.ur = vr.ur /\ vr'.uh = vr.uh + 2 /\ rxBuffer'[pdu.sn] # <<>>
         /\ IsOvertaken(pdu.sn, vr.ur, vr.uh) => vr'.ur = vr.uh /\ vr'.uh = vr.uh
<1>1. PICK a \in SNs, h \in SNs, sn \in SNs : a = vr.ur /\ h = vr.uh /\ sn = pdu.sn
  BY DEF UmTypeInv, TypeOK, Pdus
<1>2. PICK uh \in SNs, low \in SNs, high \in SNs : \E placed, moved :
        PlaceSteps(pdu, uh, low, high, placed, moved)
  BY PlaceInSteps
<1>3. PICK placed, moved : PlaceSteps(pdu, uh, low, high, placed, moved)
  BY <1>2
<1>4. /\ placed.reassembly = reassembly /\ placed.buffer \in Buffers
      /\ placed.buffer = [rxBuffer EXCEPT ![sn] = pdu.units]
      /\ \A n \in SNs : placed.buffer[n] # <<>> => a <= n /\ n < uh
      /\ moved = placed \/ moved = ReassembleOutsideWindow(placed, uh)
      /\ moved.buffer \in Buffers
      /\ a <= low /\ low <= high /\ high <= uh /\ uh <= low + Window
      /\ low = a \/ low + Window = uh
      /\ moved.buffer[high] = <<>> /\ high = FirstMissing(moved.buffer, low)
      /\ h <= uh /\ (uh = h \/ uh = sn + 1)
      /\ rxBuffer' = ReassembleSnInterval(moved, low, high, uh).buffer
      /\ reassembly' = ReassembleSnInterval(moved, low, high, uh).reassembly
      /\ Reordering(high, uh)
  BY <1>1, <1>3 DEF PlaceSteps
<1>5. /\ \A n \in SNs : n \in Nat /\ n < Modulus
      /\ Window \in Nat /\ Window > 0 /\ Modulus \in Nat /\ Modulus = Window + Window /\ a \in Nat /\ h \in Nat /\ sn \in Nat
      /\ uh \in Nat /\ low \in Nat /\ high \in Nat
  BY UmConstants
<1>6. /\ AllRead(reassembly, sent, count, a) /\ sn < number /\ pdu.units = sent[sn]
      /\ \/ IsNext(sn, a, h)
         \/ Overtakes(sn, a, h)
         \/ IsOvertaken(sn, a, h) /\ rxBuffer[a + 1] # <<>>
  BY <1>1
<1>7. vr'.ur = high /\ vr'.uh = uh
  BY <1>4, ReorderingTypes
<1>8. /\ HeldIs(placed.buffer, sent, number) /\ placed.buffer[sn] # <<>>
      /\ \A n \in SNs : n # sn => placed.buffer[n] = rxBuffer[n]
  <2>1. rxBuffer \in Buffers
    BY DEF UmTypeInv, TypeOK, Buffers, Units
  <2>2. \A n \in SNs : placed.buffer[n] = IF n = sn THEN sent[sn] ELSE rxBuffer[n]
    BY <1>4, <1>6, <2>1 DEF Buffers
  <2>3. sent[sn] # <<>>
    BY <1>6 DEF StreamIs, Chain
  <2> QED
    BY <1>6, <2>2, <2>3 DEF HeldIs
<1>9. sn < uh
  BY <1>4, <1>8
<1>10. /\ IsNext(sn, a, h) => uh = a + 1
       /\ Overtakes(sn, a, h) => uh = a + 2
       /\ IsOvertaken(sn, a, h) => uh = a + 2
       /\ low = a /\ uh <= a + Window
  <2>1. h <= uh /\ (uh = h \/ uh = sn + 1) /\ a <= low /\ (low = a \/ low + Window = uh)
    BY <1>4
  <2>2. IsNext(sn, a, h) \/ Overtakes(sn, a, h) \/ IsOvertaken(sn, a, h)
    BY <1>6
  <2> QED
    BY <1>9, <2>1, <2>2, WindowAfterInTime
<1>11. /\ moved.reassembly = reassembly
       /\ \A n \in SNs : moved.buffer[n] = placed.buffer[n]
  <2>1. ASSUME NEW n \in Held(placed.buffer) PROVE Inside(n, uh)
    <3>1. n \in SNs /\ a <= n /\ n < uh
      BY <1>4 DEF Held
    <3>2. uh <= n + Window
      BY <1>5, <1>10, <3>1
    <3> QED
      BY <3>1, <3>2, InsideIsBehind
  <2>2. placed.reassembly \in States
    BY <1>4 DEF ReadIs
  <2>3. CASE moved = placed
    BY <1>4, <2>3
  <2>4. CASE moved = ReassembleOutsideWindow(placed, uh)
    <3>1. placed.buffer \in Buffers /\ \A n \in Held(placed.buffer) : Inside(n, uh)
      BY <1>4, <2>1
    <3>2. /\ ReassembleOutsideWindow(placed, uh).reassembly = placed.reassembly
          /\ \A n \in SNs : ReassembleOutsideWindow(placed, uh).buffer[n] = placed.buffer[n]
      BY <2>2, <3>1, NothingOutside
    <3> QED
      BY <1>4, <2>4, <3>2
  <2> QED
    BY <1>4, <2>3, <2>4
<1>12. /\ IsNext(sn, a, h) => high = a + 1
       /\ Overtakes(sn, a, h) => high = a
       /\ IsOvertaken(sn, a, h) => high = a + 2
  <2>1. moved.buffer[sn] # <<>> /\ moved.buffer[high] = <<>>
    BY <1>4, <1>8, <1>11
  <2>2. CASE IsNext(sn, a, h)
    <3>1. sn = a /\ high # sn /\ uh = a + 1
      BY <1>10, <2>1, <2>2 DEF IsNext
    <3>2. high = a + 1
      <4>1. a <= high /\ high <= uh
        BY <1>4, <1>10
      <4>2. a \in Nat /\ high \in Nat
        BY <1>5
      <4> QED
        BY <3>1, <4>1, <4>2
    <3> QED
      BY <1>5, <2>2, <3>2 DEF IsNext, Overtakes, IsOvertaken
  <2>3. CASE Overtakes(sn, a, h)
    <3>1. a # sn /\ a = h
      BY <1>5, <2>3 DEF Overtakes
    <3>2. rxBuffer[a] = <<>>
      <4>1. rxBuffer[a] # <<>> => a < a
        BY <1>1 DEF WindowIs
      <4>2. ~(a < a)
        BY <1>5
      <4> QED
        BY <4>1, <4>2
    <3>3. moved.buffer[low] = <<>>
      BY <1>8, <1>10, <1>11, <3>1, <3>2
    <3>4. high = low
      BY <1>4, <3>3 DEF FirstMissing
    <3> QED
      BY <1>5, <1>10, <2>3, <3>4 DEF IsNext, Overtakes, IsOvertaken
  <2>4. CASE IsOvertaken(sn, a, h) /\ rxBuffer[a + 1] # <<>>
    <3>1. sn = a /\ uh = a + 2 /\ high # a
      BY <1>10, <2>1, <2>4 DEF IsOvertaken
    <3>2. PICK b \in SNs : b = a + 1 /\ b # sn
      <4>1. uh < Modulus
        BY <1>5
      <4>2. a + 1 \in Nat /\ a + 1 < Modulus /\ a + 1 # a
        BY <1>5, <3>1, <4>1, UmConstants
      <4> QED
        BY <3>1, <4>2, UmConstants
    <3>3. moved.buffer[b] # <<>>
      BY <1>8, <1>11, <2>4, <3>2
    <3>4. high # a + 1
      BY <2>1, <3>2, <3>3
    <3>5. high = a + 2
      <4>1. a <= high /\ high <= uh
        BY <1>4, <1>10
      <4>2. a \in Nat /\ high \in Nat
        BY <1>5
      <4> QED
        BY <3>1, <3>4, <4>1, <4>2
    <3> QED
      BY <1>5, <2>4, <3>5 DEF IsNext, Overtakes, IsOvertaken
  <2> QED
    BY <1>6, <2>2, <2>3, <2>4
<1>13. \A n \in SNs : a <= n /\ n < high => moved.buffer[n] = sent[n] /\ n < number
  <2> SUFFICES ASSUME NEW n \in SNs, a <= n, n < high
               PROVE  placed.buffer[n] # <<>>
    BY <1>8, <1>11 DEF HeldIs
  <2>1. CASE n = sn
    BY <1>8, <2>1
  <2>2. CASE n # sn
    <3>1. IsOvertaken(sn, a, h) /\ n = a + 1
      <4>1. IsNext(sn, a, h) \/ Overtakes(sn, a, h) \/ IsOvertaken(sn, a, h)
        BY <1>6
      <4> QED
        BY <1>12, <2>2, <4>1, ReadWithIt
    <3>2. rxBuffer[n] # <<>>
      <4>1. ~IsNext(sn, a, h) /\ ~Overtakes(sn, a, h)
        BY <1>5, <3>1 DEF IsNext, Overtakes, IsOvertaken
      <4> QED
        BY <1>6, <3>1, <4>1
    <3> QED
      BY <1>8, <2>2, <3>2
  <2> QED
    BY <2>1, <2>2
<1>14. high <= number
  <2>1. CASE high = a
    <3>1. reassembly.expected = a /\ reassembly.expected <= number
      BY <1>6 DEF ReadIs, AllRead
    <3> QED
      BY <2>1, <3>1
  <2>2. CASE high # a
    <3>1. a <= high
      BY <1>4, <1>10
    <3>2. a < high /\ high < Modulus
      BY <1>5, <2>2, <3>1
    <3>3. high - 1 \in Nat /\ high - 1 < Modulus /\ a <= high - 1 /\ high - 1 < high
      BY <1>5, <3>2, UmConstants
    <3>4. PICK n \in SNs : n = high - 1
      BY <3>3, UmConstants
    <3>5. n < number
      BY <1>13, <3>3, <3>4
    <3> QED
      BY <1>5, <3>3, <3>4, <3>5
  <2> QED
    BY <2>1, <2>2
<1>15. AllRead(reassembly', sent, count, high)
  <2>1. AllRead(moved.reassembly, sent, count, low) /\ ReadIs(moved.reassembly, sent, number)
    BY <1>6, <1>10, <1>11
  <2>2. \A n \in SNs : low <= n /\ n < high => moved.buffer[n] = sent[n]
    BY <1>10, <1>13
  <2>3. /\ moved.buffer \in Buffers /\ low <= high /\ high <= uh /\ uh <= low + Window
        /\ high <= number
    BY <1>4, <1>14
  <2>4. AllRead(ReassembleSnInterval(moved, low, high, uh).reassembly, sent, count, high)
    BY <2>1, <2>2, <2>3, IntervalReadsAll
  <2> QED
    BY <1>4, <2>4
<1>16. Overtakes(sn, a, h) => rxBuffer'[sn] # <<>>
  <2>1. ASSUME Overtakes(sn, a, h) PROVE ~(low <= sn /\ sn < high)
    BY <1>5, <1>10, <1>12, <2>1 DEF Overtakes
  <2>2. rxBuffer'[sn] = IF low <= sn /\ sn < high THEN <<>> ELSE moved.buffer[sn]
    BY <1>4, IntervalLeaves
  <2> QED
    BY <1>8, <1>11, <2>1, <2>2
<1>17. /\ IsNext(sn, a, h) => high = h + 1 /\ uh = h + 1
       /\ Overtakes(sn, a, h) => high = a /\ uh = h + 2
       /\ IsOvertaken(sn, a, h) => high = h /\ uh = h
  BY <1>5, <1>10, <1>12 DEF IsNext, Overtakes, IsOvertaken
<1> QED
  BY <1>1, <1>7, <1>15, <1>16, <1>17

\* DoTransmitPdcpPdu: an SDU that is taken over is one more to be completed.
LEMMA CountsGetSdu ==
  ASSUME NEW sent \in [SNs -> Pieces], NEW count, NEW number \in SNs, NEW waiting \in Pieces,
         NEW total \in Nat, StreamCounts(sent, count, number, waiting, total),
         NEW s \in 1 .. NSdus
  PROVE  StreamCounts(sent, count, number, waiting \o Sdu(s), total + 1)
<1>1. PICK c \in Pieces : c = Sdu(s)
  BY SduIsChain
<1>2. /\ Begins(c[1]) /\ Counts(c, total, total + 1)
      /\ Counts(waiting, count[number], total)
  BY <1>1, SduIsChain, SduCounts DEF StreamCounts
<1> DEFINE joined == waiting \o c
<1>3. Counts(joined, count[number], total + 1)
  BY <1>2, CountsOfParts
<1>4. number = 0 /\ joined # <<>> => Begins(joined[1])
  <2>1. CASE waiting = <<>>
    <3>1. joined = c
      BY <2>1, ConcatEmptySeq DEF Pieces
    <3> QED
      BY <1>2, <3>1
  <2>2. CASE waiting # <<>>
    <3>1. joined[1] = waiting[1]
      <4>1. /\ waiting \in Seq(Units) /\ c \in Seq(Units)
            /\ Len(waiting) \in Nat /\ Len(waiting) # 0
        BY <2>2, LenProperties, EmptySeq DEF Pieces
      <4>2. 1 \in 1 .. Len(waiting)
        BY <4>1
      <4> QED
        BY <4>1, <4>2, JoinedParts
    <3>2. number = 0 => Begins(waiting[1])
      BY <2>2 DEF StreamCounts
    <3> QED
      BY <3>1, <3>2
  <2> QED
    BY <2>1, <2>2
<1> HIDE DEF joined
<1>5. StreamCounts(sent, count, number, joined, total + 1)
  BY <1>3, <1>4 DEF StreamCounts
<1> QED
  BY <1>1, <1>5 DEF joined

\* SendPdu: what waits is cut, and so is what it completes.
LEMMA CountsGivePdu ==
  ASSUME NEW sent \in [SNs -> Pieces], NEW count \in [SNs -> Nat],
         NEW number \in SNs, number + 1 < Modulus, NEW waiting \in Pieces, NEW total,
         StreamCounts(sent, count, number, waiting, total), NEW m \in 1 .. Len(waiting)
  PROVE  \E mid \in Nat :
           StreamCounts([sent EXCEPT ![number] = SubSeq(waiting, 1, m)],
                        [count EXCEPT ![number + 1] = mid], number + 1,
                        SubSeq(waiting, m + 1, Len(waiting)), total)
<1> DEFINE first == SubSeq(waiting, 1, m)  rest == SubSeq(waiting, m + 1, Len(waiting))
           after == [sent EXCEPT ![number] = first]
<1>1. /\ waiting \in Seq(Units) /\ Len(waiting) \in Nat /\ m \in 0 .. Len(waiting)
      /\ 1 \in 1 .. m /\ waiting # <<>>
  BY LenProperties, EmptySeq DEF Pieces
<1>2. first \in Pieces /\ first[1] = waiting[1]
  BY <1>1, TwoParts DEF Pieces
<1>3. PICK mid \in Nat : Counts(first, count[number], mid) /\ Counts(rest, mid, total)
  <2>1. Counts(waiting, count[number], total)
    BY DEF StreamCounts
  <2> QED
    BY <2>1, CountsAreSplit
<1> DEFINE counted == [count EXCEPT ![number + 1] = mid]
<1>4. \A a \in SNs : a \in Nat /\ number \in Nat /\ number + 1 \in SNs
  BY UmConstants
<1>5. /\ \A a \in SNs : after[a] = IF a = number THEN first ELSE sent[a]
      /\ \A a \in SNs : counted[a] = IF a = number + 1 THEN mid ELSE count[a]
  BY <1>4
<1> HIDE DEF first, rest, after, counted
<1>6. counted[0] = 0
  BY <1>4, <1>5, UmConstants DEF StreamCounts
<1>7. ASSUME NEW a \in SNs, a < number + 1 PROVE Counts(after[a], counted[a], counted[a + 1])
  <2>1. CASE a = number
    BY <1>3, <1>4, <1>5, <2>1
  <2>2. CASE a # number
    <3>1. a < number /\ a + 1 \in SNs /\ a + 1 # number + 1 /\ a # number + 1
      <4>1. a \in Nat /\ number \in Nat /\ Modulus \in Nat
        BY <1>4, UmConstants
      <4>2. a < number /\ a + 1 \in Nat /\ a + 1 < Modulus
        BY <1>7, <2>2, <4>1
      <4> QED
        BY <4>1, <4>2, UmConstants
    <3>2. after[a] = sent[a] /\ counted[a] = count[a] /\ counted[a + 1] = count[a + 1]
      BY <1>5, <2>2, <3>1
    <3> QED
      BY <3>1, <3>2 DEF StreamCounts
  <2> QED
    BY <2>1, <2>2
<1>8. Counts(rest, counted[number + 1], total)
  BY <1>3, <1>4, <1>5
<1>9. number + 1 # 0 /\ Begins(after[0][1])
  <2>1. CASE number = 0
    BY <1>1, <1>2, <1>4, <1>5, <2>1 DEF StreamCounts
  <2>2. CASE number # 0
    <3>1. after[0] = sent[0]
      BY <1>5, <2>2, UmConstants
    <3> QED
      BY <1>4, <2>2, <3>1 DEF StreamCounts
  <2> QED
    BY <2>1, <2>2
<1>10. StreamCounts(after, counted, number + 1, rest, total)
  BY <1>6, <1>7, <1>8, <1>9 DEF StreamCounts
<1> QED
  BY <1>10 DEF after, counted, first, rest

LEMMA AllReadAfterPdu ==
  ASSUME NEW sent \in [SNs -> Pieces], NEW count \in [SNs -> Nat], NEW number \in SNs,
         number + 1 < Modulus, NEW ur \in SNs, ur <= number, NEW rs,
         AllRead(rs, sent, count, ur), NEW units, NEW mid
  PROVE  AllRead(rs, [sent EXCEPT ![number] = units], [count EXCEPT ![number + 1] = mid], ur)
<1> DEFINE after == [sent EXCEPT ![number] = units]  counted == [count EXCEPT ![number + 1] = mid]
<1>1. /\ \A a \in SNs : a # number => after[a] = sent[a]
      /\ \A a \in SNs : a # number + 1 => counted[a] = count[a]
  OBVIOUS
<1> HIDE DEF after, counted
<1>2. number \in Nat /\ ur \in Nat /\ \A a \in SNs : a \in Nat
  BY UmConstants
<1>3. counted[ur] = count[ur] /\ \A a \in SNs : a + 1 = ur => after[a] = sent[a]
  BY <1>1, <1>2
<1>4. AllRead(rs, after, counted, ur)
  BY <1>3 DEF AllRead
<1> QED
  BY <1>4 DEF after, counted

------------------------------------------------------------------------------
(* Nothing is lost by reordering. *)

\* As long as nothing was lost, VR(UR) is the number of the first PDU that is
\* still on its way; one that has overtaken it is held back.
NothingMissing(buffer, ur, uh, pdus, number) ==
  LET first == number - Len(pdus)
  IN IF Overtaken(pdus) THEN ur + 1 = first /\ uh = first + 1 /\ buffer[first] # <<>>
     ELSE ur = first /\ uh = first

\* SendPdu: the new PDU is behind them.
LEMMA NothingMissingAfterPdu ==
  ASSUME NEW pdus \in Seq(Pdus), NEW number \in Nat, NEW e \in Pdus, e.overtaken = FALSE,
         NEW buffer, NEW ur, NEW uh, NothingMissing(buffer, ur, uh, pdus, number)
  PROVE  NothingMissing(buffer, ur, uh, Append(pdus, e), number + 1)
<1> DEFINE longer == Append(pdus, e)
<1>1. /\ Len(pdus) \in Nat /\ Len(longer) = Len(pdus) + 1 /\ longer # <<>>
      /\ longer[Len(pdus) + 1] = e /\ \A i \in 1 .. Len(pdus) : longer[i] = pdus[i]
  BY AppendProperties, LenProperties, EmptySeq
<1> HIDE DEF longer
<1>2. (number + 1) - Len(longer) = number - Len(pdus)
  BY <1>1
<1>3. Overtaken(longer) <=> Overtaken(pdus)
  <2>1. CASE pdus = <<>>
    <3>1. longer[1] = e
      BY <1>1, <2>1, EmptySeq
    <3> QED
      BY <2>1, <3>1 DEF Overtaken
  <2>2. CASE pdus # <<>>
    <3>1. Len(pdus) # 0
      BY <2>2, EmptySeq
    <3>2. longer[1] = pdus[1]
      BY <1>1, <3>1
    <3> QED
      BY <1>1, <2>2, <3>2 DEF Overtaken
  <2> QED
    BY <2>1, <2>2
<1>4. NothingMissing(buffer, ur, uh, longer, number + 1)
  BY <1>2, <1>3 DEF NothingMissing
<1> QED
  BY <1>4 DEF longer

LEMMA FirstArrives ==
  ASSUME NEW pdus \in Seq(Pdus), NEW others \in Seq(Pdus), Lengthened(others, pdus, 1, pdus[1]),
         NEW number \in Nat, NEW uh \in Nat, QueueIs(pdus, number, uh)
  PROVE  /\ Len(pdus) \in Nat /\ Len(pdus) = Len(others) + 1 /\ ~Overtaken(others)
         /\ Overtaken(pdus) => pdus[1].sn + 1 = number - Len(pdus)
         /\ ~Overtaken(pdus) => pdus[1].sn = number - Len(pdus)
<1> DEFINE l == Len(others)
<1>1. /\ l \in Nat /\ DOMAIN others = 1 .. l /\ Len(pdus) = l + 1 /\ DOMAIN pdus = 1 .. l + 1
      /\ \A i \in 1 .. l : pdus[IF i < 1 THEN i ELSE i + 1] = others[i]
  BY LenProperties DEF Lengthened
<1>2. others # <<>> => l # 0
  BY EmptySeq
<1> HIDE DEF l
<1>3. pdus # <<>> /\ 1 \in DOMAIN pdus
  BY <1>1, EmptySeq
<1>4. pdus[1].overtaken = TRUE \/ pdus[1].overtaken = FALSE
  <2>1. pdus[1] \in Pdus
    BY <1>3, ElementOfSeq
  <2> QED
    BY <2>1 DEF Pdus
<1>5. /\ pdus[1].overtaken = TRUE => pdus[1].sn = (number - Len(pdus)) - 1
      /\ pdus[1].overtaken = FALSE => pdus[1].sn = (number - Len(pdus)) + 1 - 1
  BY <1>3 DEF QueueIs, Numbered
<1>6. ASSUME Overtaken(others) PROVE FALSE
  <2>1. l # 0 /\ others[1].overtaken = TRUE
    BY <1>2, <1>6 DEF Overtaken
  <2>2. others[1] = pdus[2] /\ 2 \in DOMAIN pdus /\ 2 # 1
    BY <1>1, <2>1
  <2>3. pdus[2].overtaken = FALSE
    BY <2>2 DEF QueueIs, Numbered
  <2> QED
    BY <2>1, <2>2, <2>3
<1>7. /\ Overtaken(pdus) => pdus[1].overtaken = TRUE
      /\ ~Overtaken(pdus) => pdus[1].overtaken = FALSE
  BY <1>3, <1>4 DEF Overtaken
<1>8. /\ Overtaken(pdus) => pdus[1].sn + 1 = number - Len(pdus)
      /\ ~Overtaken(pdus) => pdus[1].sn = number - Len(pdus)
  <2>1. PICK n \in Nat : n = Len(pdus)
    BY <1>1
  <2>2. ((number - n) - 1) + 1 = number - n /\ (number - n) + 1 - 1 = number - n
    BY <2>1
  <2> QED
    BY <1>5, <1>7, <2>1, <2>2
<1> QED
  BY <1>1, <1>6, <1>8 DEF l

LEMMA SecondArrives ==
  ASSUME NEW pdus \in Seq(Pdus), NEW marked \in Seq(Pdus), NEW others \in Seq(Pdus),
         NEW number \in Nat, NEW uh \in Nat, QueueIs(pdus, number, uh),
         2 \in DOMAIN pdus, pdus[1].overtaken = FALSE,
         Len(marked) = Len(pdus), marked[1].overtaken = TRUE,
         Lengthened(others, marked, 2, marked[2])
  PROVE  /\ Len(pdus) \in Nat /\ Len(pdus) = Len(others) + 1 /\ Overtaken(others)
         /\ ~Overtaken(pdus) /\ pdus[2].sn = (number - Len(pdus)) + 1
<1> DEFINE l == Len(others)
<1>1. /\ l \in Nat /\ DOMAIN others = 1 .. l /\ Len(marked) = l + 1
      /\ Len(pdus) = l + 1 /\ DOMAIN pdus = 1 .. l + 1
      /\ \A i \in 1 .. l : marked[IF i < 2 THEN i ELSE i + 1] = others[i]
  BY LenProperties DEF Lengthened
<1> HIDE DEF l
<1>2. l # 0 /\ 1 \in 1 .. l
  BY <1>1
<1>3. others[1] = marked[1] /\ others # <<>>
  BY <1>1, <1>2, EmptySeq
<1>4. Overtaken(others)
  BY <1>3 DEF Overtaken
<1>5. ~Overtaken(pdus)
  BY DEF Overtaken
<1>6. pdus[2].overtaken = FALSE
  BY DEF QueueIs, Numbered
<1>7. pdus[2].sn = (number - Len(pdus)) + 2 - 1
  BY <1>6 DEF QueueIs, Numbered
<1>8. pdus[2].sn = (number - Len(pdus)) + 1
  <2>1. PICK n \in Nat : n = Len(pdus)
    BY <1>1
  <2>2. (number - n) + 2 - 1 = (number - n) + 1
    BY <2>1
  <2> QED
    BY <1>7, <2>1, <2>2
<1> QED
  BY <1>1, <1>4, <1>5, <1>8 DEF l

\* The three ways in which a PDU can arrive.
Arrives(pdus, others, sn, number) ==
  LET first == number - Len(pdus)
  IN \/ ~Overtaken(pdus) /\ sn = first /\ ~Overtaken(others)
     \/ ~Overtaken(pdus) /\ sn = first + 1 /\ Overtaken(others)
     \/ Overtaken(pdus) /\ sn + 1 = first /\ ~Overtaken(others)

LEMMA ArrivalInTime ==
  ASSUME UmInv, NoWrap, NEW i, DoReceivePdu(i)
  PROVE  /\ Len(dataPdus) \in Nat /\ Len(dataPdus') \in Nat
         /\ Len(dataPdus) = Len(dataPdus') + 1
         /\ Arrives(dataPdus, dataPdus', dataPdus[i].sn, sequenceNumber)
<1>1. PICK pdus \in Seq(Pdus), others \in Seq(Pdus), number \in Nat, h \in Nat :
        pdus = dataPdus /\ others = dataPdus' /\ number = sequenceNumber /\ h = vr.uh
  BY UmNumbers, PduIsReceived DEF UmInv, UmTypeInv
<1>2. /\ i \in DOMAIN pdus
      /\ i = 1 \/ (i = 2 /\ ~pdus[1].overtaken)
      /\ others = Others(i)
  BY <1>1, PduIsReceived DEF UmInv
<1>3. QueueIs(pdus, number, h)
  BY <1>1 DEF UmInv
<1>4. DOMAIN pdus = 1 .. Len(pdus) /\ Len(pdus) \in Nat /\ 1 \in DOMAIN pdus
  BY <1>2, LenProperties
<1>5. pdus[1] \in Pdus
  BY <1>4, ElementOfSeq
<1>6. Len(others) \in Nat
  BY LenProperties
<1>7. CASE i = 1
  <2>1. Lengthened(others, pdus, 1, pdus[1])
    BY <1>1, <1>2, <1>4, <1>7, RemoveAtShortens DEF Others
  <2>2. /\ Len(pdus) = Len(others) + 1 /\ ~Overtaken(others)
        /\ Overtaken(pdus) => pdus[1].sn + 1 = number - Len(pdus)
        /\ ~Overtaken(pdus) => pdus[1].sn = number - Len(pdus)
    BY <1>3, <2>1, FirstArrives
  <2>3. Arrives(pdus, others, pdus[1].sn, number)
    BY <2>2 DEF Arrives
  <2> QED
    BY <1>1, <1>4, <1>6, <1>7, <2>2, <2>3
<1>8. CASE i = 2 /\ ~pdus[1].overtaken
  <2> DEFINE e == [pdus[1] EXCEPT !.overtaken = TRUE]  m == [pdus EXCEPT ![1] = e]
  <2>1. e \in Pdus /\ e.overtaken = TRUE
    BY <1>5 DEF Pdus
  <2>2. others = RemoveAt(m, 2)
    BY <1>1, <1>2, <1>8 DEF Others
  <2> HIDE DEF e
  <2>3. m \in Seq(Pdus) /\ Len(m) = Len(pdus) /\ m[1] = e
    <3>1. 1 \in 1 .. Len(pdus)
      BY <1>4
    <3> QED
      BY <2>1, <3>1, ExceptSeq
  <2>4. PICK marked \in Seq(Pdus) : marked = m
    BY <2>3
  <2>5. Len(marked) = Len(pdus) /\ marked[1].overtaken = TRUE /\ others = RemoveAt(marked, 2)
    BY <2>1, <2>2, <2>3, <2>4
  <2> HIDE DEF m
  <2>6. 2 \in DOMAIN marked /\ 2 \in DOMAIN pdus /\ pdus[1].overtaken = FALSE
    BY <1>2, <1>4, <1>5, <1>8, <2>5, LenProperties DEF Pdus
  <2>7. Lengthened(others, marked, 2, marked[2])
    BY <2>5, <2>6, RemoveAtShortens
  <2>8. /\ Len(pdus) = Len(others) + 1 /\ Overtaken(others)
        /\ ~Overtaken(pdus) /\ pdus[2].sn = (number - Len(pdus)) + 1
    BY <1>3, <2>5, <2>6, <2>7, SecondArrives
  <2>9. Arrives(pdus, others, pdus[2].sn, number)
    BY <2>8 DEF Arrives
  <2> QED
    BY <1>1, <1>4, <1>6, <1>8, <2>8, <2>9
<1> QED
  BY <1>2, <1>7, <1>8

\* A PDU that comes in time is not taken for one that was received before.
LEMMA InTimeIsPlaced ==
  ASSUME UmTypeInv, NEW sn \in SNs, sn + 1 < Modulus,
         IsNext(sn, vr.ur, vr.uh) \/ Overtakes(sn, vr.ur, vr.uh) \/ IsOvertaken(sn, vr.ur, vr.uh)
  PROVE  ~IsDiscarded(sn)
<1>1. PICK a \in SNs, h \in SNs : a = vr.ur /\ h = vr.uh
  BY DEF UmTypeInv, TypeOK
<1> DEFINE da == Dist(a, Base(h))  dn == Dist(sn, Base(h))
<1>2. /\ a \in Nat /\ h \in Nat /\ sn \in Nat /\ h < Modulus
      /\ Window \in Nat /\ Window > 0 /\ Modulus \in Nat /\ Modulus = Window + Window
  BY UmConstants
<1>3. /\ h <= a + Window /\ a < h + Window => da = a + Window - h
      /\ h <= sn + Window /\ sn < h + Window => dn = sn + Window - h
  BY Distances
<1>4. sn = a => dn = da
  OBVIOUS
<1> HIDE DEF da, dn
<1>5. da \in Nat
  <2>1. a = h \/ h = a + 2
    BY <1>1 DEF IsNext, Overtakes, IsOvertaken
  <2> QED
    BY <1>2, <1>3, <2>1
<1>6. ~(dn < da) /\ ~(da < dn /\ dn < Window)
  <2>1. CASE sn = a
    BY <1>4, <1>5, <2>1
  <2>2. CASE sn # a
    <3>1. a = h /\ sn = h + 1
      BY <1>1, <2>2 DEF IsNext, Overtakes, IsOvertaken
    <3>2. Window > 1
      BY <1>2, <3>1
    <3>3. da = Window /\ dn = Window + 1
      BY <1>2, <1>3, <3>1, <3>2
    <3> QED
      BY <1>2, <3>3
  <2> QED
    BY <2>1, <2>2
<1> QED
  BY <1>1, <1>6 DEF IsDiscarded, da, dn

LEMMA ArrivesInTime ==
  ASSUME NEW pdus, NEW others, Len(pdus) \in Nat, NEW number \in Nat, NEW sn,
         Arrives(pdus, others, sn, number), sn \in Nat, NEW ur \in Nat, NEW uh \in Nat, NEW buffer,
         NothingMissing(buffer, ur, uh, pdus, number)
  PROVE  \/ IsNext(sn, ur, uh)
         \/ Overtakes(sn, ur, uh)
         \/ IsOvertaken(sn, ur, uh) /\ buffer[ur + 1] # <<>>
<1> DEFINE first == number - Len(pdus)
<1>1. first \in Int
  OBVIOUS
<1>2. /\ Overtaken(pdus) => ur + 1 = first /\ uh = first + 1 /\ buffer[first] # <<>>
      /\ ~Overtaken(pdus) => ur = first /\ uh = first
  BY DEF NothingMissing
<1>3. \/ ~Overtaken(pdus) /\ sn = first
      \/ ~Overtaken(pdus) /\ sn = first + 1
      \/ Overtaken(pdus) /\ sn + 1 = first
  BY DEF Arrives
<1> HIDE DEF first
<1>4. CASE ~Overtaken(pdus) /\ sn = first
  BY <1>2, <1>4 DEF IsNext
<1>5. CASE ~Overtaken(pdus) /\ sn = first + 1
  BY <1>2, <1>5 DEF Overtakes
<1>6. CASE Overtaken(pdus) /\ sn + 1 = first
  <2>1. ur + 1 = first /\ uh = first + 1 /\ buffer[first] # <<>>
    BY <1>2, <1>6
  <2>2. uh = ur + 2 /\ sn = ur /\ buffer[ur + 1] # <<>>
    BY <1>1, <1>6, <2>1
  <2> QED
    BY <2>2 DEF IsOvertaken
<1> QED
  BY <1>3, <1>4, <1>5, <1>6

LEMMA NothingMissingAfterArrival ==
  ASSUME NEW pdus, NEW others, Len(others) \in Nat, Len(pdus) = Len(others) + 1,
         NEW number \in Nat, NEW sn, Arrives(pdus, others, sn, number), sn \in Nat,
         NEW ur \in Nat, NEW uh \in Nat, NEW buffer,
         NothingMissing(buffer, ur, uh, pdus, number),
         NEW urAfter \in Nat, NEW uhAfter \in Nat, NEW after,
         IsNext(sn, ur, uh) => urAfter = uh + 1 /\ uhAfter = uh + 1,
         Overtakes(sn, ur, uh) => urAfter = ur /\ uhAfter = uh + 2 /\ after[sn] # <<>>,
         IsOvertaken(sn, ur, uh) => urAfter = uh /\ uhAfter = uh
  PROVE  NothingMissing(after, urAfter, uhAfter, others, number)
<1> DEFINE first == number - Len(pdus)
<1>1. first \in Int /\ number - Len(others) = first + 1
  OBVIOUS
<1>2. /\ Overtaken(pdus) => ur + 1 = first /\ uh = first + 1
      /\ ~Overtaken(pdus) => ur = first /\ uh = first
  BY DEF NothingMissing
<1>3. \/ ~Overtaken(pdus) /\ sn = first /\ ~Overtaken(others)
      \/ ~Overtaken(pdus) /\ sn = first + 1 /\ Overtaken(others)
      \/ Overtaken(pdus) /\ sn + 1 = first /\ ~Overtaken(others)
  BY DEF Arrives
<1> HIDE DEF first
<1>4. IF Overtaken(others)
      THEN urAfter + 1 = first + 1 /\ uhAfter = (first + 1) + 1 /\ after[first + 1] # <<>>
      ELSE urAfter = first + 1 /\ uhAfter = first + 1
  <2>1. CASE ~Overtaken(pdus) /\ sn = first /\ ~Overtaken(others)
    <3>1. IsNext(sn, ur, uh)
      BY <1>2, <2>1 DEF IsNext
    <3> QED
      BY <1>1, <1>2, <2>1, <3>1
  <2>2. CASE ~Overtaken(pdus) /\ sn = first + 1 /\ Overtaken(others)
    <3>1. Overtakes(sn, ur, uh)
      BY <1>2, <2>2 DEF Overtakes
    <3> QED
      BY <1>1, <1>2, <2>2, <3>1
  <2>3. CASE Overtaken(pdus) /\ sn + 1 = first /\ ~Overtaken(others)
    <3>1. uh = ur + 2 /\ sn = ur
      BY <1>1, <1>2, <2>3
    <3>2. IsOvertaken(sn, ur, uh)
      BY <3>1 DEF IsOvertaken
    <3> QED
      BY <1>1, <1>2, <2>3, <3>2
  <2> QED
    BY <1>3, <2>1, <2>2, <2>3
<1> QED
  BY <1>1, <1>4 DEF NothingMissing

\* What the PDUs complete adds up to the SDUs that were taken over, and all of
\* what arrived is read.
LosslessIs(sent, count) ==
  /\ StreamCounts(sent, count, sequenceNumber, txon, Len(accepted))
  /\ faultless = TRUE =>
       /\ AllRead(reassembly, sent, count, vr.ur)
       /\ NothingMissing(rxBuffer, vr.ur, vr.uh, dataPdus, sequenceNumber)

LossInv ==
  UmInv /\ \E sent \in [SNs -> Pieces], count \in [SNs -> Nat] : OrderIs(sent) /\ LosslessIs(sent, count)

LEMMA LosslessArrival ==
  ASSUME NoWrap, UmInv, NEW sent \in [SNs -> Pieces], OrderIs(sent),
         NEW count \in [SNs -> Nat], LosslessIs(sent, count), NEW i, DoReceivePdu(i),
         faultless = TRUE
  PROVE  /\ AllRead(reassembly', sent, count, vr'.ur)
         /\ NothingMissing(rxBuffer', vr'.ur, vr'.uh, dataPdus', sequenceNumber)
<1>1. UmTypeInv /\ WindowIs(rxBuffer, vr.ur, vr.uh) /\ UmTypeInv'
  <2>1. [Next]_vars
    <3>1. i \in 1 .. 2
      BY PduIsReceived DEF UmInv
    <3> QED
      BY <3>1 DEF Next, ReceivePdu
  <2> QED
    BY <2>1, UmTypesAreKept DEF UmInv
<1>2. PICK pdu \in Pdus : pdu = dataPdus[i]
  BY <1>1, PduIsReceived
<1>3. PICK number \in SNs, waiting \in Pieces, last \in Nat, total \in Nat :
        number = sequenceNumber /\ waiting = txon /\ last = offered /\ total = Len(accepted)
  <2>1. /\ sequenceNumber \in SNs /\ txon \in Pieces /\ offered \in Nat
        /\ accepted \in Seq(1 .. NSdus)
    BY <1>1 DEF UmTypeInv, TypeOK, Units, Pieces
  <2>2. Len(accepted) \in Nat
    BY <2>1, LenProperties
  <2> QED
    BY <2>1, <2>2
<1>4. PICK pdus \in Seq(Pdus), others \in Seq(Pdus) : pdus = dataPdus /\ others = dataPdus'
  BY <1>1 DEF UmTypeInv
<1>5. PICK ur \in SNs, uh \in SNs : ur = vr.ur /\ uh = vr.uh
  BY <1>1 DEF UmTypeInv, TypeOK
<1>6. PICK urAfter \in SNs, uhAfter \in SNs : urAfter = vr'.ur /\ uhAfter = vr'.uh
  BY <1>1 DEF UmTypeInv, TypeOK
<1>7. PICK sn \in SNs : sn = pdu.sn
  BY DEF Pdus
<1>8. /\ Len(pdus) \in Nat /\ Len(others) \in Nat /\ Len(pdus) = Len(others) + 1
      /\ Arrives(pdus, others, sn, number)
  BY <1>2, <1>3, <1>4, <1>7, ArrivalInTime
<1>9. \A n \in SNs : n \in Nat
  BY UmConstants
<1>10. /\ AllRead(reassembly, sent, count, ur)
       /\ NothingMissing(rxBuffer, ur, uh, pdus, number)
       /\ StreamCounts(sent, count, number, waiting, total)
  BY <1>3, <1>4, <1>5 DEF LosslessIs
<1>11. \/ IsNext(sn, ur, uh)
       \/ Overtakes(sn, ur, uh)
       \/ IsOvertaken(sn, ur, uh) /\ rxBuffer[ur + 1] # <<>>
  BY <1>8, <1>9, <1>10, ArrivesInTime
<1>12. /\ pdu.sn + 1 < Modulus /\ vr.uh <= pdu.sn + 2
       /\ pdu.sn < number /\ pdu.units = sent[pdu.sn]
  <2>1. QueuedIs(dataPdus, sent, number)
    BY <1>3 DEF OrderIs
  <2> QED
    BY <1>1, <1>2, <2>1, ArrivalLeavesTheQueue, QueuedAfterArrival
<1>13. ~IsDiscarded(pdu.sn)
  BY <1>1, <1>5, <1>7, <1>11, <1>12, InTimeIsPlaced
<1>14. Place(pdu)
  BY <1>2, <1>13 DEF DoReceivePdu
<1>15. /\ StreamIs(sent, number, waiting, last) /\ HeldIs(rxBuffer, sent, number)
       /\ ReadIs(reassembly, sent, number)
  BY <1>3 DEF OrderIs
<1>16. /\ AllRead(reassembly, sent, count, vr.ur)
       /\ \/ IsNext(pdu.sn, vr.ur, vr.uh)
          \/ Overtakes(pdu.sn, vr.ur, vr.uh)
          \/ IsOvertaken(pdu.sn, vr.ur, vr.uh) /\ rxBuffer[vr.ur + 1] # <<>>
  BY <1>5, <1>7, <1>10, <1>11
<1>17. /\ AllRead(reassembly', sent, count, vr'.ur)
       /\ IsNext(pdu.sn, vr.ur, vr.uh) => vr'.ur = vr.uh + 1 /\ vr'.uh = vr.uh + 1
       /\ Overtakes(pdu.sn, vr.ur, vr.uh) =>
            vr'.ur = vr.ur /\ vr'.uh = vr.uh + 2 /\ rxBuffer'[pdu.sn] # <<>>
       /\ IsOvertaken(pdu.sn, vr.ur, vr.uh) => vr'.ur = vr.uh /\ vr'.uh = vr.uh
  <2>1. StreamCounts(sent, count, number, waiting, total)
    BY <1>10
  <2>2. UmTypeInv /\ WindowIs(rxBuffer, vr.ur, vr.uh)
    BY <1>1
  <2> QED
    BY <1>12, <1>13, <1>14, <1>15, <1>16, <2>1, <2>2, PlaceReadsAll
<1>18. PICK after : after = rxBuffer'
  OBVIOUS
<1>19. /\ IsNext(sn, ur, uh) => urAfter = uh + 1 /\ uhAfter = uh + 1
       /\ Overtakes(sn, ur, uh) => urAfter = ur /\ uhAfter = uh + 2 /\ after[sn] # <<>>
       /\ IsOvertaken(sn, ur, uh) => urAfter = uh /\ uhAfter = uh
  BY <1>5, <1>6, <1>7, <1>17, <1>18
<1>20. NothingMissing(after, urAfter, uhAfter, others, number)
  <2>1. /\ sn \in Nat /\ number \in Nat /\ ur \in Nat /\ uh \in Nat
        /\ urAfter \in Nat /\ uhAfter \in Nat
    BY <1>9
  <2>2. PICK before : before = rxBuffer /\ NothingMissing(before, ur, uh, pdus, number)
    BY <1>10
  <2> QED
    BY <1>8, <1>19, <2>1, <2>2, NothingMissingAfterArrival
<1> QED
  BY <1>3, <1>4, <1>6, <1>17, <1>18, <1>20

LEMMA LosslessAfterPdu ==
  ASSUME UmInv, NoWrap, NEW sent \in [SNs -> Pieces], OrderIs(sent), PduIsGiven,
         NEW count \in [SNs -> Nat], LosslessIs(sent, count),
         NEW number \in SNs, NEW waiting \in Pieces, NEW m \in 1 .. Len(txon),
         number = sequenceNumber, number + 1 < Modulus, waiting = txon,
         txon' = SubSeq(waiting, m + 1, Len(waiting)), sequenceNumber' = number + 1
  PROVE  \E counted \in [SNs -> Nat] :
           LosslessIs([sent EXCEPT ![number] = SubSeq(waiting, 1, m)], counted)'
<1>1. PICK ur \in SNs, uh \in SNs, pdus \in Seq(Pdus) : ur = vr.ur /\ uh = vr.uh /\ pdus = dataPdus
  BY DEF UmInv, UmTypeInv, TypeOK
<1>2. PICK total : total = Len(accepted)
  OBVIOUS
<1>3. UNCHANGED <<rxBuffer, vr, reassembly, accepted, faultless>>
  BY DEF PduIsGiven, GivesPdu, DoNotifyTxOpportunity, receiver
<1>4. StreamCounts(sent, count, number, waiting, total)
  BY <1>2 DEF LosslessIs
<1> DEFINE units == SubSeq(waiting, 1, m)  rest == SubSeq(waiting, m + 1, Len(waiting))
           after == [sent EXCEPT ![number] = units]
<1>5. PICK mid \in Nat :
        StreamCounts(after, [count EXCEPT ![number + 1] = mid], number + 1, rest, total)
  BY <1>4, CountsGivePdu
<1> DEFINE counted == [count EXCEPT ![number + 1] = mid]
<1>6. counted \in [SNs -> Nat]
  OBVIOUS
<1>7. ASSUME faultless = TRUE
      PROVE  /\ AllRead(reassembly, after, counted, ur)
             /\ NothingMissing(rxBuffer, ur, uh, dataPdus', number + 1)
  <2>1. PICK rs : rs = reassembly
    OBVIOUS
  <2>2. /\ AllRead(rs, sent, count, ur)
        /\ NothingMissing(rxBuffer, ur, uh, pdus, number)
    BY <1>1, <1>7, <2>1 DEF LosslessIs
  <2>3. ur <= number
    BY <2>1, <2>2 DEF OrderIs, ReadIs, AllRead
  <2>4. AllRead(rs, after, counted, ur)
    BY <2>2, <2>3, AllReadAfterPdu
  <2>5. PICK e \in Pdus : e.overtaken = FALSE /\ dataPdus' = Append(pdus, e)
    <3>1. PICK n \in Nat : n > 0 /\ txon # <<>> /\ SendPdu(Min({n, Len(txon)}))
      BY UmConstants DEF PduIsGiven, GivesPdu
    <3>2. PICK sdus \in Seq(Units) :
            dataPdus' = Append(pdus, [sn |-> number, units |-> sdus, overtaken |-> FALSE])
      BY <1>1, <3>1, PduIsSent DEF UmInv
    <3> QED
      BY <3>2 DEF Pdus
  <2>6. number \in Nat
    BY UmConstants
  <2>7. NothingMissing(rxBuffer, ur, uh, Append(pdus, e), number + 1)
    <3>1. PICK buffer : buffer = rxBuffer
      OBVIOUS
    <3>2. NothingMissing(buffer, ur, uh, pdus, number)
      BY <2>2, <3>1
    <3>3. NothingMissing(buffer, ur, uh, Append(pdus, e), number + 1)
      BY <2>5, <2>6, <3>2, NothingMissingAfterPdu
    <3> QED
      BY <3>1, <3>3
  <2> QED
    BY <2>1, <2>4, <2>5, <2>7
<1> HIDE DEF after, counted
<1>8. LosslessIs(after, counted)'
  BY <1>1, <1>2, <1>3, <1>5, <1>7 DEF LosslessIs, counted, rest
<1> QED
  BY <1>6, <1>8 DEF after, units

LEMMA LosslessOtherwise ==
  ASSUME NoWrap, UmInv, NEW sent \in [SNs -> Pieces], OrderIs(sent),
         NEW count \in [SNs -> Nat], LosslessIs(sent, count), [Next]_vars, ~PduIsGiven
  PROVE  LosslessIs(sent, count)'
<1>1. /\ StreamCounts(sent, count, sequenceNumber, txon, Len(accepted))
      /\ faultless = TRUE =>
           /\ AllRead(reassembly, sent, count, vr.ur)
           /\ NothingMissing(rxBuffer, vr.ur, vr.uh, dataPdus, sequenceNumber)
  BY DEF LosslessIs
<1>2. CASE UNCHANGED <<sequenceNumber, txon, accepted, faultless, dataPdus, rxBuffer, reassembly, vr>>
  BY <1>1, <1>2 DEF LosslessIs
<1>3. CASE faultless' = FALSE /\ UNCHANGED <<sequenceNumber, txon, accepted>>
  BY <1>1, <1>3 DEF LosslessIs
<1>4. CASE DoTransmitPdcpPdu
  <2>1. UNCHANGED <<sequenceNumber, faultless, dataPdus, rxBuffer, reassembly, vr>>
    BY <1>4 DEF DoTransmitPdcpPdu, receiver
  <2>2. /\ offered + 1 \in 1 .. NSdus
        /\ \/ txon' = txon /\ accepted' = accepted
           \/ txon' = txon \o Sdu(offered + 1) /\ accepted' = Append(accepted, offered + 1)
    <3>1. offered < NSdus /\ offered \in Nat
      BY <1>4 DEF DoTransmitPdcpPdu, UmInv, UmTypeInv, TypeOK
    <3>2. offered + 1 \in 1 .. NSdus
      BY <3>1, UmConstants
    <3> QED
      BY <1>4, <3>2 DEF DoTransmitPdcpPdu
  <2>3. PICK number \in SNs, waiting \in Pieces, taken \in Seq(1 .. NSdus) :
          number = sequenceNumber /\ waiting = txon /\ taken = accepted
    BY DEF UmInv, UmTypeInv, TypeOK, Units, Pieces
  <2>4. PICK s \in 1 .. NSdus : s = offered + 1
    BY <2>2
  <2>5. PICK total \in Nat : total = Len(taken) /\ Len(Append(taken, s)) = total + 1
    BY LenProperties, AppendProperties
  <2>6. StreamCounts(sent, count, number, waiting, total)
    BY <1>1, <2>3, <2>5
  <2>7. StreamCounts(sent, count, number, waiting \o Sdu(s), total + 1)
    BY <2>6, CountsGetSdu
  <2>8. StreamCounts(sent, count, number, txon', Len(accepted'))
    BY <2>2, <2>3, <2>4, <2>5, <2>6, <2>7
  <2> QED
    BY <1>1, <2>1, <2>3, <2>8 DEF LosslessIs
<1>5. ASSUME NEW n \in Grants, DoNotifyTxOpportunity(n)
      PROVE  LosslessIs(sent, count)'
  <2>1. UNCHANGED <<rxBuffer, vr, reassembly, accepted, faultless>>
    BY <1>5 DEF DoNotifyTxOpportunity, receiver
  <2>2. CASE n > 0 /\ txon # <<>> /\ SendPdu(Min({n, Len(txon)}))
    BY <1>5, <2>2 DEF PduIsGiven, GivesPdu
  <2>3. CASE n > 0 /\ txon = <<>> /\ report' = FALSE /\ UNCHANGED <<txon, sequenceNumber, rbsTimer, dataPdus>>
    BY <1>2, <2>1, <2>3
  <2>4. CASE n = 0 /\ UNCHANGED <<sender, dataPdus>>
    BY <1>2, <2>1, <2>4 DEF sender
  <2> QED
    BY <1>5, <2>2, <2>3, <2>4 DEF DoNotifyTxOpportunity
<1>6. CASE ExpireRbsTimer
  BY <1>2, <1>6 DEF ExpireRbsTimer, receiver
<1>7. ASSUME NEW i \in 1 .. 2, DoReceivePdu(i)
      PROVE  LosslessIs(sent, count)'
  <2>1. UNCHANGED <<sequenceNumber, txon, accepted, faultless>>
    BY <1>7 DEF DoReceivePdu, sender
  <2>2. ASSUME faultless = TRUE
        PROVE  /\ AllRead(reassembly', sent, count, vr'.ur)
               /\ NothingMissing(rxBuffer', vr'.ur, vr'.uh, dataPdus', sequenceNumber)
    BY <1>7, <2>2, LosslessArrival
  <2> QED
    BY <1>1, <2>1, <2>2 DEF LosslessIs
<1>8. CASE ExpireReorderingTimer
  BY <1>3, <1>8 DEF ExpireReorderingTimer, sender
<1>9. CASE LosePdu
  BY <1>3, <1>9 DEF LosePdu, sender
<1>10. CASE UNCHANGED vars
  BY <1>2, <1>10 DEF vars, sender, receiver
<1> QED
  BY <1>4, <1>5, <1>6, <1>7, <1>8, <1>9, <1>10 DEF Next, TxOpportunity, ReceivePdu

LEMMA LossInvIsKept ==
  ASSUME NoWrap, LossInv, [Next]_vars
  PROVE  LossInv'
<1>1. UmInv /\ UmInv'
  BY UmInvIsKept DEF LossInv
<1>2. PICK sent \in [SNs -> Pieces], count \in [SNs -> Nat] : OrderIs(sent) /\ LosslessIs(sent, count)
  BY DEF LossInv
<1>3. CASE PduIsGiven
  <2>1. PICK number \in SNs, waiting \in Pieces, m \in 1 .. Len(txon) :
          /\ number = sequenceNumber /\ number + 1 < Modulus /\ waiting = txon
          /\ txon' = SubSeq(waiting, m + 1, Len(waiting)) /\ sequenceNumber' = number + 1
          /\ [sent EXCEPT ![number] = SubSeq(waiting, 1, m)] \in [SNs -> Pieces]
          /\ OrderIs([sent EXCEPT ![number] = SubSeq(waiting, 1, m)])'
    BY <1>1, <1>2, <1>3, OrderAfterPdu
  <2>2. PICK counted \in [SNs -> Nat] :
          LosslessIs([sent EXCEPT ![number] = SubSeq(waiting, 1, m)], counted)'
    BY <1>1, <1>2, <1>3, <2>1, LosslessAfterPdu
  <2>3. PICK after \in [SNs -> Pieces] : after = [sent EXCEPT ![number] = SubSeq(waiting, 1, m)]
    BY <2>1
  <2>4. OrderIs(after)' /\ LosslessIs(after, counted)'
    BY <2>1, <2>2, <2>3
  <2> QED
    BY <1>1, <2>4 DEF LossInv
<1>4. CASE ~PduIsGiven
  <2>1. OrderIs(sent)' /\ LosslessIs(sent, count)'
    BY <1>1, <1>2, <1>4, OrderOtherwise, LosslessOtherwise
  <2> QED
    BY <1>1, <1>2, <2>1 DEF LossInv
<1> QED
  BY <1>3, <1>4

LEMMA LossInvInitially ==
  ASSUME Init
  PROVE  LossInv
<1>1. UmInv
  BY UmInvInitially
<1>2. PICK sent \in [SNs -> Pieces] : OrderIs(sent)
  BY OrderInitially
<1> DEFINE count == [sn \in SNs |-> 0]
<1>3. count \in [SNs -> Nat] /\ count[0] = 0 /\ 0 \in SNs /\ \A sn \in SNs : sn \in Nat
  BY UmConstants
<1> HIDE DEF count
<1>4. /\ sequenceNumber = 0 /\ txon = <<>> /\ accepted = <<>> /\ dataPdus = <<>>
      /\ vr.ur = 0 /\ vr.uh = 0 /\ reassembly = InitialReassembly
  BY DEF Init
<1>5. Len(<<>>) = 0
  BY EmptySeq
<1>6. StreamCounts(sent, count, 0, <<>>, 0)
  <2>1. Counts(<<>>, 0, 0)
    BY NothingCounts
  <2>2. \A a \in SNs : ~(a < 0)
    BY <1>3
  <2> QED
    BY <1>3, <2>1, <2>2 DEF StreamCounts
<1>7. AllRead(InitialReassembly, sent, count, 0)
  <2>1. \A a \in SNs : a + 1 # 0
    BY <1>3
  <2> QED
    BY <1>3, <1>5, <2>1 DEF AllRead, InitialReassembly
<1>8. NothingMissing(rxBuffer, 0, 0, <<>>, 0)
  <2>1. PICK pdus : pdus = <<>> /\ Len(pdus) = 0
    BY <1>5
  <2>2. ~Overtaken(pdus)
    BY <2>1 DEF Overtaken
  <2>3. 0 - Len(pdus) = 0
    <3>1. 0 - 0 = 0
      OBVIOUS
    <3> QED
      BY <2>1, <3>1, Zenon
  <2>4. NothingMissing(rxBuffer, 0, 0, pdus, 0)
    BY <2>2, <2>3, Zenon DEF NothingMissing
  <2> QED
    BY <2>1, <2>4
<1>9. LosslessIs(sent, count)
  BY <1>4, <1>5, <1>6, <1>7, <1>8 DEF LosslessIs
<1> QED
  BY <1>1, <1>2, <1>3, <1>9 DEF LossInv

LEMMA LosslessEnd ==
  ASSUME LossInv
  PROVE  ReorderingLosesNothing
<1>1. PICK sent \in [SNs -> Pieces], count \in [SNs -> Nat] : LosslessIs(sent, count)
  BY DEF LossInv
<1> SUFFICES ASSUME faultless = TRUE, dataPdus = <<>>, txon = <<>>
             PROVE  Len(reassembly.delivered) = Len(accepted)
  <2>1. faultless \in BOOLEAN
    BY DEF LossInv, UmInv, UmTypeInv, TypeOK
  <2> QED
    BY <2>1 DEF ReorderingLosesNothing
<1>2. sequenceNumber \in Nat /\ Len(<<>>) = 0 /\ ~Overtaken(<<>>)
  BY EmptySeq, UmConstants DEF LossInv, UmInv, UmTypeInv, TypeOK, Overtaken
<1>3. vr.ur = sequenceNumber
  <2>1. NothingMissing(rxBuffer, vr.ur, vr.uh, <<>>, sequenceNumber)
    BY <1>1 DEF LosslessIs
  <2>2. vr.ur = sequenceNumber - 0
    BY <1>2, <2>1 DEF NothingMissing
  <2> QED
    BY <1>2, <2>2
<1>4. Len(reassembly.delivered) = count[sequenceNumber]
  BY <1>1, <1>3 DEF LosslessIs, AllRead
<1>5. Counts(<<>>, count[sequenceNumber], Len(accepted))
  BY <1>1 DEF LosslessIs, StreamCounts
<1> QED
  BY <1>4, <1>5, CountsOfNothing

\* ReassembleAndDeliver of LteRlcUm and DoReceivePdu: as long as no PDU is lost
\* and t-Reordering does not run out, PDUs that overtake one another cost
\* nothing; when all have arrived, as many SDUs have been handed up as were
\* taken over.  That holds as long as the sequence numbers do not wrap around.
THEOREM ReorderingIsHarmless ==
  ASSUME NoWrap
  PROVE  Spec => []ReorderingLosesNothing
<1>1. Init => LossInv
  BY LossInvInitially
<1>2. LossInv /\ [Next]_vars => LossInv'
  BY LossInvIsKept
<1>3. LossInv => ReorderingLosesNothing
  BY LosslessEnd
<1> QED
  BY <1>1, <1>2, <1>3, PTL DEF Spec

==============================================================================
