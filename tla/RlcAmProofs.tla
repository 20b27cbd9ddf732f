------------------------------ MODULE RlcAmProofs ------------------------------
(***************************************************************************)
(* Proofs about the acknowledged mode, for any window, size of SDUs,       *)
(* transmission opportunities, losses, segments and order of arrival of    *)
(* the PDUs; STATUS PDUs keep their order.                                 *)
(***************************************************************************)
EXTENDS RlcAm, CommonLemmas

Units == (1 .. NSdus) \X (1 .. SduUnits)
Pieces == Seq(Units)
Buffers == [SNs -> Pieces]
DataPdus == [sn : SNs, units : Pieces, offset : Nat, segment : BOOLEAN, last : BOOLEAN,
             poll : BOOLEAN, overtaken : BOOLEAN]
StatusPdus == [nacks : SUBSET SNs, ackSn : SNs, overtaken : BOOLEAN]
Entries == [units : Pieces, complete : BOOLEAN]
Polls == [sn : SNs, timer : BOOLEAN, justExpired : BOOLEAN]

------------------------------------------------------------------------------
(* Sequence numbers.  PDUs are counted from 0 on; No(n) is the sequence     *)
(* number PDU n has.                                                       *)

No(n) == n % Modulus

LEMMA AmConstants ==
  /\ Window \in Nat /\ Window > 0 /\ Modulus \in Nat /\ Modulus > 0 /\ Modulus = Window + Window
  /\ SduUnits \in Nat /\ SduUnits > 0 /\ NSdus \in Nat
  /\ Grants \subseteq Nat \ {0} /\ MaxTxBuffer \in Nat
  /\ 0 \in SNs /\ \A n : n \in SNs <=> n \in Nat /\ n < Modulus
BY RlcAssumption, RlcAmAssumption DEF SNs

LEMMA Modulo ==
  ASSUME NEW a \in Nat, NEW m \in Nat, m > 0
  PROVE  /\ a % m \in 0 .. m - 1
         /\ a < m => a % m = a
         /\ m <= a /\ a < m + m => a % m = a - m
BY Z3

LEMMA ModuloParts ==
  ASSUME NEW a \in Nat, NEW m \in Nat, m > 0
  PROVE  \E q \in Nat : a = q * m + (a % m)
BY Z3

LEMMA ModuloMultiple ==
  ASSUME NEW a \in Nat, NEW m \in Nat, NEW q \in Nat, m > 0, a < m
  PROVE  (q * m + a) % m = a
BY Z3

LEMMA Distribute ==
  ASSUME NEW p \in Nat, NEW q \in Nat, NEW m \in Nat
  PROVE  (p + q) * m = p * m + q * m /\ p * m \in Nat /\ q * m \in Nat
OBVIOUS

LEMMA ModuloSum ==
  ASSUME NEW a \in Nat, NEW b \in Nat, NEW m \in Nat, m > 0
  PROVE  ((a % m) + b) % m = (a + b) % m
<1>1. a % m \in Nat
  BY Modulo
<1>2. PICK r \in Nat : r = a % m
  BY <1>1
<1>3. PICK q \in Nat : a = q * m + r
  BY <1>2, ModuloParts
<1>4. PICK t \in Nat : t = (r + b) % m /\ t < m
  <2>1. r + b \in Nat
    OBVIOUS
  <2> QED
    BY <2>1, Modulo
<1>5. PICK p \in Nat : r + b = p * m + t
  <2>1. r + b \in Nat
    OBVIOUS
  <2> QED
    BY <1>4, <2>1, ModuloParts
<1>6. a + b = (q + p) * m + t
  <2>1. (q + p) * m = q * m + p * m /\ q * m \in Nat /\ p * m \in Nat
    BY Distribute
  <2> DEFINE x == q * m  y == p * m  z == (q + p) * m
  <2>2. a = x + r /\ r + b = y + t /\ z = x + y /\ x \in Nat /\ y \in Nat
    BY <1>3, <1>5, <2>1
  <2> HIDE DEF x, y, z
  <2>3. a + b = z + t
    BY <2>2
  <2> QED
    BY <2>3 DEF z
<1>7. q + p \in Nat
  OBVIOUS
<1>8. (a + b) % m = t
  BY <1>4, <1>6, <1>7, ModuloMultiple
<1> QED
  BY <1>2, <1>4, <1>8

LEMMA SumOfNumbers ==
  ASSUME NEW n, n \in Nat, NEW k, k \in Nat
  PROVE  No(n) \in SNs /\ Plus(No(n), k) = No(n + k)
<1>1. No(n) \in SNs
  BY AmConstants, Modulo DEF No, SNs
<1> QED
  BY <1>1, AmConstants, ModuloSum DEF No, Plus

LEMMA DistanceFrom ==
  ASSUME NEW sn \in SNs, NEW d \in Nat, d < Modulus
  PROVE  Dist(Plus(sn, d), sn) = d
<1>1. sn \in Nat /\ sn < Modulus /\ Modulus \in Nat /\ Modulus > 0
  BY AmConstants
<1> DEFINE x == sn + d  y == x % Modulus
<1>2. x \in Nat /\ x = sn + d /\ Plus(sn, d) = y
  BY <1>1 DEF Plus
<1>3. y \in Nat /\ (x < Modulus => y = x) /\ (Modulus <= x => y = x - Modulus)
  <2> HIDE DEF x
  <2> QED
    BY <1>1, <1>2, Modulo
<1> HIDE DEF x, y
<1> DEFINE z == y + Modulus - sn
<1>4. z \in Nat /\ Dist(y, sn) = z % Modulus /\ (z = d \/ z = d + Modulus)
  BY <1>1, <1>2, <1>3 DEF Dist
<1> HIDE DEF z
<1>5. z % Modulus = d
  BY <1>1, <1>4, Modulo
<1> QED
  BY <1>2, <1>4, <1>5

LEMMA NumberAgain ==
  ASSUME NEW n, n \in Nat
  PROVE  No(n + Modulus) = No(n)
<1>1. PICK sn \in Nat : sn = No(n) /\ sn < Modulus
  BY SumOfNumbers, AmConstants
<1>2. Plus(sn, Modulus) = No(n + Modulus)
  BY <1>1, SumOfNumbers, AmConstants
<1>3. (sn + Modulus) % Modulus = sn
  <2> DEFINE x == sn + Modulus
  <2>1. x \in Nat /\ x = sn + Modulus /\ Modulus <= x /\ x < Modulus + Modulus
    BY <1>1, AmConstants
  <2> HIDE DEF x
  <2>2. x % Modulus = x - Modulus
    BY <2>1, AmConstants, Modulo
  <2>3. x % Modulus = sn
    BY <1>1, <2>1, <2>2, AmConstants
  <2> QED
    BY <2>3 DEF x
<1> QED
  BY <1>1, <1>2, <1>3 DEF Plus

\* The distance of two PDUs less than the modulus apart.
LEMMA DistanceOfNumbers ==
  ASSUME NEW low, low \in Nat, NEW high, high \in Nat, low <= high, high < low + Modulus
  PROVE  Dist(No(high), No(low)) = high - low
<1>1. high - low \in Nat /\ high - low < Modulus /\ low + (high - low) = high /\ Modulus \in Nat
  BY AmConstants
<1>2. No(low) \in SNs /\ Plus(No(low), high - low) = No(high)
  BY <1>1, SumOfNumbers
<1> QED
  BY <1>1, <1>2, DistanceFrom

LEMMA DistanceBehind ==
  ASSUME NEW low, low \in Nat, NEW high, high \in Nat, low < high, high <= low + Modulus
  PROVE  Dist(No(low), No(high)) = low + Modulus - high
<1>1. low + Modulus \in Nat /\ high <= low + Modulus /\ low + Modulus < high + Modulus
  BY AmConstants
<1>2. Dist(No(low + Modulus), No(high)) = (low + Modulus) - high
  BY <1>1, DistanceOfNumbers
<1>3. No(low + Modulus) = No(low)
  BY NumberAgain
<1> QED
  BY <1>1, <1>2, <1>3, AmConstants

LEMMA SameNumber ==
  ASSUME NEW base, base \in Nat, NEW m, m \in Nat, NEW n, n \in Nat,
         base <= m, m < base + Modulus, base <= n, n < base + Modulus, No(m) = No(n)
  PROVE  m = n
<1>1. ASSUME NEW low, low \in Nat, NEW high, high \in Nat, low <= high, high < low + Modulus,
             No(low) = No(high)
      PROVE  low = high
  <2>1. Dist(No(high), No(low)) = high - low
    BY <1>1, DistanceOfNumbers
  <2>2. Dist(No(low), No(low)) = low - low
    BY <1>1, DistanceOfNumbers, AmConstants
  <2> QED
    BY <1>1, <2>1, <2>2
<1>2. CASE m <= n
  <2>1. n < m + Modulus
    BY <1>2, AmConstants
  <2> QED
    BY <1>1, <1>2, <2>1
<1>3. CASE n <= m
  <2>1. m < n + Modulus
    BY <1>3, AmConstants
  <2> QED
    BY <1>1, <1>3, <2>1
<1> QED
  BY <1>2, <1>3

\* Of Modulus PDUs in a row one has a given sequence number.
LEMMA NumberFound ==
  ASSUME NEW sn, sn \in SNs, NEW base, base \in Nat
  PROVE  \E n \in Nat : base <= n /\ n < base + Modulus /\ No(n) = sn
<1>1. PICK b \in Nat : b = No(base) /\ b < Modulus
  BY SumOfNumbers, AmConstants
<1>2. sn \in Nat /\ sn < Modulus /\ Modulus \in Nat
  BY AmConstants
<1> DEFINE d == IF b <= sn THEN sn - b ELSE sn + Modulus - b
<1>3. d \in Nat /\ d < Modulus /\ (b + d = sn \/ b + d = sn + Modulus)
  BY <1>1, <1>2
<1> HIDE DEF d
<1>4. (b + d) % Modulus = sn
  <2> DEFINE x == b + d
  <2>1. x \in Nat /\ (x = sn \/ x = sn + Modulus)
    BY <1>3
  <2> HIDE DEF x
  <2>2. x % Modulus = sn
    BY <1>2, <2>1, Modulo
  <2> QED
    BY <2>2 DEF x
<1>5. No(base + d) = sn
  BY <1>1, <1>3, <1>4, SumOfNumbers DEF Plus
<1>6. base + d \in Nat /\ base <= base + d /\ base + d < base + Modulus
  BY <1>2, <1>3
<1> QED
  BY <1>5, <1>6

------------------------------------------------------------------------------
(* The PDUs on their way. *)

\* What is on its way is PDU n or a segment of it, cut out of what was sent.
PduIs(pdu, n, sent) ==
  /\ pdu.sn = No(n)
  /\ Len(pdu.units) > 0 /\ pdu.offset + Len(pdu.units) <= Len(sent[n])
  /\ \A k \in 1 .. Len(pdu.units) : pdu.units[k] = sent[n][pdu.offset + k]
  /\ pdu.last = TRUE => pdu.offset + Len(pdu.units) = Len(sent[n])
  /\ pdu.segment = FALSE => pdu.offset = 0 /\ pdu.last = TRUE

\* Which PDUs are on their way, num[i] being the i-th of them: none is so late
\* that the receiving entity has gone more than a window beyond it.
DataIs(pdus, num, sent, s, h) ==
  /\ \A i \in 1 .. Len(pdus) :
       /\ PduIs(pdus[i], num[i], sent)
       /\ num[i] < s /\ h <= num[i] + Window
       /\ i # 1 => pdus[i].overtaken = FALSE
  /\ \A i, j \in 1 .. Len(pdus) : i < j => num[i] < num[j] + Window
  /\ \A i, j \in 1 .. Len(pdus) :
       j = i + 1 /\ pdus[i].overtaken = FALSE => num[j] <= num[i] + Window
  /\ \A i \in 1 .. Len(pdus) :
       i = Len(pdus) /\ pdus[i].overtaken = FALSE => s <= num[i] + Window

\* What is left of a queue when its first or second element leaves, the second
\* one overtaking the first.
LeftOver(others, pdus, i) ==
  /\ i \in 1 .. Len(pdus) /\ (i = 1 \/ (i = 2 /\ pdus[1].overtaken = FALSE))
  /\ Len(others) = Len(pdus) - 1
  /\ \A j \in 1 .. Len(others) :
       IF i = 2 /\ j = 1 THEN others[j] = [pdus[1] EXCEPT !.overtaken = TRUE]
       ELSE others[j] = pdus[j + 1]

\* What it is when a PDU has joined it.
Joined(more, pdus, e) ==
  /\ Len(more) = Len(pdus) + 1 /\ more[Len(pdus) + 1] = e
  /\ \A i \in 1 .. Len(pdus) : more[i] = pdus[i]

QueueOf(pdus, S) == Len(pdus) \in Nat /\ \A i \in 1 .. Len(pdus) : pdus[i] \in S

LEMMA QueueHasElements ==
  ASSUME NEW S, NEW pdus \in Seq(S)
  PROVE  QueueOf(pdus, S)
BY LenProperties, ElementOfSeq DEF QueueOf

LEMMA LastJoins ==
  ASSUME NEW S, NEW pdus \in Seq(S), NEW e \in S
  PROVE  Append(pdus, e) \in Seq(S) /\ Joined(Append(pdus, e), pdus, e)
BY LenProperties, AppendProperties DEF Joined

\* The numbers that go with a queue.
Counting(num) == num \in [Nat -> Nat]

\* Positions in the queue before.
Before(j, i) == IF j < i THEN j ELSE j + 1

LEMMA OthersAreLeft ==
  ASSUME NEW S, \A e \in S : [e EXCEPT !.overtaken = TRUE] \in S,
         \A e \in S : e.overtaken \in BOOLEAN,
         NEW pdus, pdus \in Seq(S), NEW may, NEW i, i \in Arriving(pdus, may)
  PROVE  Others(pdus, i) \in Seq(S) /\ LeftOver(Others(pdus, i), pdus, i)
<1>1. DOMAIN pdus = 1 .. Len(pdus) /\ Len(pdus) \in Nat /\ i \in DOMAIN pdus
  BY LenProperties DEF Arriving
<1>2. i = 1 \/ (i = 2 /\ ~pdus[1].overtaken)
  BY DEF Arriving
<1>3. CASE i = 1
  <2>1. Others(pdus, i) = RemoveAt(pdus, i)
    BY <1>3 DEF Others
  <2>2. RemoveAt(pdus, i) \in Seq(S) /\ Lengthened(RemoveAt(pdus, i), pdus, i, pdus[i])
    BY <1>1, RemoveAtShortens
  <2> DEFINE others == Others(pdus, i)
  <2>3. /\ others \in Seq(S) /\ Len(others) = Len(pdus) - 1
        /\ \A j \in 1 .. Len(others) : others[j] = pdus[j + 1]
    BY <1>1, <1>3, <2>1, <2>2, LenProperties DEF Lengthened
  <2> HIDE DEF others
  <2>4. LeftOver(others, pdus, i)
    BY <1>1, <1>3, <2>3 DEF LeftOver
  <2> QED
    BY <2>3, <2>4 DEF others
<1>4. CASE i = 2 /\ ~pdus[1].overtaken
  <2> DEFINE e == [pdus[1] EXCEPT !.overtaken = TRUE]  marked == [pdus EXCEPT ![1] = e]
  <2>1. 1 \in 1 .. Len(pdus) /\ 2 \in 1 .. Len(pdus)
    BY <1>1, <1>4
  <2>2. pdus[1] \in S /\ e \in S /\ pdus[1].overtaken = FALSE
    BY <1>4, <2>1, ElementOfSeq
  <2>3. Others(pdus, i) = RemoveAt(marked, 2)
    BY <1>4 DEF Others
  <2> HIDE DEF e
  <2>4. /\ marked \in Seq(S) /\ Len(marked) = Len(pdus) /\ marked[1] = e
        /\ \A j \in 1 .. Len(pdus) : j # 1 => marked[j] = pdus[j]
    BY <1>1, <2>1, <2>2, ExceptSeq
  <2> HIDE DEF marked
  <2>5. 2 \in DOMAIN marked
    BY <2>1, <2>4, LenProperties
  <2>6. RemoveAt(marked, 2) \in Seq(S) /\ Lengthened(RemoveAt(marked, 2), marked, 2, marked[2])
    BY <2>4, <2>5, RemoveAtShortens
  <2> DEFINE others == Others(pdus, i)
  <2>7. /\ others \in Seq(S) /\ Len(others) = Len(pdus) - 1
        /\ \A j \in 1 .. Len(others) : others[j] = marked[IF j < 2 THEN j ELSE j + 1]
    BY <1>1, <2>3, <2>4, <2>6, LenProperties DEF Lengthened
  <2> HIDE DEF others
  <2>8. \A j \in 1 .. Len(others) : IF j = 1 THEN others[j] = e ELSE others[j] = pdus[j + 1]
    <3> SUFFICES ASSUME NEW j \in 1 .. Len(others)
                 PROVE  IF j = 1 THEN others[j] = e ELSE others[j] = pdus[j + 1]
      OBVIOUS
    <3>1. CASE j = 1
      <4>1. others[j] = marked[1]
        BY <2>7, <3>1
      <4> QED
        BY <2>4, <3>1, <4>1
    <3>2. CASE j # 1
      <4>1. ~(j < 2) /\ j + 1 \in 1 .. Len(pdus) /\ j + 1 # 1
        BY <1>1, <2>7, <3>2
      <4> QED
        BY <2>4, <2>7, <3>2, <4>1
    <3> QED
      BY <3>1, <3>2
  <2>9. LeftOver(others, pdus, i)
    BY <1>4, <2>1, <2>2, <2>7, <2>8 DEF LeftOver, e
  <2> QED
    BY <2>7, <2>9 DEF others
<1> QED
  BY <1>2, <1>3, <1>4

LEMMA HeadIsLeft ==
  ASSUME NEW S, NEW pdus \in Seq(S), pdus # <<>>
  PROVE  Tail(pdus) \in Seq(S) /\ LeftOver(Tail(pdus), pdus, 1)
<1>1. /\ Tail(pdus) \in Seq(S) /\ Len(Tail(pdus)) = Len(pdus) - 1 /\ Len(pdus) \in Nat \ {0}
      /\ \A j \in 1 .. Len(pdus) - 1 : Tail(pdus)[j] = pdus[j + 1]
  BY LenProperties
<1> QED
  BY <1>1 DEF LeftOver

\* A PDU that arrives or is lost.  It has been overtaken by none that is a
\* whole window beyond it.
LEMMA PduLeaves ==
  ASSUME NEW pdus, QueueOf(pdus, DataPdus), NEW others, NEW i, LeftOver(others, pdus, i),
         NEW num, Counting(num), NEW sent, NEW s \in Nat, NEW h \in Nat, NEW after \in Nat,
         DataIs(pdus, num, sent, s, h),
         after = h \/ after = num[i] + 1, i = 2 => num[2] # num[1] + Window
  PROVE  DataIs(others, [j \in Nat |-> num[Before(j, i)]], sent, s, after)
<1> DEFINE l == Len(others)  left == [j \in Nat |-> num[Before(j, i)]]
<1>1. /\ l \in Nat /\ Len(pdus) = l + 1 /\ Window \in Nat /\ Window > 0
      /\ i \in 1 .. l + 1 /\ (i = 1 \/ (i = 2 /\ pdus[1].overtaken = FALSE))
  BY AmConstants DEF LeftOver, QueueOf
<1>2. \A j \in 1 .. l : IF i = 2 /\ j = 1 THEN others[j] = [pdus[1] EXCEPT !.overtaken = TRUE]
                        ELSE others[j] = pdus[j + 1]
  BY DEF LeftOver
<1>3. \A j \in Nat : left[j] = num[Before(j, i)]
  OBVIOUS
<1> HIDE DEF l, left
<1>4. \A j \in 1 .. l : /\ j \in Nat /\ Before(j, i) \in 1 .. l + 1 /\ Before(j, i) # i
                        /\ Before(j, i) = IF i = 2 /\ j = 1 THEN 1 ELSE j + 1
  BY <1>1 DEF Before
<1>5. \A j \in 1 .. l + 1 : num[j] \in Nat
  BY DEF Counting
<1>6. \A j \in 1 .. l + 1 : pdus[j] \in DataPdus
  BY <1>1 DEF QueueOf
<1>7. ASSUME NEW j \in 1 .. l
      PROVE  PduIs(others[j], left[j], sent) /\ left[j] < s /\ (j # 1 => others[j].overtaken = FALSE)
  <2>1. CASE i = 2 /\ j = 1
    <3>1. others[j] = [pdus[1] EXCEPT !.overtaken = TRUE] /\ left[j] = num[1] /\ 1 \in 1 .. l + 1
      BY <1>1, <1>2, <1>3, <1>4, <2>1
    <3>2. PduIs(pdus[1], num[1], sent) /\ num[1] < s
      BY <1>1, <3>1 DEF DataIs
    <3>3. /\ others[j].sn = pdus[1].sn /\ others[j].units = pdus[1].units
          /\ others[j].offset = pdus[1].offset /\ others[j].segment = pdus[1].segment
          /\ others[j].last = pdus[1].last
      BY <1>6, <3>1 DEF DataPdus
    <3>4. PduIs(others[j], num[1], sent)
      BY <3>2, <3>3 DEF PduIs
    <3> QED
      BY <2>1, <3>1, <3>2, <3>4
  <2>2. CASE ~(i = 2 /\ j = 1)
    <3>1. others[j] = pdus[j + 1] /\ left[j] = num[j + 1] /\ j + 1 \in 1 .. l + 1 /\ j + 1 # 1
      BY <1>1, <1>2, <1>3, <1>4, <2>2
    <3>2. /\ PduIs(pdus[j + 1], num[j + 1], sent) /\ num[j + 1] < s
          /\ pdus[j + 1].overtaken = FALSE
      BY <1>1, <3>1 DEF DataIs
    <3> QED
      BY <3>1, <3>2
  <2> QED
    BY <2>1, <2>2
<1>8. \A j, k \in 1 .. l + 1 : j < k => num[j] < num[k] + Window
  BY <1>1 DEF DataIs
<1>9. ASSUME NEW j \in 1 .. l, NEW k \in 1 .. l, j < k
      PROVE  left[j] < left[k] + Window
  <2>1. Before(j, i) < Before(k, i)
    BY <1>1, <1>9 DEF Before
  <2> DEFINE m == Before(j, i)  n == Before(k, i)
  <2>2. m \in 1 .. l + 1 /\ n \in 1 .. l + 1 /\ left[j] = num[m] /\ left[k] = num[n]
    BY <1>3, <1>4
  <2> HIDE DEF m, n
  <2>3. m < n
    BY <2>1 DEF m, n
  <2> QED
    BY <1>8, <2>2, <2>3
<1>10. \A j, k \in 1 .. l + 1 : k = j + 1 /\ pdus[j].overtaken = FALSE => num[k] <= num[j] + Window
  BY <1>1 DEF DataIs
<1>11. ASSUME NEW j \in 1 .. l, others[j].overtaken = FALSE
       PROVE  others[j] = pdus[j + 1] /\ left[j] = num[j + 1] /\ j + 1 \in 1 .. l + 1
  <2>1. ~(i = 2 /\ j = 1)
    <3>1. SUFFICES ASSUME i = 2, j = 1 PROVE FALSE
      OBVIOUS
    <3>2. 1 \in 1 .. l + 1
      BY <1>1
    <3>4. others[j] = [pdus[1] EXCEPT !.overtaken = TRUE]
      BY <1>2, <3>1
    <3>3. pdus[1] \in DataPdus
      BY <1>6, <3>2
    <3> QED
      BY <1>11, <3>3, <3>4 DEF DataPdus
  <2> QED
    BY <1>1, <1>2, <1>3, <1>4, <2>1
<1>12. ASSUME NEW j \in 1 .. l, NEW k \in 1 .. l, k = j + 1, others[j].overtaken = FALSE
       PROVE  left[k] <= left[j] + Window
  <2>1. others[j] = pdus[j + 1] /\ left[j] = num[j + 1] /\ j + 1 \in 1 .. l + 1
    BY <1>11, <1>12
  <2>2. left[k] = num[k + 1] /\ k + 1 \in 1 .. l + 1 /\ k + 1 = (j + 1) + 1
    BY <1>1, <1>3, <1>4, <1>12
  <2> QED
    BY <1>10, <1>12, <2>1, <2>2
<1>13. ASSUME NEW j \in 1 .. l, j = l, others[j].overtaken = FALSE
       PROVE  s <= left[j] + Window
  <2>1. others[j] = pdus[j + 1] /\ left[j] = num[j + 1] /\ j + 1 \in 1 .. l + 1 /\ j + 1 = Len(pdus)
    BY <1>1, <1>11, <1>13
  <2> QED
    BY <1>1, <1>13, <2>1 DEF DataIs
<1>14. ASSUME NEW j \in 1 .. l
       PROVE  after <= left[j] + Window
  <2> DEFINE b == Before(j, i)
  <2>1. b \in 1 .. l + 1 /\ left[j] = num[b] /\ b # i /\ h <= num[b] + Window
    BY <1>1, <1>3, <1>4 DEF DataIs
  <2>2. num[b] \in Nat /\ num[i] \in Nat
    BY <1>1, <1>5, <2>1
  <2>3. i < b => num[i] < num[b] + Window
    BY <1>1, <1>8, <2>1
  <2>4. ~(i < b) => i = 2 /\ b = 1 /\ num[2] <= num[1] + Window /\ num[2] # num[1] + Window
    <3> HIDE DEF b
    <3>1. ~(i < b) => i = 2 /\ b = 1
      BY <1>1, <2>1
    <3>2. i = 2 => num[2] <= num[1] + Window
      BY <1>1, <1>10
    <3> QED
      BY <3>1, <3>2
  <2> HIDE DEF b
  <2>5. num[i] + 1 <= num[b] + Window
    BY <1>1, <2>1, <2>2, <2>3, <2>4
  <2> QED
    BY <2>1, <2>2, <2>5
<1>15. Len(others) = l
  BY DEF l
<1> QED
  BY <1>7, <1>9, <1>12, <1>13, <1>14, <1>15 DEF DataIs, left

\* The same PDUs and perhaps more.
Extends(after, sent, s) == \A n \in Nat : n < s => after[n] = sent[n]

\* A PDU that is sent, for the first time or again.
LEMMA PduJoins ==
  ASSUME NEW pdus, NEW more, NEW e, QueueOf(pdus, DataPdus), Joined(more, pdus, e), NEW num, Counting(num),
         NEW sent, NEW after, NEW s \in Nat, NEW t \in Nat, NEW a \in Nat, NEW h \in Nat, NEW n \in Nat,
         DataIs(pdus, num, sent, s, h), h <= s, s <= a + Window, a <= n,
         (t = s /\ n < s) \/ (t = s + 1 /\ n = s), Extends(after, sent, s),
         PduIs(e, n, after), e.overtaken = FALSE
  PROVE  DataIs(more, [num EXCEPT ![Len(pdus) + 1] = n], after, t, h)
<1> DEFINE l == Len(pdus)  which == [num EXCEPT ![l + 1] = n]
<1>1. /\ l \in Nat /\ Len(more) = l + 1 /\ more[l + 1] = e /\ \A i \in 1 .. l : more[i] = pdus[i]
  BY DEF Joined, QueueOf
<1>2. Len(pdus) = l
  OBVIOUS
<1> HIDE DEF l
<1>3. which[l + 1] = n /\ \A i \in 1 .. l : which[i] = num[i] /\ which[i] \in Nat
  <2>1. l + 1 \in Nat /\ \A i \in 1 .. l : i \in Nat /\ i # l + 1
    BY <1>1
  <2> QED
    BY <2>1 DEF Counting
<1> HIDE DEF which
<1>4. Window \in Nat /\ Window > 0
  BY AmConstants
<1>5. ASSUME NEW i \in 1 .. l
      PROVE  /\ PduIs(more[i], which[i], after) /\ which[i] < s /\ h <= which[i] + Window
             /\ (i # 1 => more[i].overtaken = FALSE)
  <2>1. /\ PduIs(pdus[i], num[i], sent) /\ num[i] < s /\ h <= num[i] + Window
        /\ (i # 1 => pdus[i].overtaken = FALSE)
    BY <1>2 DEF DataIs
  <2>2. after[num[i]] = sent[num[i]]
    BY <1>3, <2>1 DEF Extends
  <2>3. PduIs(pdus[i], num[i], after)
    BY <2>1, <2>2 DEF PduIs
  <2> QED
    BY <1>1, <1>3, <2>1, <2>3
<1>6. \A i \in 1 .. l : which[i] < t /\ which[i] < n + Window
  <2> SUFFICES ASSUME NEW i \in 1 .. l PROVE which[i] < t /\ which[i] < n + Window
    OBVIOUS
  <2>1. which[i] < s /\ which[i] \in Nat
    BY <1>3, <1>5
  <2> QED
    BY <1>4, <2>1
<1>7. h <= n + Window /\ n < t /\ t <= n + Window
  BY <1>4, SMTT(30)
<1>8. ASSUME NEW i \in 1 .. l + 1
      PROVE  /\ PduIs(more[i], which[i], after) /\ which[i] < t /\ h <= which[i] + Window
             /\ (i # 1 => more[i].overtaken = FALSE)
  <2>1. CASE i = l + 1
    BY <1>1, <1>3, <1>7, <2>1
  <2>2. CASE i # l + 1
    <3>1. i \in 1 .. l
      BY <1>1, <2>2
    <3> QED
      BY <1>5, <1>6, <3>1
  <2> QED
    BY <2>1, <2>2
<1>9. ASSUME NEW i \in 1 .. l + 1, NEW j \in 1 .. l + 1, i < j
      PROVE  which[i] < which[j] + Window
  <2>1. i \in 1 .. l
    BY <1>1, <1>9
  <2>2. CASE j = l + 1
    BY <1>3, <1>6, <2>1, <2>2
  <2>3. CASE j # l + 1
    <3>1. j \in 1 .. l
      BY <1>1, <2>3
    <3>2. num[i] < num[j] + Window
      BY <1>2, <1>9, <2>1, <3>1 DEF DataIs
    <3> QED
      BY <1>3, <2>1, <3>1, <3>2
  <2> QED
    BY <2>2, <2>3
<1>10. ASSUME NEW i \in 1 .. l + 1, NEW j \in 1 .. l + 1, j = i + 1, more[i].overtaken = FALSE
       PROVE  which[j] <= which[i] + Window
  <2>1. i \in 1 .. l /\ pdus[i].overtaken = FALSE /\ which[i] = num[i] /\ num[i] \in Nat
    BY <1>1, <1>3, <1>10
  <2>2. CASE j = l + 1
    <3>1. i = Len(pdus)
      BY <1>1, <1>2, <1>10, <2>1, <2>2
    <3>2. s <= num[i] + Window
      BY <1>2, <2>1, <3>1 DEF DataIs
    <3>3. n <= s
      OBVIOUS
    <3> QED
      BY <1>3, <1>4, <2>1, <2>2, <3>2, <3>3
  <2>3. CASE j # l + 1
    <3>1. j \in 1 .. l
      BY <1>1, <2>3
    <3>2. num[j] <= num[i] + Window
      BY <1>2, <1>10, <2>1, <3>1 DEF DataIs
    <3> QED
      BY <1>3, <2>1, <3>1, <3>2
  <2> QED
    BY <2>2, <2>3
<1>11. Len(more) = l + 1
  BY <1>1
<1>12. DataIs(more, which, after, t, h)
  BY <1>1, <1>3, <1>7, <1>8, <1>9, <1>10, <1>11 DEF DataIs
<1> QED
  BY <1>12 DEF which, l

------------------------------------------------------------------------------
(* The sending entity. *)

\* A PDU that was sent waits in one buffer at most, as it was sent; only what
\* is to be sent again has been sent again in part.
Waits(te, re, seg, whole, sn) ==
  /\ te[sn] = <<>> \/ te[sn] = whole
  /\ re[sn] = <<>> \/ re[sn] = whole
  /\ te[sn] = <<>> \/ re[sn] = <<>>
  /\ seg[sn] = 0 \/ (re[sn] # <<>> /\ seg[sn] < Len(whole))

Idle(te, re, seg, sn) == te[sn] = <<>> /\ re[sn] = <<>> /\ seg[sn] = 0

\* VT(A) is PDU a and VT(S) PDU s, at most a window beyond it.
SenderIs(te, re, seg, sent, a, s) ==
  /\ a <= s /\ s <= a + Window
  /\ \A n \in Nat : a <= n /\ n < s => Waits(te, re, seg, sent[n], No(n))
  /\ \A n \in Nat : s <= n /\ n < a + Modulus => Idle(te, re, seg, No(n))

LEMMA OtherNumber ==
  ASSUME NEW base, base \in Nat, NEW m, m \in Nat, NEW n, n \in Nat,
         base <= m, m < base + Modulus, base <= n, n < base + Modulus, m # n
  PROVE  No(m) \in SNs /\ No(n) \in SNs /\ No(m) # No(n)
BY SumOfNumbers, SameNumber

\* Only PDU m is touched.
OnlyAt(m, te, re, seg, te2, re2, seg2) ==
  \A sn \in SNs : sn # No(m) => te2[sn] = te[sn] /\ re2[sn] = re[sn] /\ seg2[sn] = seg[sn]
OthersAsSent(m, sent, sent2, s) == \A n \in Nat : n < s /\ n # m => sent2[n] = sent[n]

\* A new PDU, or a change of one that waits.
LEMMA SenderAtOne ==
  ASSUME NEW te, NEW re, NEW seg, NEW sent, NEW a, a \in Nat, NEW s, s \in Nat,
         SenderIs(te, re, seg, sent, a, s),
         NEW t, t = s \/ t = s + 1, t <= a + Window, NEW m, m \in Nat, a <= m, m < t, s < t => m = s,
         NEW te2, NEW re2, NEW seg2, NEW sent2,
         OnlyAt(m, te, re, seg, te2, re2, seg2), OthersAsSent(m, sent, sent2, s),
         Waits(te2, re2, seg2, sent2[m], No(m))
  PROVE  SenderIs(te2, re2, seg2, sent2, a, t)
<1>1. t \in Nat /\ a <= t /\ a <= s /\ Window \in Nat /\ Modulus \in Nat /\ Window <= Modulus /\ m <= s
  BY AmConstants DEF SenderIs
<1>2. ASSUME NEW n \in Nat, a <= n, n < a + Modulus, n # m
      PROVE  te2[No(n)] = te[No(n)] /\ re2[No(n)] = re[No(n)] /\ seg2[No(n)] = seg[No(n)]
  <2>1. m < a + Modulus
    BY <1>1
  <2>2. No(n) \in SNs /\ No(n) # No(m)
    BY <1>2, <2>1, OtherNumber
  <2> QED
    BY <2>2 DEF OnlyAt
<1>3. ASSUME NEW n \in Nat, a <= n, n < t
      PROVE  Waits(te2, re2, seg2, sent2[n], No(n))
  <2>1. CASE n = m
    BY <2>1
  <2>2. CASE n # m
    <3>1. n < s /\ n < a + Modulus
      BY <1>1, <1>3, <2>2
    <3>2. Waits(te, re, seg, sent[n], No(n)) /\ sent2[n] = sent[n]
      BY <1>3, <2>2, <3>1 DEF SenderIs, OthersAsSent
    <3>3. te2[No(n)] = te[No(n)] /\ re2[No(n)] = re[No(n)] /\ seg2[No(n)] = seg[No(n)]
      BY <1>2, <1>3, <2>2, <3>1
    <3> QED
      BY <3>2, <3>3 DEF Waits
  <2> QED
    BY <2>1, <2>2
<1>4. ASSUME NEW n \in Nat, t <= n, n < a + Modulus
      PROVE  Idle(te2, re2, seg2, No(n))
  <2>1. n # m /\ s <= n /\ a <= n
    BY <1>1, <1>4
  <2>2. te2[No(n)] = te[No(n)] /\ re2[No(n)] = re[No(n)] /\ seg2[No(n)] = seg[No(n)]
    BY <1>2, <1>4, <2>1
  <2>3. Idle(te, re, seg, No(n))
    BY <1>4, <2>1 DEF SenderIs
  <2> QED
    BY <2>2, <2>3 DEF Idle
<1> QED
  BY <1>1, <1>3, <1>4 DEF SenderIs

\* What a STATUS PDU that reports the PDUs up to ack, those of nack missing,
\* does to PDU n.
Reported(te, re, seg, te2, re2, seg2, n, ack, nack) ==
  LET sn == No(n) IN
  /\ n < ack /\ n \notin nack =>
       Idle(te2, re2, seg2, sn)
         \/ (re[sn] = <<>> /\ te2[sn] = <<>> /\ re2[sn] = <<>> /\ seg2[sn] = seg[sn])
  /\ n \in nack => te2[sn] = <<>> /\ seg2[sn] = seg[sn]
                   /\ re2[sn] = IF te[sn] # <<>> THEN te[sn] ELSE re[sn]
  /\ ack <= n => te2[sn] = te[sn] /\ re2[sn] = re[sn] /\ seg2[sn] = seg[sn]

AllReported(te, re, seg, te2, re2, seg2, a, ack, nack) ==
  \A n \in Nat : a <= n /\ n < a + Modulus => Reported(te, re, seg, te2, re2, seg2, n, ack, nack)

\* It names PDUs from low on, which is missing or the first not reported.
StatusIs(low, ack, nack, a, s) ==
  /\ a <= low /\ low <= ack /\ ack <= s
  /\ low = ack \/ low \in nack
  /\ \A n \in nack : n \in Nat /\ low <= n /\ n < ack

LEMMA SenderReads ==
  ASSUME NEW te, NEW re, NEW seg, NEW sent, NEW a, a \in Nat, NEW s, s \in Nat,
         SenderIs(te, re, seg, sent, a, s),
         NEW low, low \in Nat, NEW ack, ack \in Nat, NEW nack, StatusIs(low, ack, nack, a, s),
         NEW te2, NEW re2, NEW seg2,
         AllReported(te, re, seg, te2, re2, seg2, a, ack, nack)
  PROVE  SenderIs(te2, re2, seg2, sent, low, s)
<1>1. /\ a <= s /\ s <= a + Window /\ Window \in Nat /\ Modulus \in Nat /\ Window < Modulus
      /\ a <= low /\ low <= ack /\ ack <= s
  BY AmConstants DEF SenderIs, StatusIs
<1>2. ASSUME NEW n \in Nat, low <= n, n < s
      PROVE  Waits(te2, re2, seg2, sent[n], No(n))
  <2>1. a <= n /\ n < a + Modulus
    BY <1>1, <1>2
  <2>2. Waits(te, re, seg, sent[n], No(n)) /\ Reported(te, re, seg, te2, re2, seg2, n, ack, nack)
    BY <1>2, <2>1 DEF SenderIs, AllReported
  <2>3. CASE n < ack /\ n \notin nack
    BY <2>2, <2>3 DEF Waits, Reported, Idle
  <2>4. CASE n \in nack
    BY <2>2, <2>4 DEF Waits, Reported
  <2>5. CASE ack <= n
    BY <2>2, <2>5 DEF Waits, Reported
  <2> QED
    BY <2>3, <2>4, <2>5
<1>3. ASSUME NEW n \in Nat, s <= n, n < a + Modulus
      PROVE  Idle(te2, re2, seg2, No(n))
  <2>1. a <= n /\ ack <= n
    BY <1>1, <1>3
  <2>2. Idle(te, re, seg, No(n)) /\ Reported(te, re, seg, te2, re2, seg2, n, ack, nack)
    BY <1>3, <2>1 DEF SenderIs, AllReported
  <2> QED
    BY <2>1, <2>2 DEF Idle, Reported
<1>4. ASSUME NEW n \in Nat, a + Modulus <= n, n < low + Modulus
      PROVE  Idle(te2, re2, seg2, No(n))
  <2>1. PICK m \in Nat : n = m + Modulus
    <3>1. n - Modulus \in Nat /\ n = (n - Modulus) + Modulus
      BY <1>1, <1>4
    <3> QED
      BY <3>1
  <2>2. No(n) = No(m)
    BY <2>1, NumberAgain
  <2>3. a <= m /\ m < low /\ m < ack /\ m < s /\ m < a + Modulus
    BY <1>1, <1>4, <2>1
  <2>4. m \notin nack
    BY <2>3 DEF StatusIs
  <2>5. Waits(te, re, seg, sent[m], No(m)) /\ Reported(te, re, seg, te2, re2, seg2, m, ack, nack)
    BY <2>3 DEF SenderIs, AllReported
  <2> QED
    BY <2>2, <2>3, <2>4, <2>5 DEF Waits, Reported, Idle
<1>5. low <= s /\ s <= low + Window
  BY <1>1
<1>6. ASSUME NEW n \in Nat, s <= n, n < low + Modulus
      PROVE  Idle(te2, re2, seg2, No(n))
  BY <1>1, <1>3, <1>4, <1>6
<1> QED
  BY <1>2, <1>5, <1>6 DEF SenderIs

Says(pdu, ack, nack) == pdu.ackSn = No(ack) /\ pdu.nacks = {No(n) : n \in nack}

\* DoReceiveStatusPdu of a STATUS PDU as it comes from the peer.
LEMMA StatusIsRead ==
  ASSUME vtA \in SNs, poll \in Polls,
         NEW a, a \in Nat, NEW s, s \in Nat, vtA = No(a), vtS = No(s), s <= a + Window,
         NEW low, low \in Nat, NEW ack, ack \in Nat, NEW nack, StatusIs(low, ack, nack, a, s),
         NEW pdu, Says(pdu, ack, nack), DoReceiveStatusPdu(pdu)
  PROVE  /\ AllReported(txed, retx, retxSeg, txed', retx', retxSeg', a, ack, nack)
         /\ vtA' = No(low)
         /\ poll'.sn = poll.sn /\ poll'.justExpired = poll.justExpired
         /\ poll' \in Polls
         /\ poll.timer = TRUE /\ poll.sn = No(s + Modulus - 1) /\ a < s /\ ack < s => poll'.timer = TRUE
<1> DEFINE T == {Dist(pdu.ackSn, vtA), Dist(vtS, vtA)}
           d == Min(T)
           reported == {Plus(vtA, i) : i \in 0 .. d - 1}
           nacked == reported \cap pdu.nacks
           U == {i \in 0 .. d : i = d \/ Plus(vtA, i) \in nacked}
<1>1. /\ a <= low /\ low <= ack /\ ack <= s /\ Window \in Nat /\ Modulus \in Nat /\ Window < Modulus
      /\ Modulus > 0
  BY AmConstants DEF StatusIs
<1>2. d = ack - a
  <2>1. Dist(pdu.ackSn, vtA) = ack - a /\ Dist(vtS, vtA) = s - a
    <3>1. a <= ack /\ ack < a + Modulus /\ a <= s /\ s < a + Modulus
      BY <1>1
    <3> QED
      BY <3>1, DistanceOfNumbers DEF Says
  <2>2. T \subseteq Nat /\ T # {} /\ T = {ack - a, s - a}
    BY <1>1, <2>1
  <2> HIDE DEF T
  <2>3. Min(T) \in T /\ \A x \in T : Min(T) <= x
    BY <2>2, MinOfNumbers
  <2> QED
    BY <1>1, <2>2, <2>3
<1>3. /\ txed' = [sn \in SNs |-> IF sn \in reported THEN <<>> ELSE txed[sn]]
      /\ retx' = [sn \in SNs |-> CASE sn \in reported \ nacked -> <<>>
                                   [] sn \in nacked /\ txed[sn] # <<>> -> txed[sn]
                                   [] OTHER -> retx[sn]]
      /\ retxSeg' = [sn \in SNs |-> IF sn \in reported \ nacked /\ retx[sn] # <<>> THEN 0 ELSE retxSeg[sn]]
      /\ vtA' = Plus(vtA, Min(U))
      /\ poll' = [poll EXCEPT !.timer = @ /\ poll.sn \notin reported]
  BY DEF DoReceiveStatusPdu
<1>4. reported = {No(a + i) : i \in 0 .. d - 1}
  <2>1. \A i \in 0 .. d - 1 : Plus(vtA, i) = No(a + i)
    BY SumOfNumbers
  <2> QED
    BY <2>1
<1> HIDE DEF d, reported
<1>5. ASSUME NEW n \in Nat, a <= n, n < a + Modulus
      PROVE  /\ No(n) \in SNs
             /\ No(n) \in reported <=> n < ack
             /\ No(n) \in pdu.nacks <=> n \in nack
  <2>1. n < ack => No(n) \in reported
    <3>1. n < ack => n - a \in 0 .. d - 1 /\ a + (n - a) = n
      BY <1>1, <1>2, <1>5
    <3> QED
      BY <1>4, <3>1
  <2>2. ASSUME No(n) \in reported PROVE n < ack
    <3>1. PICK i \in 0 .. d - 1 : No(n) = No(a + i)
      BY <1>4, <2>2
    <3>2. a + i \in Nat /\ a <= a + i /\ a + i < ack /\ a + i < a + Modulus
      BY <1>1, <1>2
    <3>3. n = a + i
      BY <1>5, <3>1, <3>2, SameNumber
    <3> QED
      BY <3>2, <3>3
  <2>3. ASSUME No(n) \in pdu.nacks PROVE n \in nack
    <3>1. PICK m \in nack : No(n) = No(m)
      BY <2>3 DEF Says
    <3>2. m \in Nat /\ low <= m /\ m < ack
      BY DEF StatusIs
    <3>3. a <= m /\ m < a + Modulus
      BY <1>1, <3>2
    <3> QED
      BY <1>5, <3>1, <3>2, <3>3, SameNumber
  <2>4. No(n) \in SNs
    BY SumOfNumbers
  <2> QED
    BY <2>1, <2>2, <2>3, <2>4 DEF Says
<1>6. \A n \in nack : n \in Nat /\ a <= n /\ n < ack /\ n < a + Modulus
  BY <1>1 DEF StatusIs
<1>7. ASSUME NEW n \in Nat, a <= n, n < a + Modulus
      PROVE  Reported(txed, retx, retxSeg, txed', retx', retxSeg', n, ack, nack)
  <2> DEFINE sn == No(n)
  <2>1. /\ sn \in SNs /\ (sn \in reported <=> n < ack) /\ (sn \in pdu.nacks <=> n \in nack)
        /\ (n \in nack => n < ack)
    BY <1>5, <1>6, <1>7
  <2>2. (sn \in nacked <=> n \in nack) /\ (sn \in reported \ nacked <=> n < ack /\ n \notin nack)
    BY <2>1
  <2>3. ack <= n <=> ~(n < ack)
    BY <1>7
  <2> HIDE DEF sn, nacked
  <2>4. CASE n < ack /\ n \notin nack
    <3>1. txed'[sn] = <<>> /\ retx'[sn] = <<>> /\ retxSeg'[sn] = IF retx[sn] # <<>> THEN 0 ELSE retxSeg[sn]
      BY <1>3, <2>1, <2>2, <2>4
    <3> QED
      BY <2>3, <2>4, <3>1 DEF Reported, Idle, sn
  <2>5. CASE n \in nack
    <3>1. sn \in nacked /\ sn \in reported /\ sn \notin reported \ nacked
      BY <2>1, <2>2, <2>5
    <3>2. txed'[sn] = <<>> /\ retxSeg'[sn] = retxSeg[sn]
      BY <1>3, <2>1, <3>1
    <3>3. retx'[sn] = IF txed[sn] # <<>> THEN txed[sn] ELSE retx[sn]
      BY <1>3, <2>1, <3>1
    <3> QED
      BY <2>1, <2>3, <2>5, <3>2, <3>3 DEF Reported, sn
  <2>6. CASE ack <= n
    <3>1. sn \notin nacked /\ sn \notin reported
      BY <2>1, <2>2, <2>3, <2>6
    <3>2. txed'[sn] = txed[sn] /\ retxSeg'[sn] = retxSeg[sn] /\ retx'[sn] = retx[sn]
      BY <1>3, <2>1, <3>1
    <3> QED
      BY <2>1, <2>3, <2>6, <3>2 DEF Reported, sn
  <2> QED
    BY <2>3, <2>4, <2>5, <2>6
<1>8. vtA' = No(low)
  <2>1. low - a \in 0 .. d /\ a + (low - a) = low /\ low < a + Modulus
    BY <1>1, <1>2
  <2>2. \A i \in 0 .. d : Plus(vtA, i) = No(a + i)
    BY SumOfNumbers
  <2>3. low - a \in U
    <3>1. CASE low = ack
      BY <1>2, <2>1, <3>1
    <3>2. CASE low \in nack
      <4>1. low < ack
        BY <1>6, <3>2
      <4>2. No(low) \in nacked
        BY <1>1, <1>5, <2>1, <3>2, <4>1
      <4> QED
        BY <2>1, <2>2, <4>2
    <3> QED
      BY <3>1, <3>2 DEF StatusIs
  <2>4. ASSUME NEW i \in U PROVE low - a <= i
    <3>1. i \in 0 .. d /\ (i = d \/ No(a + i) \in pdu.nacks)
      BY <2>2
    <3>2. CASE i = d
      BY <1>1, <1>2, <3>2
    <3>3. CASE No(a + i) \in pdu.nacks
      <4>1. a + i \in Nat /\ a <= a + i /\ a + i < a + Modulus
        BY <1>1, <1>2, <3>1
      <4>2. a + i \in nack
        BY <1>5, <3>3, <4>1
      <4>3. low <= a + i
        BY <4>2 DEF StatusIs
      <4> QED
        BY <1>1, <3>1, <4>3
    <3> QED
      BY <3>1, <3>2, <3>3
  <2>5. U \subseteq Nat /\ U # {} /\ d \in Nat
    BY <1>1, <1>2, <2>3
  <2> HIDE DEF U
  <2>6. Min(U) \in U /\ \A x \in U : Min(U) <= x
    BY <2>5, MinOfNumbers
  <2> DEFINE least == Min(U)
  <2>7. least \in Nat /\ least <= low - a /\ low - a <= least
    BY <2>3, <2>4, <2>5, <2>6
  <2> HIDE DEF least
  <2>8. least = low - a
    BY <1>1, <2>7
  <2> QED
    BY <1>3, <2>1, <2>2, <2>8 DEF least
<1>9. ASSUME poll.timer = TRUE, poll.sn = No(s + Modulus - 1), a < s, ack < s
      PROVE  poll'.timer = TRUE
  <2>1. PICK q \in Nat : s = q + 1
    <3>1. s - 1 \in Nat /\ s = (s - 1) + 1
      BY <1>9
    <3> QED
      BY <3>1
  <2>2. s + Modulus - 1 = q + Modulus
    BY <1>1, <2>1
  <2>3. poll.sn = No(q)
    BY <1>9, <2>2, NumberAgain
  <2>4. a <= q /\ q < a + Modulus /\ ~(q < ack)
    BY <1>1, <1>9, <2>1
  <2>5. poll.sn \notin reported
    BY <1>5, <2>3, <2>4
  <2> QED
    BY <1>3, <1>9, <2>5 DEF Polls
<1>10. /\ poll'.sn = poll.sn /\ poll'.justExpired = poll.justExpired
       /\ poll' \in Polls
  BY <1>3 DEF Polls
<1> QED
  BY <1>7, <1>8, <1>9, <1>10 DEF AllReported
------------------------------------------------------------------------------
(* The receiving entity. *)

Sent(sent) == sent \in [Nat -> Pieces]
Buffered(rx) == rx \in [SNs -> Entries]

\* Nothing, a whole PDU or a beginning of it.
EntryIs(entry, whole) ==
  \/ entry = NoPdu
  \/ entry.complete = TRUE /\ entry.units = whole
  \/ /\ entry.complete = FALSE /\ Len(entry.units) > 0 /\ Len(entry.units) <= Len(whole)
     /\ \A k \in 1 .. Len(entry.units) : entry.units[k] = whole[k]

\* VR(R), VR(MS) and VR(H) are PDUs r, ms and h; nothing is held outside the window.
HeldIs(rx, sent, r, h) ==
  /\ \A n \in Nat : r <= n /\ n < h => EntryIs(rx[No(n)], sent[n])
  /\ \A n \in Nat : h <= n /\ n < r + Modulus => rx[No(n)] = NoPdu

ReceiverIs(rx, sent, r, ms, h, s) ==
  /\ r <= ms /\ ms <= h /\ h <= r + Window /\ h <= s
  /\ HeldIs(rx, sent, r, h)
  /\ rx[No(r)].complete # TRUE /\ rx[No(ms)].complete # TRUE

\* t-Reordering waits for a PDU behind VR(R).
TimerIs(running, r, x, h) == running => r < x /\ x <= h

\* The PDUs that are received.
Have(rx, r, h) == {n \in Nat : n < r \/ (n < h /\ rx[No(n)].complete = TRUE)}

LEMMA InsideIsAhead ==
  ASSUME NEW r, r \in Nat, NEW n, n \in Nat, n < r + Window, r <= n + Window
  PROVE  Dist(No(n), No(r)) < Window <=> r <= n
<1>1. Window \in Nat /\ Modulus = Window + Window
  BY AmConstants
<1>2. CASE r <= n
  <2>1. n < r + Modulus
    BY <1>1
  <2>2. Dist(No(n), No(r)) = n - r
    BY <1>2, <2>1, DistanceOfNumbers
  <2> QED
    BY <1>1, <1>2, <2>2
<1>3. CASE n < r
  <2>1. r <= n + Modulus
    BY <1>1
  <2>2. Dist(No(n), No(r)) = n + Modulus - r
    BY <1>3, <2>1, DistanceBehind
  <2> QED
    BY <1>1, <1>3, <2>2
<1> QED
  BY <1>2, <1>3

LEMMA FirstIncompleteIs ==
  ASSUME NEW buffer, NEW lo, lo \in Nat, NEW hi, hi \in Nat, lo <= hi, hi < lo + Modulus,
         buffer[No(hi)].complete # TRUE
  PROVE  \E m \in Nat :
           /\ lo <= m /\ m <= hi /\ FirstIncomplete(buffer, No(lo)) = No(m)
           /\ buffer[No(m)].complete # TRUE
           /\ \A k \in Nat : lo <= k /\ k < m => buffer[No(k)].complete = TRUE
<1> DEFINE T == {i \in 0 .. Modulus : i = Modulus \/ ~buffer[Plus(No(lo), i)].complete}
           i == Min(T)
<1>1. Modulus \in Nat
  BY AmConstants
<1>2. \A k \in 0 .. Modulus : Plus(No(lo), k) = No(lo + k)
  BY <1>1, SumOfNumbers
<1>3. hi - lo \in T
  <2>1. hi - lo \in 0 .. Modulus /\ lo + (hi - lo) = hi
    BY <1>1
  <2>2. ~buffer[No(hi)].complete
    OBVIOUS
  <2> QED
    BY <1>2, <2>1, <2>2
<1>4. T \subseteq Nat /\ T # {}
  BY <1>1, <1>3
<1>5. i \in T /\ \A x \in T : i <= x
  <2> HIDE DEF T
  <2> QED
    BY <1>4, MinOfNumbers
<1>6. FirstIncomplete(buffer, No(lo)) = Plus(No(lo), i)
  BY DEF FirstIncomplete
<1> HIDE DEF i
<1>7. i \in Nat /\ i <= hi - lo /\ i # Modulus /\ i < Modulus
  BY <1>1, <1>3, <1>4, <1>5
<1>8. Plus(No(lo), i) = No(lo + i) /\ buffer[No(lo + i)].complete # TRUE
  BY <1>1, <1>2, <1>5, <1>7
<1>9. ASSUME NEW k \in Nat, lo <= k, k < lo + i
      PROVE  buffer[No(k)].complete = TRUE
  <2>1. k - lo \in 0 .. Modulus /\ k - lo < i /\ lo + (k - lo) = k
    BY <1>1, <1>7, <1>9
  <2>2. k - lo \notin T
    BY <1>5, <1>7, <2>1
  <2> QED
    BY <1>2, <2>1, <2>2
<1>10. lo + i \in Nat /\ lo <= lo + i /\ lo + i <= hi
  BY <1>7
<1> QED
  BY <1>6, <1>8, <1>9, <1>10

\* The buffer in which the entry of sn has changed.
PlacedAt(placed, rx, sn, whole) ==
  /\ Buffered(placed) /\ EntryIs(placed[sn], whole)
  /\ \A other \in SNs : other # sn => placed[other] = rx[other]
  /\ rx[sn].complete = TRUE => placed[sn] = rx[sn]

\* What Place makes of the entry of PDU n.
LEMMA PlaceIs ==
  ASSUME Buffered(rxon), NEW pdu \in DataPdus, NEW n, n \in Nat, NEW sent, Sent(sent),
         PduIs(pdu, n, sent), EntryIs(rxon[No(n)], sent[n])
  PROVE  PlacedAt(Place(pdu), rxon, No(n), sent[n])
<1> DEFINE sn == No(n)  whole == sent[n]  entry == rxon[sn]  units == pdu.units
           segment == [units |-> entry.units \o pdu.units, complete |-> pdu.last]
           opened == [units |-> pdu.units, complete |-> ~pdu.segment]
<1>1. /\ sn \in SNs /\ pdu.sn = sn /\ entry \in Entries /\ units \in Pieces /\ whole \in Pieces
      /\ pdu.offset \in Nat /\ pdu.segment \in BOOLEAN /\ pdu.last \in BOOLEAN
  BY SumOfNumbers DEF PduIs, Buffered, DataPdus, Sent
<1>2. /\ entry.units \in Pieces /\ entry.complete \in BOOLEAN
      /\ entry = [units |-> entry.units, complete |-> entry.complete]
  BY <1>1 DEF Entries
<1>3. Len(units) \in Nat /\ Len(whole) \in Nat /\ Len(entry.units) \in Nat
  BY <1>1, <1>2, LenProperties DEF Pieces
<1>4. /\ Len(units) > 0 /\ pdu.offset + Len(units) <= Len(whole)
      /\ \A k \in 1 .. Len(units) : units[k] = whole[pdu.offset + k]
      /\ pdu.last = TRUE => pdu.offset + Len(units) = Len(whole)
      /\ pdu.segment = FALSE => pdu.offset = 0 /\ pdu.last = TRUE
  BY DEF PduIs
<1>5. Place(pdu) = CASE entry = NoPdu /\ pdu.offset = 0 -> [rxon EXCEPT ![sn] = opened]
                     [] entry # NoPdu /\ ~entry.complete /\ pdu.segment ->
                          [rxon EXCEPT ![sn] = IF pdu.offset = Len(entry.units) THEN segment ELSE NoPdu]
                     [] OTHER -> rxon
  BY <1>1 DEF Place
<1>6. EntryIs(entry, whole) /\ Buffered(rxon)
  OBVIOUS
<1> HIDE DEF sn, whole, entry, units
<1>7. ASSUME NEW e \in Entries, EntryIs(e, whole), Place(pdu) = [rxon EXCEPT ![sn] = e],
             entry.complete = TRUE => e = entry
      PROVE  PlacedAt(Place(pdu), rxon, sn, whole)
  <2>1. Place(pdu)[sn] = e /\ \A other \in SNs : other # sn => Place(pdu)[other] = rxon[other]
    BY <1>1, <1>6, <1>7 DEF Buffered
  <2>2. Buffered(Place(pdu))
    BY <1>1, <1>6, <1>7 DEF Buffered
  <2> QED
    BY <1>7, <2>1, <2>2 DEF PlacedAt, entry
<1>8. CASE entry = NoPdu /\ pdu.offset = 0
  <2>1. opened \in Entries
    <3>1. (~pdu.segment) \in BOOLEAN
      BY Zenon
    <3> QED
      BY <1>1, <3>1 DEF Entries, units
  <2>2. EntryIs(opened, whole)
    <3>1. \A k \in 1 .. Len(units) : units[k] = whole[k]
      BY <1>3, <1>4, <1>8
    <3>2. CASE pdu.segment = FALSE
      <4>1. Len(units) = Len(whole)
        BY <1>3, <1>4, <3>2
      <4>2. units = whole
        BY <1>1, <1>3, <3>1, <4>1, SeqEqual DEF Pieces
      <4> QED
        BY <3>2, <4>2 DEF EntryIs, units
    <3>3. CASE pdu.segment = TRUE
      <4>1. Len(units) <= Len(whole)
        BY <1>3, <1>4, <1>8
      <4>2. opened.units = units /\ opened.complete = FALSE
        BY <3>3 DEF units
      <4> HIDE DEF opened
      <4> QED
        BY <1>4, <3>1, <4>1, <4>2 DEF EntryIs
    <3> QED
      BY <1>1, <3>2, <3>3
  <2>3. entry.complete # TRUE
    BY <1>8 DEF NoPdu
  <2>4. Place(pdu) = [rxon EXCEPT ![sn] = opened]
    BY <1>5, <1>8
  <2> HIDE DEF opened
  <2> QED
    BY <1>7, <2>1, <2>2, <2>3, <2>4 DEF sn, whole
<1>9. CASE entry # NoPdu /\ entry.complete = FALSE /\ pdu.segment = TRUE
  <2>1. Place(pdu) = [rxon EXCEPT ![sn] = IF pdu.offset = Len(entry.units) THEN segment ELSE NoPdu]
    BY <1>5, <1>9
  <2>2. NoPdu \in Entries /\ EntryIs(NoPdu, whole)
    BY EmptySeq DEF NoPdu, Entries, EntryIs, Pieces
  <2>3. ASSUME pdu.offset = Len(entry.units) PROVE segment \in Entries /\ EntryIs(segment, whole)
    <3> DEFINE joined == entry.units \o units  p == Len(entry.units)
    <3>1. /\ joined \in Pieces /\ Len(joined) = p + Len(units)
          /\ \A k \in 1 .. p + Len(units) : joined[k] = IF k <= p THEN entry.units[k] ELSE units[k - p]
      BY <1>1, <1>2, <1>3, ConcatProperties DEF Pieces
    <3>2. segment.units = joined /\ segment.complete = pdu.last /\ segment \in Entries
      BY <1>1, <3>1 DEF Entries, units
    <3>3. p > 0 /\ \A k \in 1 .. p : entry.units[k] = whole[k]
      BY <1>2, <1>6, <1>9 DEF EntryIs
    <3>4. p \in Nat /\ pdu.offset = p
      BY <1>3, <2>3
    <3> HIDE DEF joined, segment, p
    <3>5. \A k \in 1 .. Len(joined) : joined[k] = whole[k]
      <4> SUFFICES ASSUME NEW k \in 1 .. Len(joined) PROVE joined[k] = whole[k]
        OBVIOUS
      <4>1. CASE k <= p
        <5>1. k \in 1 .. p /\ k \in 1 .. p + Len(units)
          BY <1>3, <3>1, <3>4, <4>1
        <5> QED
          BY <3>1, <3>3, <4>1, <5>1
      <4>2. CASE ~(k <= p)
        <5>1. k \in 1 .. p + Len(units) /\ k - p \in 1 .. Len(units) /\ p + (k - p) = k
          BY <1>3, <3>1, <3>4, <4>2
        <5> QED
          BY <1>4, <3>1, <3>4, <4>2, <5>1
      <4> QED
        BY <4>1, <4>2
    <3>6. Len(joined) > 0 /\ Len(joined) <= Len(whole) /\ (pdu.last = TRUE => Len(joined) = Len(whole))
      BY <1>3, <1>4, <3>1, <3>3, <3>4
    <3>7. CASE pdu.last = TRUE
      <4>1. joined = whole
        BY <1>1, <1>3, <3>1, <3>5, <3>6, <3>7, SeqEqual DEF Pieces
      <4> QED
        BY <3>2, <3>7, <4>1 DEF EntryIs
    <3>8. CASE pdu.last = FALSE
      BY <3>2, <3>5, <3>6, <3>8 DEF EntryIs
    <3> QED
      BY <1>1, <3>2, <3>7, <3>8
  <2> HIDE DEF segment
  <2>4. CASE pdu.offset = Len(entry.units)
    BY <1>7, <1>9, <2>1, <2>3, <2>4 DEF sn, whole
  <2>5. CASE pdu.offset # Len(entry.units)
    BY <1>7, <1>9, <2>1, <2>2, <2>5 DEF sn, whole
  <2> QED
    BY <2>4, <2>5
<1>10. CASE ~(entry = NoPdu /\ pdu.offset = 0) /\ ~(entry # NoPdu /\ entry.complete = FALSE /\ pdu.segment = TRUE)
  <2>1. Place(pdu) = rxon
    BY <1>1, <1>2, <1>5, <1>10
  <2> QED
    BY <1>6, <2>1 DEF PlacedAt, sn, whole, entry
<1> QED
  BY <1>8, <1>9, <1>10

\* VR(H) when PDU n has come.
Raised(h2, h, n) == IF h <= n THEN h2 = n + 1 ELSE h2 = h

\* The buffer with PDU n in it.
LEMMA PlacedInWindow ==
  ASSUME NEW rx, NEW sent, NEW r, r \in Nat, NEW ms, ms \in Nat, NEW h, h \in Nat, NEW s, s \in Nat,
         ReceiverIs(rx, sent, r, ms, h, s), NEW n, n \in Nat, r <= n, n < r + Window, n < s,
         NEW placed, PlacedAt(placed, rx, No(n), sent[n]), NEW h2, h2 \in Nat, Raised(h2, h, n)
  PROVE  /\ h <= h2 /\ n < h2 /\ h2 <= r + Window /\ h2 <= s /\ HeldIs(placed, sent, r, h2)
         /\ n # r => placed[No(r)].complete # TRUE
         /\ placed[No(h2)].complete # TRUE
         /\ Have(rx, r, h) \subseteq Have(placed, r, h2)
<1>1. /\ r <= ms /\ ms <= h /\ h <= r + Window /\ h <= s
      /\ Window \in Nat /\ Modulus = Window + Window /\ Window > 0
  BY AmConstants DEF ReceiverIs
<1>2. h <= h2 /\ n < h2 /\ h2 <= r + Window /\ h2 <= s
  BY <1>1 DEF Raised
<1>3. /\ \A k \in Nat : r <= k /\ k < h => EntryIs(rx[No(k)], sent[k])
      /\ \A k \in Nat : h <= k /\ k < r + Modulus => rx[No(k)] = NoPdu
      /\ rx[No(r)].complete # TRUE
  BY DEF ReceiverIs, HeldIs
<1>4. ASSUME NEW k \in Nat, r <= k, k < r + Modulus, k # n
      PROVE  placed[No(k)] = rx[No(k)]
  <2>1. n < r + Modulus
    BY <1>1
  <2>2. No(k) \in SNs /\ No(k) # No(n)
    BY <1>4, <2>1, OtherNumber
  <2> QED
    BY <2>2 DEF PlacedAt
<1>5. ASSUME NEW k \in Nat, r <= k, k < h2
      PROVE  EntryIs(placed[No(k)], sent[k])
  <2>1. CASE k = n
    BY <2>1 DEF PlacedAt
  <2>2. CASE k # n
    <3>1. k < r + Modulus
      BY <1>1, <1>2, <1>5
    <3>2. placed[No(k)] = rx[No(k)]
      BY <1>4, <1>5, <2>2, <3>1
    <3>3. CASE k < h
      BY <1>3, <1>5, <3>2, <3>3
    <3>4. CASE h <= k
      BY <1>3, <1>5, <3>1, <3>2, <3>4 DEF EntryIs
    <3> QED
      BY <3>3, <3>4
  <2> QED
    BY <2>1, <2>2
<1>6. ASSUME NEW k \in Nat, h2 <= k, k < r + Modulus
      PROVE  placed[No(k)] = NoPdu
  <2>1. r <= k /\ h <= k /\ k # n
    BY <1>1, <1>2, <1>6
  <2> QED
    BY <1>3, <1>4, <1>6, <2>1
<1>7. HeldIs(placed, sent, r, h2)
  BY <1>5, <1>6 DEF HeldIs
<1>8. ASSUME n # r PROVE placed[No(r)].complete # TRUE
  <2>1. r <= r /\ r < r + Modulus /\ r # n
    BY <1>1, <1>8
  <2>2. placed[No(r)] = rx[No(r)]
    BY <1>4, <2>1
  <2> QED
    BY <1>3, <2>2
<1>9. placed[No(h2)].complete # TRUE
  <2>1. h2 <= h2 /\ h2 < r + Modulus
    BY <1>1, <1>2
  <2>2. placed[No(h2)] = NoPdu
    BY <1>6, <2>1
  <2>3. NoPdu.complete = FALSE
    BY DEF NoPdu
  <2> QED
    BY <2>2, <2>3
<1>10. ASSUME NEW k \in Have(rx, r, h) PROVE k \in Have(placed, r, h2)
  <2>1. k \in Nat /\ (k < r \/ (k < h /\ rx[No(k)].complete = TRUE))
    BY DEF Have
  <2>2. CASE k < r
    BY <2>1, <2>2 DEF Have
  <2>3. CASE ~(k < r)
    <3>1. k < h /\ rx[No(k)].complete = TRUE
      BY <2>1, <2>3
    <3>4. r <= k /\ k < r + Modulus /\ k < h2
      BY <1>1, <1>2, <2>1, <2>3, <3>1
    <3>2. CASE k = n
      BY <2>1, <3>1, <3>2, <3>4 DEF Have, PlacedAt
    <3>3. CASE k # n
      <4>1. placed[No(k)] = rx[No(k)]
        BY <1>4, <2>1, <3>3, <3>4
      <4> QED
        BY <2>1, <3>1, <3>4, <4>1 DEF Have
    <3> QED
      BY <3>2, <3>3
  <2> QED
    BY <2>2, <2>3
<1> QED
  BY <1>2, <1>7, <1>8, <1>9, <1>10

TakenOut(placed, r, r2) ==
  [sn \in SNs |-> IF sn \in {No(k) : k \in r .. r2 - 1} THEN NoPdu ELSE placed[sn]]

MovesTo(placed, sent, r, h, s, r2, ms2) ==
  /\ HeldIs(placed, sent, r, h) /\ h <= r + Window /\ h <= s
  /\ r <= r2 /\ r2 <= ms2 /\ ms2 <= h
  /\ placed[No(r2)].complete # TRUE /\ placed[No(ms2)].complete # TRUE

\* VR(R) moves over PDUs that are complete, which leave the buffer.
LEMMA WindowMoves ==
  ASSUME NEW placed, Buffered(placed), NEW sent, NEW r, r \in Nat, NEW h, h \in Nat, NEW s, s \in Nat,
         NEW r2, r2 \in Nat, NEW ms2, ms2 \in Nat, MovesTo(placed, sent, r, h, s, r2, ms2),
         NEW rx, rx = TakenOut(placed, r, r2)
  PROVE  Buffered(rx) /\ ReceiverIs(rx, sent, r2, ms2, h, s) /\ Have(placed, r, h) \subseteq Have(rx, r2, h)
<1> DEFINE gone == {No(k) : k \in r .. r2 - 1}
<1>1. /\ HeldIs(placed, sent, r, h)
      /\ placed[No(r2)].complete # TRUE /\ placed[No(ms2)].complete # TRUE
      /\ rx = [sn \in SNs |-> IF sn \in gone THEN NoPdu ELSE placed[sn]]
  BY DEF MovesTo, TakenOut
<1>2. /\ Window \in Nat /\ Modulus = Window + Window /\ Window > 0
      /\ h <= r + Window /\ h <= s /\ r <= r2 /\ r2 <= ms2 /\ ms2 <= h
  BY AmConstants DEF MovesTo
<1>3. ASSUME NEW k \in Nat, r2 <= k, k < r + Modulus
      PROVE  rx[No(k)] = placed[No(k)]
  <2>1. No(k) \in SNs
    BY SumOfNumbers
  <2>2. No(k) \notin gone
    <3>1. SUFFICES ASSUME NEW j \in r .. r2 - 1, No(k) = No(j) PROVE FALSE
      OBVIOUS
    <3>2. j \in Nat /\ r <= j /\ j < r + Modulus /\ r <= k /\ j # k
      BY <1>2, <1>3
    <3> QED
      BY <1>3, <3>1, <3>2, OtherNumber
  <2> QED
    BY <1>1, <2>1, <2>2
<1>4. ASSUME NEW k \in Nat, r + Modulus <= k, k < r2 + Modulus
      PROVE  rx[No(k)] = NoPdu
  <2>1. k - Modulus \in r .. r2 - 1 /\ k - Modulus \in Nat /\ k = (k - Modulus) + Modulus
    BY <1>2, <1>4
  <2>2. No(k) = No(k - Modulus) /\ No(k) \in SNs
    BY <2>1, NumberAgain, SumOfNumbers
  <2>3. No(k) \in gone
    BY <2>1, <2>2
  <2> QED
    BY <1>1, <2>2, <2>3
<1>5. /\ \A k \in Nat : r <= k /\ k < h => EntryIs(placed[No(k)], sent[k])
      /\ \A k \in Nat : h <= k /\ k < r + Modulus => placed[No(k)] = NoPdu
  BY <1>1 DEF HeldIs
<1>6. ASSUME NEW k \in Nat, r2 <= k, k < h
      PROVE  EntryIs(rx[No(k)], sent[k])
  <2>1. k < r + Modulus /\ r <= k
    BY <1>2, <1>6
  <2> QED
    BY <1>3, <1>5, <1>6, <2>1
<1>7. ASSUME NEW k \in Nat, h <= k, k < r2 + Modulus
      PROVE  rx[No(k)] = NoPdu
  <2>1. CASE k < r + Modulus
    <3>1. r2 <= k
      BY <1>2, <1>7
    <3> QED
      BY <1>3, <1>5, <1>7, <2>1, <3>1
  <2>2. CASE r + Modulus <= k
    BY <1>4, <1>7, <2>2
  <2> QED
    BY <1>2, <2>1, <2>2
<1>8. rx[No(r2)].complete # TRUE /\ rx[No(ms2)].complete # TRUE
  <2>1. r2 < r + Modulus /\ ms2 < r + Modulus /\ r2 <= r2 /\ r2 <= ms2
    BY <1>2
  <2>2. rx[No(r2)] = placed[No(r2)] /\ rx[No(ms2)] = placed[No(ms2)]
    BY <1>3, <2>1
  <2> QED
    BY <1>1, <2>2
<1>9. h <= r2 + Window
  BY <1>2
<1>10. ReceiverIs(rx, sent, r2, ms2, h, s)
  BY <1>2, <1>6, <1>7, <1>8, <1>9 DEF ReceiverIs, HeldIs
<1>11. Buffered(rx)
  <2>1. NoPdu \in Entries
    BY EmptySeq DEF NoPdu, Entries, Pieces
  <2> QED
    BY <1>1, <2>1 DEF Buffered
<1>12. ASSUME NEW k \in Have(placed, r, h) PROVE k \in Have(rx, r2, h)
  <2>1. k \in Nat /\ (k < r \/ (k < h /\ placed[No(k)].complete = TRUE))
    BY DEF Have
  <2>2. CASE k < r2
    BY <2>1, <2>2 DEF Have
  <2>3. CASE r2 <= k
    <3>1. k < h /\ placed[No(k)].complete = TRUE /\ k < r + Modulus
      BY <1>2, <2>1, <2>3
    <3> QED
      BY <1>3, <2>1, <2>3, <3>1 DEF Have
  <2> QED
    BY <2>1, <2>2, <2>3
<1> QED
  BY <1>10, <1>11, <1>12

Variables == [r : SNs, x : SNs, ms : SNs, h : SNs]

GoesTo(r, h, r2, h2) ==
  h <= r + Window /\ r <= r2 /\ r2 <= r + Window /\ h <= h2 /\ r2 <= h2

\* t-Reordering when VR(R) and VR(H) have moved.
LEMMA ReorderingIs ==
  ASSUME vr.x \in SNs, NEW r, r \in Nat, NEW x, x \in Nat, NEW h, h \in Nat,
         reorderingTimer => vr.x = No(x), TimerIs(reorderingTimer, r, x, h),
         NEW r2, r2 \in Nat, NEW ms2, ms2 \in Nat, NEW h2, h2 \in Nat,
         GoesTo(r, h, r2, h2), Reordering(No(r2), No(ms2), No(h2))
  PROVE  \E x2 \in Nat :
           /\ TimerIs(reorderingTimer', r2, x2, h2) /\ reorderingTimer' \in BOOLEAN
           /\ reorderingTimer' => vr'.x = No(x2)
           /\ vr' \in Variables /\ vr'.r = No(r2) /\ vr'.ms = No(ms2) /\ vr'.h = No(h2)
<1> DEFINE running == reorderingTimer /\ vr.x # No(r2)
                      /\ (Dist(vr.x, No(r2)) < Window \/ vr.x = Plus(No(r2), Window))
           starts == ~running /\ No(h2) # No(r2)
           newX == IF starts THEN No(h2) ELSE vr.x
<1>1. /\ reorderingTimer' = (running \/ starts)
      /\ vr' = [r |-> No(r2), x |-> newX, ms |-> No(ms2), h |-> No(h2)]
  BY DEF Reordering
<1>2. /\ Window \in Nat /\ Modulus = Window + Window /\ Window > 0
      /\ h <= r + Window /\ r <= r2 /\ r2 <= r + Window /\ h <= h2 /\ r2 <= h2
  BY AmConstants DEF GoesTo
<1>3. No(r2) \in SNs /\ No(ms2) \in SNs /\ No(h2) \in SNs
  BY SumOfNumbers
<1>4. newX \in SNs
  BY <1>3
<1>5. vr' \in Variables /\ vr'.r = No(r2) /\ vr'.ms = No(ms2) /\ vr'.h = No(h2) /\ vr'.x = newX
  <2> HIDE DEF newX
  <2> QED
    BY <1>1, <1>3, <1>4 DEF Variables
<1>6. reorderingTimer' \in BOOLEAN
  <2> HIDE DEF running, starts
  <2> QED
    BY <1>1, Zenon
<1>7. CASE running
  <2>1. vr.x = No(x) /\ r < x /\ x <= h /\ No(x) # No(r2)
    BY <1>7 DEF TimerIs
  <2>2. Dist(No(x), No(r2)) < Window \/ No(x) = Plus(No(r2), Window)
    BY <1>7, <2>1
  <2>3. ~(x < r2)
    <3>1. SUFFICES ASSUME x < r2 PROVE FALSE
      OBVIOUS
    <3>2. /\ r2 <= x + Modulus /\ x + Modulus \in Nat /\ x + Modulus < r2 + Modulus
          /\ x + Modulus > r2 + Window /\ r2 + Window < r2 + Modulus /\ r2 <= r2 + Window
      BY <1>2, <2>1, <3>1
    <3>3. Dist(No(x), No(r2)) = x + Modulus - r2
      BY <3>1, <3>2, DistanceBehind
    <3>4. ~(Dist(No(x), No(r2)) < Window)
      BY <1>2, <3>2, <3>3
    <3>5. No(x + Modulus) = No(r2 + Window)
      BY <1>2, <2>2, <3>4, NumberAgain, SumOfNumbers
    <3>6. r2 + Window \in Nat
      BY <1>2
    <3>7. x + Modulus = r2 + Window
      BY <3>2, <3>5, <3>6, SameNumber
    <3> QED
      BY <1>2, <3>2, <3>7
  <2>4. x # r2
    BY <2>1
  <2>5. r2 < x /\ x <= h2
    BY <1>2, <2>1, <2>3, <2>4
  <2>6. newX = No(x)
    BY <1>7, <2>1
  <2> QED
    BY <1>5, <1>6, <2>5, <2>6 DEF TimerIs
<1>8. CASE starts
  <2>1. h2 # r2 /\ newX = No(h2)
    BY <1>8
  <2>2. r2 < h2 /\ h2 <= h2
    BY <1>2, <2>1
  <2> QED
    BY <1>5, <1>6, <2>1, <2>2 DEF TimerIs
<1>9. CASE ~running /\ ~starts
  <2>1. ~reorderingTimer'
    BY <1>1, <1>9
  <2> QED
    BY <1>5, <1>6, <2>1 DEF TimerIs
<1> QED
  BY <1>7, <1>8, <1>9

\* The PDUs from r up to r2 are passed up, out of the buffer placed.
Read(rs, placed, r, r2) ==
  FoldLeft(LAMBDA q, sn : ReassembleAndDeliver(q, sn, placed[sn].units), rs,
           [i \in 1 .. r2 - r |-> No(r + i - 1)])
WholeFrom(placed, sent, r, r2) ==
  \A k \in Nat : r <= k /\ k < r2 => placed[No(k)].units = sent[k]

ReceiverHas(sent, r, ms, h, x, s) ==
  /\ r \in Nat /\ ms \in Nat /\ h \in Nat /\ x \in Nat
  /\ vr.r = No(r) /\ vr.ms = No(ms) /\ vr.h = No(h) /\ (reorderingTimer => vr.x = No(x))
  /\ ReceiverIs(rxon, sent, r, ms, h, s) /\ TimerIs(reorderingTimer, r, x, h)

Arrives(pdu, n, sent, r, s) == PduIs(pdu, n, sent) /\ n < s /\ r <= n /\ n < r + Window

\* A data PDU in the window: VR(R), VR(MS) and VR(H) are then r2, ms2 and h2.
Received(pdu, n, sent, r, h, s) ==
  \E r2, ms2, h2, x2 \in Nat :
    /\ r <= r2 /\ Raised(h2, h, n)
    /\ Buffered(rxon') /\ vr' \in Variables /\ reorderingTimer' \in BOOLEAN
    /\ ReceiverHas(sent, r2, ms2, h2, x2, s)'
    /\ Have(rxon, r, h) \subseteq Have(rxon', r2, h2)
    /\ Buffered(Place(pdu)) /\ WholeFrom(Place(pdu), sent, r, r2)
    /\ reassembly' = Read(reassembly, Place(pdu), r, r2)

LEMMA ReceiveIs ==
  ASSUME Buffered(rxon), vr \in Variables, NEW sent, Sent(sent), NEW s, s \in Nat,
         NEW r, NEW ms, NEW h, NEW x, ReceiverHas(sent, r, ms, h, x, s),
         NEW pdu \in DataPdus, NEW n, n \in Nat, Arrives(pdu, n, sent, r, s), Receive(pdu)
  PROVE  Received(pdu, n, sent, r, h, s)
<1>1. /\ r \in Nat /\ ms \in Nat /\ h \in Nat /\ x \in Nat
      /\ vr.r = No(r) /\ vr.ms = No(ms) /\ vr.h = No(h) /\ (reorderingTimer => vr.x = No(x))
      /\ ReceiverIs(rxon, sent, r, ms, h, s) /\ TimerIs(reorderingTimer, r, x, h)
      /\ PduIs(pdu, n, sent) /\ n < s /\ r <= n /\ n < r + Window
  BY DEF ReceiverHas, Arrives
<1> USE <1>1
<1> DEFINE placed == Place(pdu)
           high == IF Dist(pdu.sn, vr.r) >= Dist(vr.h, vr.r) THEN Plus(pdu.sn, 1) ELSE vr.h
           newMs == FirstIncomplete(placed, vr.ms)
           newR == IF pdu.sn = vr.r THEN FirstIncomplete(placed, vr.r) ELSE vr.r
           done == [i \in 1 .. Dist(newR, vr.r) |-> Plus(vr.r, i - 1)]
<1>2. /\ rxon' = [sn \in SNs |-> IF sn \in ToSet(done) THEN NoPdu ELSE placed[sn]]
      /\ Reordering(newR, newMs, high)
  BY DEF Receive
<1>3. /\ r <= ms /\ ms <= h /\ h <= r + Window /\ h <= s
      /\ Window \in Nat /\ Modulus \in Nat /\ Modulus = Window + Window /\ Window > 0
  BY AmConstants DEF ReceiverIs
<1>4. pdu.sn = No(n) /\ No(n) \in SNs
  BY SumOfNumbers DEF PduIs
<1>5. PlacedAt(placed, rxon, No(n), sent[n])
  <2>1. EntryIs(rxon[No(n)], sent[n])
    <3>1. CASE n < h
      BY <3>1 DEF ReceiverIs, HeldIs
    <3>2. CASE h <= n
      <4>1. n < r + Modulus
        BY <1>3
      <4> QED
        BY <3>2, <4>1 DEF ReceiverIs, HeldIs, EntryIs
    <3> QED
      BY <3>1, <3>2
  <2> QED
    BY <2>1, PlaceIs
<1>6. PICK h2 \in Nat : Raised(h2, h, n) /\ high = No(h2)
  <2>1. Dist(pdu.sn, vr.r) = n - r
    <3>1. n < r + Modulus
      BY <1>3
    <3> QED
      BY <1>4, <3>1, DistanceOfNumbers
  <2>2. Dist(vr.h, vr.r) = h - r
    <3>1. r <= h /\ h < r + Modulus
      BY <1>3
    <3> QED
      BY <3>1, DistanceOfNumbers
  <2>3. n - r >= h - r <=> h <= n
    BY <1>3
  <2>4. n + 1 \in Nat /\ Plus(No(n), 1) = No(n + 1)
    BY SumOfNumbers
  <2>5. CASE h <= n
    <3>1. high = No(n + 1)
      BY <1>4, <2>1, <2>2, <2>3, <2>4, <2>5
    <3> QED
      BY <2>4, <2>5, <3>1 DEF Raised
  <2>6. CASE ~(h <= n)
    <3>1. high = No(h)
      BY <1>4, <2>1, <2>2, <2>3, <2>6
    <3> QED
      BY <2>6, <3>1 DEF Raised
  <2> QED
    BY <2>5, <2>6
<1>7. /\ h <= h2 /\ n < h2 /\ h2 <= r + Window /\ h2 <= s /\ HeldIs(placed, sent, r, h2)
      /\ n # r => placed[No(r)].complete # TRUE
      /\ placed[No(h2)].complete # TRUE
      /\ Have(rxon, r, h) \subseteq Have(placed, r, h2)
  BY <1>5, <1>6, PlacedInWindow
<1>8. PICK ms2 \in Nat :
        /\ ms <= ms2 /\ ms2 <= h2 /\ newMs = No(ms2) /\ placed[No(ms2)].complete # TRUE
        /\ \A k \in Nat : ms <= k /\ k < ms2 => placed[No(k)].complete = TRUE
  <2>1. ms <= h2 /\ h2 < ms + Modulus
    BY <1>3, <1>7
  <2> HIDE DEF placed
  <2> QED
    BY <1>7, <2>1, FirstIncompleteIs
<1>9. PICK r2 \in Nat :
        /\ r <= r2 /\ r2 <= ms2 /\ newR = No(r2) /\ placed[No(r2)].complete # TRUE
        /\ \A k \in Nat : r <= k /\ k < r2 => placed[No(k)].complete = TRUE
  <2>1. CASE n = r
    <3>1. ms2 < r + Modulus /\ r <= ms2
      BY <1>3, <1>7, <1>8
    <3> HIDE DEF placed
    <3>2. PICK m \in Nat :
        /\ r <= m /\ m <= ms2 /\ FirstIncomplete(placed, No(r)) = No(m)
        /\ placed[No(m)].complete # TRUE
        /\ \A k \in Nat : r <= k /\ k < m => placed[No(k)].complete = TRUE
      BY <1>8, <3>1, FirstIncompleteIs
    <3>3. newR = No(m)
      BY <1>4, <2>1, <3>2
    <3> QED
      BY <3>2, <3>3
  <2>2. CASE n # r
    <3>1. No(n) # No(r)
      <4>1. n < r + Modulus /\ r <= r /\ r < r + Modulus
        BY <1>3
      <4> QED
        BY <2>2, <4>1, OtherNumber
    <3>4. newR = No(r)
      BY <1>4, <3>1
    <3>5. placed[No(r)].complete # TRUE
      BY <1>7, <2>2
    <3>2. r <= r /\ r <= ms2
      BY <1>3, <1>8
    <3>3. \A k \in Nat : ~(r <= k /\ k < r)
      OBVIOUS
    <3> QED
      BY <3>2, <3>3, <3>4, <3>5
  <2> QED
    BY <2>1, <2>2
<1> HIDE DEF newR, newMs, high
<1>10. Dist(newR, vr.r) = r2 - r /\ r2 <= h2 /\ r2 <= r + Window
  <2>1. r2 < r + Modulus /\ r2 <= h2 /\ r2 <= r + Window
    BY <1>3, <1>7, <1>8, <1>9
  <2> QED
    BY <1>9, <2>1, DistanceOfNumbers
<1>11. done = [i \in 1 .. r2 - r |-> No(r + i - 1)]
  <2>1. ASSUME NEW i \in 1 .. r2 - r PROVE Plus(vr.r, i - 1) = No(r + i - 1)
    <3>1. i - 1 \in Nat /\ r + (i - 1) = r + i - 1
      OBVIOUS
    <3> QED
      BY <3>1, SumOfNumbers
  <2> QED
    BY <1>10, <2>1
<1>12. ToSet(done) = {No(k) : k \in r .. r2 - 1}
  <2>1. ToSet(done) = {No(r + i - 1) : i \in 1 .. r2 - r}
    <3> HIDE DEF done
    <3> QED
      BY <1>11 DEF ToSet
  <2>2. \A i \in 1 .. r2 - r : r + i - 1 \in r .. r2 - 1
    OBVIOUS
  <2>3. \A k \in r .. r2 - 1 : k + 1 - r \in 1 .. r2 - r /\ r + (k + 1 - r) - 1 = k
    OBVIOUS
  <2> QED
    BY <2>1, <2>2, <2>3
<1> HIDE DEF done
<1>13. Buffered(placed)
  BY <1>5 DEF PlacedAt
<1>14. /\ Buffered(rxon') /\ ReceiverIs(rxon', sent, r2, ms2, h2, s)
       /\ Have(placed, r, h2) \subseteq Have(rxon', r2, h2)
  <2> HIDE DEF placed
  <2>1. rxon' = TakenOut(placed, r, r2)
    BY <1>2, <1>12 DEF TakenOut
  <2>2. MovesTo(placed, sent, r, h2, s, r2, ms2)
    BY <1>7, <1>8, <1>9 DEF MovesTo
  <2> QED
    BY <1>13, <2>1, <2>2, WindowMoves
<1>15. PICK x2 \in Nat :
           /\ TimerIs(reorderingTimer', r2, x2, h2) /\ reorderingTimer' \in BOOLEAN
           /\ reorderingTimer' => vr'.x = No(x2)
           /\ vr' \in Variables /\ vr'.r = No(r2) /\ vr'.ms = No(ms2) /\ vr'.h = No(h2)
  <2>1. vr.x \in SNs
    BY DEF Variables
  <2>2. Reordering(No(r2), No(ms2), No(h2))
    BY <1>2, <1>6, <1>8, <1>9
  <2>3. GoesTo(r, h, r2, h2)
    BY <1>3, <1>7, <1>9, <1>10 DEF GoesTo
  <2> QED
    BY <2>1, <2>2, <2>3, ReorderingIs
<1>16. WholeFrom(placed, sent, r, r2)
  <2> SUFFICES ASSUME NEW k \in Nat, r <= k, k < r2 PROVE placed[No(k)].units = sent[k]
    BY DEF WholeFrom
  <2> HIDE DEF placed
  <2>1. EntryIs(placed[No(k)], sent[k])
    <3>1. k < h2
      BY <1>10
    <3> QED
      BY <1>7, <3>1 DEF HeldIs
  <2>2. placed[No(k)].complete = TRUE
    BY <1>9
  <2> QED
    BY <2>1, <2>2 DEF EntryIs, NoPdu
<1>17. reassembly' = Read(reassembly, placed, r, r2)
  <2>1. reassembly' = FoldLeft(LAMBDA rs, sn : ReassembleAndDeliver(rs, sn, placed[sn].units),
                               reassembly, done)
    BY Zenon DEF Receive, done, newR
  <2> QED
    BY <1>11, <2>1, Zenon DEF Read
<1>18. Have(rxon, r, h) \subseteq Have(rxon', r2, h2)
  BY <1>7, <1>14
<1>19. ReceiverHas(sent, r2, ms2, h2, x2, s)'
  BY <1>14, <1>15 DEF ReceiverHas
<1> QED
  BY <1>6, <1>9, <1>13, <1>14, <1>15, <1>16, <1>17, <1>18, <1>19 DEF Received

LEMMA LastOfNumbers ==
  ASSUME NEW d \in Nat, NEW T, T \subseteq 0 .. d - 1, T # {}
  PROVE  Max(T) \in T /\ \A x \in T : x <= Max(T)
<1> DEFINE U == {x \in Nat : d - x \in T}
<1>1. U \subseteq Nat /\ U # {}
  <2>1. PICK y \in T : TRUE
    OBVIOUS
  <2>2. y \in 0 .. d - 1 /\ d - y \in Nat /\ d - (d - y) = y
    BY <2>1
  <2>3. d - y \in U
    BY <2>1, <2>2
  <2> QED
    BY <2>3
<1>2. PICK l \in U : \A x \in U : l <= x
  <2> HIDE DEF U
  <2> QED
    BY <1>1, LeastNumber
<1>3. d - l \in T /\ \A x \in T : x <= d - l
  <2>1. d - l \in T /\ l \in Nat
    BY <1>2
  <2>2. ASSUME NEW x \in T PROVE x <= d - l
    <3>1. x \in Nat /\ x <= d - 1 /\ d - x \in Nat /\ d - (d - x) = x
      OBVIOUS
    <3>2. d - x \in U
      BY <3>1
    <3>3. l <= d - x
      BY <1>2, <3>2
    <3> QED
      BY <2>1, <3>1, <3>3
  <2> QED
    BY <2>1, <2>2
<1>4. \A x, y \in T : x >= y <=> y <= x
  OBVIOUS
<1>5. \E m \in T : \A y \in T : m >= y
  BY <1>3, <1>4
<1>6. Max(T) \in T /\ \A y \in T : Max(T) >= y
  BY <1>5 DEF Max
<1> QED
  BY <1>4, <1>6

FirstOf(named, missing, n) ==
  named = {i \in missing : Cardinality({j \in missing : j < i}) < n}

\* The first n missing numbers; if there are not so many, all of them.
LEMMA FirstMissing ==
  ASSUME NEW d \in Nat, NEW missing, missing \subseteq 0 .. d - 1, NEW n \in Nat, n > 0,
         NEW named, FirstOf(named, missing, n)
  PROVE  /\ Cardinality(named) = n => /\ Max(named) \in named
                                      /\ \A i \in missing : i <= Max(named) => i \in named
                                      /\ \A i \in named : i <= Max(named)
         /\ Cardinality(named) # n => named = missing
         /\ 0 \in missing => 0 \in named
<1> DEFINE Below(i) == {j \in missing : j < i}
<1>1. IsFiniteSet(missing) /\ \A T \in SUBSET missing : IsFiniteSet(T) /\ Cardinality(T) \in Nat
  <2>1. IsFiniteSet(0 .. d - 1)
    BY FS_Interval
  <2>2. IsFiniteSet(missing)
    BY <2>1, FS_Subset
  <2> QED
    BY <2>2, FS_Subset, FS_CardinalityType
<1>2. \A i \in missing : i \in Nat /\ i \in 0 .. d - 1
  OBVIOUS
<1>3. \A i : Below(i) \in SUBSET missing /\ \A j : j \in Below(i) <=> j \in missing /\ j < i
  OBVIOUS
<1>4. named \subseteq missing /\ \A i \in missing : i \in named <=> Cardinality(Below(i)) < n
  BY DEF FirstOf
<1> HIDE DEF Below
<1>5. \A i : IsFiniteSet(Below(i)) /\ Cardinality(Below(i)) \in Nat
  BY <1>1, <1>3
<1>6. ASSUME NEW i \in missing, NEW m \in named, i <= m PROVE i \in named
  <2>1. Below(i) \subseteq Below(m)
    <3> SUFFICES ASSUME NEW j \in Below(i) PROVE j \in Below(m)
      OBVIOUS
    <3>1. j \in missing /\ j < i /\ j \in Nat /\ i \in Nat /\ m \in Nat
      BY <1>2, <1>3, <1>4
    <3>2. j < m
      BY <1>6, <3>1
    <3> QED
      BY <1>3, <3>1, <3>2
  <2>2. Cardinality(Below(i)) <= Cardinality(Below(m))
    BY <1>5, <2>1, FS_Subset
  <2>3. Cardinality(Below(m)) < n
    BY <1>4
  <2>4. Cardinality(Below(i)) < n
    BY <1>5, <2>2, <2>3
  <2> QED
    BY <1>4, <2>4
<1>7. ASSUME Cardinality(named) = n
      PROVE  /\ Max(named) \in named
             /\ \A i \in missing : i <= Max(named) => i \in named
             /\ \A i \in named : i <= Max(named)
  <2>1. named # {}
    <3>1. Cardinality({}) = 0 /\ 0 # n
      BY FS_EmptySet
    <3> QED
      BY <1>7, <3>1
  <2>2. named \subseteq 0 .. d - 1
    BY <1>4
  <2>3. Max(named) \in named /\ \A i \in named : i <= Max(named)
    BY <2>1, <2>2, LastOfNumbers
  <2> QED
    BY <1>6, <2>3
<1>8. ASSUME NEW i \in missing, i \notin named PROVE Cardinality(named) = n
  <2> DEFINE T == missing \ named
  <2>1. T \subseteq Nat /\ T # {}
    BY <1>2, <1>8
  <2>2. PICK l \in T : \A x \in T : l <= x
    <3> HIDE DEF T
    <3> QED
      BY <2>1, LeastNumber
  <2>3. l \in missing /\ l \notin named /\ l \in Nat
    BY <1>2, <2>2
  <2>4. named = Below(l)
    <3>1. ASSUME NEW j \in Below(l) PROVE j \in named
      <4>1. j \in missing /\ j < l /\ j \in Nat
        BY <1>2, <1>3
      <4>2. ~(l <= j)
        BY <2>3, <4>1
      <4>3. j \notin T
        BY <2>2, <4>2
      <4> QED
        BY <4>1, <4>3
    <3>2. ASSUME NEW j \in named PROVE j \in Below(l)
      <4>1. j \in missing /\ j \in Nat
        BY <1>2, <1>4
      <4>2. ~(l <= j)
        BY <1>6, <2>3
      <4>3. j < l
        BY <2>3, <4>1, <4>2
      <4> QED
        BY <1>3, <4>1, <4>3
    <3> QED
      BY <3>1, <3>2
  <2>5. Cardinality(Below(l)) \in Nat /\ ~(Cardinality(Below(l)) < n)
    BY <1>4, <1>5, <2>3
  <2>6. Below(l) # {}
    <3>1. Cardinality({}) = 0
      BY FS_EmptySet
    <3> QED
      BY <2>5, <3>1
  <2> DEFINE m == Max(named)
  <2>7. m \in named /\ \A x \in named : x <= m
    <3>1. named \subseteq 0 .. d - 1 /\ named # {}
      BY <1>4, <2>4, <2>6
    <3> QED
      BY <3>1, LastOfNumbers
  <2> HIDE DEF m
  <2>8. Below(m) = named \ {m}
    <3>1. m \in missing /\ m \in Nat
      BY <1>2, <1>4, <2>7
    <3>2. ASSUME NEW j \in Below(m) PROVE j \in named \ {m}
      <4>1. j \in missing /\ j < m /\ j \in Nat
        BY <1>2, <1>3
      <4>2. j <= m /\ j # m
        BY <3>1, <4>1
      <4> QED
        BY <1>6, <2>7, <4>1, <4>2
    <3>3. ASSUME NEW j \in named, j # m PROVE j \in Below(m)
      <4>1. j \in missing /\ j \in Nat /\ j <= m
        BY <1>2, <1>4, <2>7
      <4>2. j < m
        BY <3>1, <3>3, <4>1
      <4> QED
        BY <1>3, <4>1, <4>2
    <3> QED
      BY <3>2, <3>3
  <2>9. Cardinality(named \ {m}) = Cardinality(named) - 1
    BY <1>1, <1>4, <2>7, FS_RemoveElement
  <2>10. Cardinality(Below(m)) < n
    BY <1>4, <2>7
  <2>11. Cardinality(named) - 1 < n /\ Cardinality(named) \in Nat /\ ~(Cardinality(named) < n)
    BY <2>4, <2>5, <2>8, <2>9, <2>10
  <2> DEFINE c == Cardinality(named)
  <2> HIDE DEF c
  <2>12. c = n
    <3>1. c - 1 < n /\ c \in Nat /\ ~(c < n)
      BY <2>11 DEF c
    <3> QED
      BY <3>1
  <2> QED
    BY <2>12 DEF c
<1>9. ASSUME 0 \in missing PROVE 0 \in named
  <2>1. Below(0) = {}
    <3>1. \A j \in missing : ~(j < 0)
      BY <1>2
    <3> QED
      BY <1>3, <3>1
  <2>2. Cardinality(Below(0)) < n
    BY <2>1, FS_EmptySet
  <2> QED
    BY <1>4, <1>9, <2>2
<1> QED
  BY <1>4, <1>7, <1>8, <1>9

\* What a STATUS PDU says is true of the PDUs that are received.
Tells(ack, nack, have) ==
  /\ \A n \in Nat : n < ack /\ n \notin nack => n \in have
  /\ ack \notin have /\ \A n \in nack : n \notin have

LEMMA StatusTells ==
  ASSUME NEW r, r \in Nat, NEW ms, ms \in Nat, NEW h, h \in Nat, NEW s, s \in Nat, NEW sent,
         vr.r = No(r), vr.ms = No(ms), ReceiverIs(rxon, sent, r, ms, h, s),
         NEW a, a \in Nat, a <= r, NEW n \in Nat, n > 0
  PROVE  \E ack \in Nat : \E nack \in SUBSET Nat :
           /\ StatusPdu(n) \in StatusPdus /\ StatusPdu(n).overtaken = FALSE
           /\ StatusPdu(n).ackSn = No(ack) /\ StatusPdu(n).nacks = {No(k) : k \in nack}
           /\ StatusIs(r, ack, nack, a, ms) /\ Tells(ack, nack, Have(rxon, r, h))
<1> DEFINE d == Dist(vr.ms, vr.r)
           missing == {i \in 0 .. d - 1 : ~rxon[Plus(vr.r, i)].complete}
           named == {i \in missing : Cardinality({j \in missing : j < i}) < n}
           end == IF Cardinality(named) = n THEN Max(named) + 1 ELSE d
           T == {i \in end .. d : i = d \/ ~rxon[Plus(vr.r, i)].complete}
           first == Min(T)
           ack == r + first
           nack == {r + i : i \in named}
<1>1. StatusPdu(n) = [nacks |-> {Plus(vr.r, i) : i \in named}, ackSn |-> Plus(vr.r, first),
                      overtaken |-> FALSE]
  BY DEF StatusPdu
<1>2. /\ r <= ms /\ ms <= h /\ h <= r + Window /\ Window \in Nat /\ Modulus = Window + Window
      /\ Window > 0 /\ rxon[No(r)].complete # TRUE /\ rxon[No(ms)].complete # TRUE
  BY AmConstants DEF ReceiverIs
<1>3. d = ms - r /\ d \in Nat
  <2>1. ms < r + Modulus
    BY <1>2
  <2>2. d = ms - r
    BY <1>2, <2>1, DistanceOfNumbers
  <2> QED
    BY <1>2, <2>2
<1>4. \A i \in 0 .. d : Plus(vr.r, i) = No(r + i) /\ i \in Nat
  BY <1>3, SumOfNumbers
<1> HIDE DEF d
<1>5. /\ missing \subseteq 0 .. d - 1
      /\ \A i \in 0 .. d - 1 : i \in missing <=> rxon[No(r + i)].complete # TRUE
  <2>1. ASSUME NEW i \in 0 .. d - 1 PROVE i \in missing <=> rxon[No(r + i)].complete # TRUE
    <3>1. i \in 0 .. d
      BY <1>3
    <3>2. Plus(vr.r, i) = No(r + i)
      BY <1>4, <3>1
    <3> QED
      BY <3>2
  <2> QED
    BY <2>1
<1> HIDE DEF missing
<1>6. FirstOf(named, missing, n) /\ named \subseteq missing
  BY DEF FirstOf
<1> HIDE DEF named
<1>7. /\ Cardinality(named) = n => /\ Max(named) \in named
                                   /\ \A i \in missing : i <= Max(named) => i \in named
                                   /\ \A i \in named : i <= Max(named)
      /\ Cardinality(named) # n => named = missing
      /\ 0 \in missing => 0 \in named
  BY <1>3, <1>5, <1>6, FirstMissing
<1>8. /\ end \in 0 .. d
      /\ \A i \in named : i < end
      /\ \A i \in missing : i < end => i \in named
  <2>1. CASE Cardinality(named) = n
    <3>1. end = Max(named) + 1 /\ Max(named) \in 0 .. d - 1
      BY <1>5, <1>7, <1>6, <2>1
    <3> DEFINE m == Max(named)
    <3>2. /\ \A i \in missing : i <= m => i \in named
          /\ \A i \in named : i <= m
      BY <1>7, <2>1
    <3>3. \A i \in missing : i \in Nat
      BY <1>5
    <3> HIDE DEF m, end
    <3>4. m \in Nat /\ end = m + 1 /\ m \in 0 .. d - 1
      BY <3>1 DEF m
    <3> QED
      BY <1>3, <1>6, <3>2, <3>3, <3>4
  <2>2. CASE Cardinality(named) # n
    <3>1. end = d /\ named = missing
      BY <1>7, <2>2
    <3> QED
      BY <1>3, <1>5, <3>1
  <2> QED
    BY <2>1, <2>2
<1> HIDE DEF end
<1>9. /\ first \in end .. d /\ (first = d \/ rxon[No(r + first)].complete # TRUE)
      /\ \A i \in end .. d : i < first => rxon[No(r + i)].complete = TRUE
  <2>1. \A i \in end .. d : i \in 0 .. d /\ i \in Nat /\ Plus(vr.r, i) = No(r + i)
    BY <1>3, <1>4, <1>8
  <2>2. T \subseteq Nat /\ d \in T
    BY <1>3, <1>8, <2>1
  <2>3. first \in T /\ \A i \in T : first <= i
    <3> HIDE DEF T
    <3> QED
      BY <2>2, MinOfNumbers
  <2>4. \A i \in end .. d : i \in T <=> i = d \/ rxon[No(r + i)].complete # TRUE
    BY <2>1
  <2>5. T \subseteq end .. d
    OBVIOUS
  <2> HIDE DEF T, first
  <2>6. first \in end .. d /\ (first = d \/ rxon[No(r + first)].complete # TRUE)
    BY <2>3, <2>4, <2>5
  <2>7. ASSUME NEW i \in end .. d, i < first PROVE rxon[No(r + i)].complete = TRUE
    <3>1. ~(first <= i)
      BY <1>8, <2>6, <2>7
    <3>2. i \notin T
      BY <2>3, <3>1
    <3> QED
      BY <2>4, <3>2
  <2> QED
    BY <2>6, <2>7
<1> HIDE DEF first, T
<1>10. first \in 0 .. d /\ first \in Nat /\ end <= first /\ end \in Nat
  BY <1>3, <1>8, <1>9
<1>11. \A i \in named : i \in 0 .. d - 1 /\ i \in Nat /\ i < first
  <2> SUFFICES ASSUME NEW i \in named PROVE i \in 0 .. d - 1 /\ i \in Nat /\ i < first
    OBVIOUS
  <2>1. i \in 0 .. d - 1 /\ i < end /\ i \in Nat
    BY <1>5, <1>6, <1>8
  <2> QED
    BY <1>10, <2>1
<1>12. StatusPdu(n).ackSn = No(ack) /\ StatusPdu(n).overtaken = FALSE
  BY <1>1, <1>4, <1>10
<1>13. StatusPdu(n).nacks = {No(k) : k \in nack}
  <2>1. \A i \in named : Plus(vr.r, i) = No(r + i)
    BY <1>3, <1>4, <1>11
  <2>2. StatusPdu(n).nacks = {No(r + i) : i \in named}
    BY <1>1, <2>1
  <2> QED
    BY <2>2
<1>14. StatusPdu(n) \in StatusPdus
  <2>1. \A k \in Nat : No(k) \in SNs
    BY SumOfNumbers
  <2>2. ack \in Nat /\ nack \subseteq Nat
    BY <1>10, <1>11
  <2> HIDE DEF ack, nack
  <2>3. {No(k) : k \in nack} \subseteq SNs /\ No(ack) \in SNs
    BY <2>1, <2>2
  <2> QED
    BY <1>1, <1>12, <1>13, <2>3 DEF StatusPdus
<1>15. StatusIs(r, ack, nack, a, ms)
  <2>1. r <= ack /\ ack <= ms
    BY <1>2, <1>3, <1>10
  <2>2. \A k \in nack : k \in Nat /\ r <= k /\ k < ack
    <3> SUFFICES ASSUME NEW i \in named PROVE r + i \in Nat /\ r <= r + i /\ r + i < r + first
      OBVIOUS
    <3> QED
      BY <1>10, <1>11
  <2>3. r = ack \/ r \in nack
    <3>1. CASE d = 0
      BY <1>10, <3>1
    <3>2. CASE d # 0
      <4>1. 0 \in 0 .. d - 1 /\ r + 0 = r
        BY <1>3, <3>2
      <4>2. 0 \in named
        BY <1>2, <1>5, <1>7, <4>1
      <4> QED
        BY <4>1, <4>2
    <3> QED
      BY <3>1, <3>2
  <2> HIDE DEF ack, nack
  <2> QED
    BY <2>1, <2>2, <2>3 DEF StatusIs
<1>16. Tells(ack, nack, Have(rxon, r, h))
  <2>1. ASSUME NEW k \in Nat, k < ack, k \notin nack
        PROVE  k \in Have(rxon, r, h)
    <3>1. CASE k < r
      BY <3>1 DEF Have
    <3>2. CASE ~(k < r)
      <4>1. PICK i \in Nat : k = r + i
        <5>1. k - r \in Nat /\ k = r + (k - r)
          BY <3>2
        <5> QED
          BY <5>1
      <4>2. i < first /\ i \in 0 .. d /\ i \in 0 .. d - 1 /\ i \notin named
        BY <1>3, <1>10, <2>1, <4>1
      <4>3. rxon[No(r + i)].complete = TRUE
        <5>1. CASE i < end
          BY <1>5, <1>8, <4>2, <5>1
        <5>2. CASE ~(i < end)
          <6>1. i \in end .. d
            BY <1>3, <1>10, <4>2, <5>2
          <6> QED
            BY <1>9, <4>2, <6>1
        <5> QED
          BY <5>1, <5>2
      <4>4. k < h
        BY <1>2, <1>3, <4>1, <4>2
      <4> QED
        BY <4>1, <4>3, <4>4 DEF Have
    <3> QED
      BY <3>1, <3>2
  <2>2. ack \notin Have(rxon, r, h)
    <3>1. ack \in Nat /\ ~(ack < r)
      BY <1>10
    <3>2. rxon[No(ack)].complete # TRUE
      <4>1. CASE first = d
        <5>1. ack = ms
          BY <1>2, <1>3, <4>1
        <5> QED
          BY <1>2, <5>1
      <4>2. CASE first # d
        BY <1>9, <4>2
      <4> QED
        BY <4>1, <4>2
    <3> HIDE DEF ack
    <3> QED
      BY <3>1, <3>2 DEF Have
  <2>3. ASSUME NEW i \in named PROVE r + i \notin Have(rxon, r, h)
    <3>1. i \in missing /\ i \in 0 .. d - 1 /\ i \in Nat
      BY <1>6, <1>11
    <3>2. rxon[No(r + i)].complete # TRUE
      BY <1>5, <3>1
    <3>3. r + i \in Nat /\ ~(r + i < r)
      BY <3>1
    <3> QED
      BY <3>2, <3>3 DEF Have
  <2>4. \A k \in nack : k \notin Have(rxon, r, h)
    BY <2>3
  <2> HIDE DEF ack, nack
  <2> QED
    BY <2>1, <2>2, <2>4 DEF Tells
<1>17. ack \in Nat /\ nack \in SUBSET Nat
  BY <1>10, <1>11
<1> HIDE DEF ack, nack
<1> QED
  BY <1>12, <1>13, <1>14, <1>15, <1>16, <1>17
------------------------------------------------------------------------------
(* The STATUS PDUs on their way back, in order. *)

Naming(nack) == nack \in [Nat -> SUBSET Nat]

\* What the PDU says: it was sent when VR(R) was PDU low.
AckIs(pdu, low, ack, nack, r, s, a) ==
  Says(pdu, ack, nack) /\ StatusIs(low, ack, nack, a, s) /\ low <= r

AcksAre(pdus, low, ack, nack, r, s, a) ==
  /\ \A i \in 1 .. Len(pdus) : AckIs(pdus[i], low[i], ack[i], nack[i], r, s, a)
  /\ \A i, j \in 1 .. Len(pdus) : i < j => low[i] <= low[j]

\* The PDUs a STATUS PDU makes its reader believe received, and those of which
\* it says that they are not.
Believed(n, ack, nack) == n < ack /\ n \notin nack
Doubted(n, ack, nack) == n = ack \/ n \in nack

\* What one of them says is received is so, no later one doubts it, and none
\* doubts a PDU the sending entity has let go of.
BeliefsAre(l, ack, nack, have, gone) ==
  /\ \A i \in 1 .. l : \A n \in Nat : Believed(n, ack[i], nack[i]) => n \in have
  /\ \A i, j \in 1 .. l : i < j =>
       \A n \in Nat : Believed(n, ack[i], nack[i]) => ~Doubted(n, ack[j], nack[j])
  /\ \A n \in gone : n \in have /\ \A i \in 1 .. l : ~Doubted(n, ack[i], nack[i])

Shifted(f) == [j \in Nat |-> f[j + 1]]

LEMMA ShiftedIs ==
  ASSUME NEW f, NEW l, l \in Nat
  PROVE  \A j \in 1 .. l : j + 1 \in 1 .. l + 1 /\ Shifted(f)[j] = f[j + 1] /\ j + 1 # 1
BY DEF Shifted

LEMMA ShiftedTypes ==
  ASSUME NEW f
  PROVE  (Counting(f) => Counting(Shifted(f))) /\ (Naming(f) => Naming(Shifted(f)))
<1>1. \A S : f \in [Nat -> S] => Shifted(f) \in [Nat -> S]
  <2> SUFFICES ASSUME NEW S, f \in [Nat -> S] PROVE [j \in Nat |-> f[j + 1]] \in [Nat -> S]
    BY DEF Shifted
  <2>1. \A j \in Nat : j + 1 \in Nat
    OBVIOUS
  <2>2. \A j \in Nat : f[j + 1] \in S
    BY <2>1
  <2> QED
    BY <2>2
<1> QED
  BY <1>1 DEF Counting, Naming

LEMMA AcksLeave ==
  ASSUME NEW pdus, NEW others, QueueOf(pdus, StatusPdus), LeftOver(others, pdus, 1),
         NEW low, NEW ack, NEW nack, NEW r, r \in Nat, NEW s, s \in Nat, NEW a, a \in Nat,
         Counting(low), AcksAre(pdus, low, ack, nack, r, s, a), NEW a2, a2 = a \/ a2 = low[1]
  PROVE  AcksAre(others, Shifted(low), Shifted(ack), Shifted(nack), r, s, a2)
<1> DEFINE l == Len(others)
<1>1. l \in Nat /\ Len(pdus) = l + 1 /\ \A j \in 1 .. l : others[j] = pdus[j + 1]
  BY DEF LeftOver, QueueOf
<1>2. Len(others) = l
  OBVIOUS
<1> HIDE DEF l
<1>3. /\ \A i \in 1 .. l + 1 : AckIs(pdus[i], low[i], ack[i], nack[i], r, s, a)
      /\ \A i, j \in 1 .. l + 1 : i < j => low[i] <= low[j]
  BY <1>1 DEF AcksAre
<1>4. ASSUME NEW j \in 1 .. l
      PROVE  AckIs(others[j], Shifted(low)[j], Shifted(ack)[j], Shifted(nack)[j], r, s, a2)
  <2>1. /\ j + 1 \in 1 .. l + 1 /\ 1 \in 1 .. l + 1 /\ 1 < j + 1
    BY <1>1
  <2>2. AckIs(pdus[j + 1], low[j + 1], ack[j + 1], nack[j + 1], r, s, a) /\ low[1] <= low[j + 1]
    BY <1>3, <2>1
  <2>3. a2 <= low[j + 1]
    BY <2>2 DEF AckIs, StatusIs
  <2>4. AckIs(pdus[j + 1], low[j + 1], ack[j + 1], nack[j + 1], r, s, a2)
    BY <2>2, <2>3 DEF AckIs, StatusIs
  <2>5. /\ others[j] = pdus[j + 1] /\ Shifted(low)[j] = low[j + 1] /\ Shifted(ack)[j] = ack[j + 1]
        /\ Shifted(nack)[j] = nack[j + 1]
    BY <1>1, ShiftedIs
  <2> QED
    BY <2>4, <2>5
<1>5. ASSUME NEW i \in 1 .. l, NEW j \in 1 .. l, i < j
      PROVE  Shifted(low)[i] <= Shifted(low)[j]
  <2>1. i + 1 \in 1 .. l + 1 /\ j + 1 \in 1 .. l + 1 /\ i + 1 < j + 1
    BY <1>1, <1>5
  <2>2. low[i + 1] <= low[j + 1]
    BY <1>3, <2>1
  <2>3. Shifted(low)[i] = low[i + 1] /\ Shifted(low)[j] = low[j + 1]
    BY <1>1, ShiftedIs
  <2> QED
    BY <2>2, <2>3
<1> QED
  BY <1>2, <1>4, <1>5 DEF AcksAre

\* A new one, sent when VR(R) is PDU r.
LEMMA AcksJoin ==
  ASSUME NEW pdus, NEW more, NEW e, QueueOf(pdus, StatusPdus), Joined(more, pdus, e),
         NEW low, NEW ack, NEW nack, NEW r, r \in Nat, NEW s, s \in Nat, NEW a, a \in Nat,
         Counting(low), Counting(ack), Naming(nack), AcksAre(pdus, low, ack, nack, r, s, a),
         NEW ack0, ack0 \in Nat, NEW nack0, nack0 \in SUBSET Nat, AckIs(e, r, ack0, nack0, r, s, a)
  PROVE  LET l == Len(pdus) + 1 IN
         AcksAre(more, [low EXCEPT ![l] = r], [ack EXCEPT ![l] = ack0], [nack EXCEPT ![l] = nack0], r, s, a)
<1> DEFINE l == Len(pdus)  low2 == [low EXCEPT ![l + 1] = r]
           ack2 == [ack EXCEPT ![l + 1] = ack0]  nack2 == [nack EXCEPT ![l + 1] = nack0]
<1>1. /\ l \in Nat /\ Len(more) = l + 1 /\ more[l + 1] = e /\ \A i \in 1 .. l : more[i] = pdus[i]
  BY DEF Joined, QueueOf
<1>2. /\ low2[l + 1] = r /\ ack2[l + 1] = ack0 /\ nack2[l + 1] = nack0
      /\ \A i \in 1 .. l : low2[i] = low[i] /\ ack2[i] = ack[i] /\ nack2[i] = nack[i]
  <2>1. l + 1 \in Nat /\ \A i \in 1 .. l : i \in Nat /\ i # l + 1
    BY <1>1
  <2> QED
    BY <2>1 DEF Counting, Naming
<1>3. /\ \A i \in 1 .. l : AckIs(pdus[i], low[i], ack[i], nack[i], r, s, a)
      /\ \A i, j \in 1 .. l : i < j => low[i] <= low[j]
  BY DEF AcksAre
<1> HIDE DEF l, low2, ack2, nack2
<1>4. ASSUME NEW i \in 1 .. l + 1
      PROVE  AckIs(more[i], low2[i], ack2[i], nack2[i], r, s, a)
  <2>1. CASE i = l + 1
    BY <1>1, <1>2, <2>1
  <2>2. CASE i # l + 1
    <3>1. i \in 1 .. l
      BY <1>1, <2>2
    <3> QED
      BY <1>1, <1>2, <1>3, <3>1
  <2> QED
    BY <2>1, <2>2
<1>5. ASSUME NEW i \in 1 .. l + 1, NEW j \in 1 .. l + 1, i < j
      PROVE  low2[i] <= low2[j]
  <2>1. i \in 1 .. l
    BY <1>1, <1>5
  <2>2. CASE j = l + 1
    <3>1. AckIs(pdus[i], low[i], ack[i], nack[i], r, s, a)
      BY <1>3, <2>1
    <3>2. low[i] <= r
      BY <3>1 DEF AckIs
    <3> QED
      BY <1>2, <2>1, <2>2, <3>2
  <2>3. CASE j # l + 1
    <3>1. j \in 1 .. l
      BY <1>1, <2>3
    <3> QED
      BY <1>2, <1>3, <1>5, <2>1, <3>1
  <2> QED
    BY <2>2, <2>3
<1>6. AcksAre(more, low2, ack2, nack2, r, s, a)
  BY <1>1, <1>4, <1>5 DEF AcksAre
<1> QED
  BY <1>6 DEF l, low2, ack2, nack2

LEMMA AcksGrow ==
  ASSUME NEW pdus, QueueOf(pdus, StatusPdus), NEW low, NEW ack, NEW nack, Counting(low), Counting(ack),
         NEW r, r \in Nat, NEW s, s \in Nat, NEW a, a \in Nat, AcksAre(pdus, low, ack, nack, r, s, a),
         NEW r2, r2 \in Nat, NEW s2, s2 \in Nat, r <= r2, s <= s2
  PROVE  AcksAre(pdus, low, ack, nack, r2, s2, a)
<1>1. ASSUME NEW i \in 1 .. Len(pdus)
      PROVE  AckIs(pdus[i], low[i], ack[i], nack[i], r2, s2, a)
  <2>1. AckIs(pdus[i], low[i], ack[i], nack[i], r, s, a)
    BY DEF AcksAre
  <2>2. low[i] \in Nat /\ ack[i] \in Nat /\ low[i] <= r /\ ack[i] <= s
    <3>1. i \in Nat
      OBVIOUS
    <3> QED
      BY <2>1, <3>1 DEF Counting, AckIs, StatusIs
  <2>3. low[i] <= r2 /\ ack[i] <= s2
    BY <2>2
  <2> QED
    BY <2>1, <2>3 DEF AckIs, StatusIs
<1> QED
  BY <1>1 DEF AcksAre

\* The first one is read: the sending entity may let go of what it makes it believe.
LEMMA BeliefsLeave ==
  ASSUME NEW l, l \in Nat, NEW ack, NEW nack, NEW have, NEW gone,
         BeliefsAre(l + 1, ack, nack, have, gone),
         NEW gone2, gone2 \subseteq gone \cup {n \in Nat : Believed(n, ack[1], nack[1])}
  PROVE  BeliefsAre(l, Shifted(ack), Shifted(nack), have, gone2)
<1>1. /\ \A i \in 1 .. l + 1 : \A n \in Nat : Believed(n, ack[i], nack[i]) => n \in have
      /\ \A i, j \in 1 .. l + 1 : i < j =>
           \A n \in Nat : Believed(n, ack[i], nack[i]) => ~Doubted(n, ack[j], nack[j])
      /\ \A n \in gone : n \in have /\ \A i \in 1 .. l + 1 : ~Doubted(n, ack[i], nack[i])
  BY DEF BeliefsAre
<1>2. \A j \in 1 .. l : /\ j + 1 \in 1 .. l + 1 /\ 1 < j + 1
                        /\ Shifted(ack)[j] = ack[j + 1] /\ Shifted(nack)[j] = nack[j + 1]
  BY ShiftedIs
<1>3. 1 \in 1 .. l + 1
  OBVIOUS
<1>4. ASSUME NEW i \in 1 .. l, NEW n \in Nat, Believed(n, Shifted(ack)[i], Shifted(nack)[i])
      PROVE  n \in have
  BY <1>1, <1>2, <1>4
<1>5. ASSUME NEW i \in 1 .. l, NEW j \in 1 .. l, i < j, NEW n \in Nat,
             Believed(n, Shifted(ack)[i], Shifted(nack)[i])
      PROVE  ~Doubted(n, Shifted(ack)[j], Shifted(nack)[j])
  <2>1. i + 1 < j + 1
    BY <1>5
  <2> QED
    BY <1>1, <1>2, <1>5, <2>1
<1>6. ASSUME NEW n \in gone2
      PROVE  n \in have /\ \A i \in 1 .. l : ~Doubted(n, Shifted(ack)[i], Shifted(nack)[i])
  <2>1. CASE n \in gone
    BY <1>1, <1>2, <2>1
  <2>2. CASE n \in Nat /\ Believed(n, ack[1], nack[1])
    BY <1>1, <1>2, <1>3, <2>2
  <2> QED
    BY <2>1, <2>2
<1> QED
  BY <1>4, <1>5, <1>6 DEF BeliefsAre

LEMMA BeliefsJoin ==
  ASSUME NEW l, l \in Nat, NEW ack, NEW nack, NEW have, NEW gone, Counting(ack), Naming(nack),
         BeliefsAre(l, ack, nack, have, gone),
         NEW ack0, ack0 \in Nat, NEW nack0, nack0 \in SUBSET Nat, Tells(ack0, nack0, have)
  PROVE  BeliefsAre(l + 1, [ack EXCEPT ![l + 1] = ack0], [nack EXCEPT ![l + 1] = nack0], have, gone)
<1> DEFINE ack2 == [ack EXCEPT ![l + 1] = ack0]  nack2 == [nack EXCEPT ![l + 1] = nack0]
<1>1. /\ ack2[l + 1] = ack0 /\ nack2[l + 1] = nack0
      /\ \A i \in 1 .. l : ack2[i] = ack[i] /\ nack2[i] = nack[i]
  <2>1. l + 1 \in Nat /\ \A i \in 1 .. l : i \in Nat /\ i # l + 1
    OBVIOUS
  <2> QED
    BY <2>1 DEF Counting, Naming
<1>2. /\ \A i \in 1 .. l : \A n \in Nat : Believed(n, ack[i], nack[i]) => n \in have
      /\ \A i, j \in 1 .. l : i < j =>
           \A n \in Nat : Believed(n, ack[i], nack[i]) => ~Doubted(n, ack[j], nack[j])
      /\ \A n \in gone : n \in have /\ \A i \in 1 .. l : ~Doubted(n, ack[i], nack[i])
  BY DEF BeliefsAre
<1>3. /\ \A n \in Nat : Believed(n, ack0, nack0) => n \in have
      /\ \A n \in have : ~Doubted(n, ack0, nack0)
  BY DEF Tells, Believed, Doubted
<1>4. \A i \in 1 .. l + 1 : i = l + 1 \/ i \in 1 .. l
  OBVIOUS
<1>5. \A i, j \in 1 .. l + 1 : i < j => i \in 1 .. l
  OBVIOUS
<1> HIDE DEF ack2, nack2
<1>6. ASSUME NEW i \in 1 .. l + 1, NEW n \in Nat, Believed(n, ack2[i], nack2[i])
      PROVE  n \in have
  BY <1>1, <1>2, <1>3, <1>4, <1>6
<1>7. ASSUME NEW i \in 1 .. l + 1, NEW j \in 1 .. l + 1, i < j, NEW n \in Nat,
             Believed(n, ack2[i], nack2[i])
      PROVE  ~Doubted(n, ack2[j], nack2[j])
  <2>1. i \in 1 .. l /\ n \in have
    BY <1>5, <1>6, <1>7
  <2>2. CASE j = l + 1
    BY <1>1, <1>3, <2>1, <2>2
  <2>3. CASE j \in 1 .. l
    BY <1>1, <1>2, <1>7, <2>1, <2>3
  <2> QED
    BY <1>4, <2>2, <2>3
<1>8. ASSUME NEW n \in gone
      PROVE  n \in have /\ \A i \in 1 .. l + 1 : ~Doubted(n, ack2[i], nack2[i])
  BY <1>1, <1>2, <1>3, <1>4
<1>9. BeliefsAre(l + 1, ack2, nack2, have, gone)
  BY <1>6, <1>7, <1>8 DEF BeliefsAre
<1> QED
  BY <1>9 DEF ack2, nack2

LEMMA BeliefsGrow ==
  ASSUME NEW l, NEW ack, NEW nack, NEW have, NEW gone, BeliefsAre(l, ack, nack, have, gone),
         NEW have2, NEW gone2, have \subseteq have2, gone2 \subseteq gone
  PROVE  BeliefsAre(l, ack, nack, have2, gone2)
BY DEF BeliefsAre
------------------------------------------------------------------------------
(* The invariant. *)

Statuses == [requested : BOOLEAN, prohibited : BOOLEAN, report : BOOLEAN]

SenderTypes ==
  /\ txon \in Pieces /\ Len(txon) <= MaxTxBuffer
  /\ txed \in Buffers /\ retx \in Buffers /\ retxSeg \in [SNs -> Nat]
  /\ vtA \in SNs /\ vtS \in SNs /\ poll \in Polls
  /\ rbsTimer \in BOOLEAN /\ report \in BOOLEAN /\ bigEnough \in BigEnough
ReceiverTypes ==
  Buffered(rxon) /\ vr \in Variables /\ reorderingTimer \in BOOLEAN /\ status \in Statuses
BetweenTypes ==
  /\ dataPdus \in Seq(DataPdus) /\ statusPdus \in Seq(StatusPdus)
  /\ losses \in 0 .. MaxLosses /\ cuts \in 0 .. MaxCuts
HistoryTypes == offered \in 0 .. NSdus /\ accepted \in Seq(1 .. NSdus)

AmTypes == SenderTypes /\ ReceiverTypes /\ BetweenTypes /\ HistoryTypes

SenderHas(sent, a, s) ==
  /\ Sent(sent) /\ a \in Nat /\ s \in Nat /\ vtA = No(a) /\ vtS = No(s)
  /\ SenderIs(txed, retx, retxSeg, sent, a, s)

\* A PDU to be sent again behind which none waits: when it is sent it is the
\* last one, and asks for a STATUS PDU.
NoneBehind(te, re, m, a, s) ==
  /\ a <= m /\ m < s /\ re[No(m)] # <<>>
  /\ \A q \in Nat : m < q /\ q < s => te[No(q)] = <<>>

Asked(p, s) == p.timer = TRUE /\ p.sn = No(s + Modulus - 1)

\* While a PDU is not acknowledged a STATUS PDU is asked for or will be: with
\* the next PDU that is sent, or the last one that is sent again.  The window
\* does not hold that next PDU back for ever.
Watch(a, s) ==
  /\ \A sn \in SNs : retxSeg[sn] = 0
  /\ poll.justExpired = TRUE => s < a + Window \/ retx[No(a)] # <<>>
  /\ a < s => \/ Asked(poll, s)
              \/ poll.justExpired = TRUE
              \/ txon # <<>> /\ s < a + Window
              \/ \E m \in Nat : NoneBehind(txed, retx, m, a, s)

DataHas(num, sent, s, h) == Counting(num) /\ DataIs(dataPdus, num, sent, s, h)

\* The PDUs the sending entity has let go of.
Gone(te, re, a, s) ==
  {n \in Nat : a <= n /\ n < s /\ te[No(n)] = <<>> /\ re[No(n)] = <<>>}

\* The first unacknowledged PDU is not among them.
StatusHas(low, ack, nack, r, h, s, a) ==
  /\ Counting(low) /\ Counting(ack) /\ Naming(nack) /\ a <= r
  /\ AcksAre(statusPdus, low, ack, nack, r, s, a)
  /\ BeliefsAre(Len(statusPdus), ack, nack, Have(rxon, r, h), Gone(txed, retx, a, s))
  /\ a \notin Gone(txed, retx, a, s)

Holds(sent, a, s, r, ms, h, x, num, low, ack, nack) ==
  /\ SenderHas(sent, a, s) /\ ReceiverHas(sent, r, ms, h, x, s)
  /\ DataHas(num, sent, s, h) /\ StatusHas(low, ack, nack, r, h, s, a)
  /\ bigEnough = TRUE => Watch(a, s)

\* What an SDU adds to the transmission buffer, and what a new PDU takes.
LEMMA SduIsHandedIn ==
  ASSUME txon \in Pieces, Len(txon) <= MaxTxBuffer, HistoryTypes, DoTransmitPdcpPdu
  PROVE  /\ txon' \in Pieces /\ Len(txon') <= MaxTxBuffer /\ HistoryTypes'
         /\ txon # <<>> => txon' # <<>>
         /\ \/ txon' = txon /\ accepted' = accepted
            \/ \E sdu \in 1 .. NSdus : txon' = txon \o Sdu(sdu) /\ accepted' = Append(accepted, sdu)
<1>1. accepted \in Seq(1 .. NSdus) /\ offered \in Nat /\ offered <= NSdus
  BY AmConstants DEF HistoryTypes
<1>2. offered < NSdus /\ offered' = offered + 1
  BY DEF DoTransmitPdcpPdu
<1>3. PICK sdu \in 1 .. NSdus : sdu = offered + 1
  BY <1>1, <1>2, AmConstants
<1>4. Sdu(sdu) \in Pieces /\ Len(Sdu(sdu)) = SduUnits
  <2>1. \A k \in 1 .. SduUnits : <<sdu, k>> \in Units
    BY DEF Units
  <2>2. SduUnits \in Nat
    BY AmConstants
  <2> QED
    BY <2>1, <2>2, IsASeq DEF Sdu, Pieces
<1>5. txon \o Sdu(sdu) \in Pieces /\ Len(txon \o Sdu(sdu)) = Len(txon) + SduUnits
  BY <1>4, ConcatProperties DEF Pieces
<1>6. Append(accepted, sdu) \in Seq(1 .. NSdus)
  BY <1>1, AppendProperties
<1>7. Len(txon) \in Nat
  BY LenProperties DEF Pieces
<1>8. \/ Len(txon) + SduUnits <= MaxTxBuffer /\ txon' = txon \o Sdu(sdu) /\ accepted' = Append(accepted, sdu)
      \/ txon' = txon /\ accepted' = accepted
  BY <1>3 DEF DoTransmitPdcpPdu
<1>9. offered' \in 0 .. NSdus
  BY <1>2, <1>3, AmConstants
<1>10. CASE /\ Len(txon) + SduUnits <= MaxTxBuffer
            /\ txon' = txon \o Sdu(sdu) /\ accepted' = Append(accepted, sdu)
  <2>1. txon' \in Pieces /\ Len(txon') = Len(txon) + SduUnits /\ accepted' \in Seq(1 .. NSdus)
    BY <1>5, <1>6, <1>10
  <2>2. Len(txon') <= MaxTxBuffer /\ Len(txon') # 0
    BY <1>7, <1>10, <2>1, AmConstants
  <2>3. txon' # <<>>
    BY <2>1, <2>2, EmptySeq DEF Pieces
  <2> QED
    BY <1>9, <1>10, <2>1, <2>2, <2>3 DEF HistoryTypes
<1>11. CASE txon' = txon /\ accepted' = accepted
  BY <1>1, <1>9, <1>11 DEF HistoryTypes
<1> QED
  BY <1>8, <1>10, <1>11

LEMMA NewPduIsCut ==
  ASSUME txon \in Pieces, txon # <<>>, NEW n \in Nat, n > 0, TransmitNew(Min({n, Len(txon)}))
  PROVE  \E m \in 1 .. Len(txon) : \E units \in Pieces :
           /\ units = SubSeq(txon, 1, m) /\ Len(units) = m
           /\ txon' = SubSeq(txon, m + 1, Len(txon))
           /\ txon' \in Pieces /\ Len(txon') = Len(txon) - m
           /\ vtS' = Plus(vtS, 1) /\ txed' = [txed EXCEPT ![vtS] = units]
           /\ dataPdus' = Append(dataPdus, Pdu(vtS, units, 0, FALSE, TRUE, TRUE))
           /\ poll' = [sn |-> Plus(vtS', Modulus - 1), timer |-> TRUE, justExpired |-> FALSE]
           /\ retx' = retx /\ retxSeg' = retxSeg
<1> DEFINE l == Len(txon)  T == {n, l}  m == Min(T)  units == SubSeq(txon, 1, m)
<1>1. l \in Nat /\ l > 0 /\ \A i \in 1 .. l : txon[i] \in Units
  BY LenProperties, EmptySeq, ElementOfSeq DEF Pieces
<1>2. m \in T /\ \A x \in T : m <= x
  <2>1. T \subseteq Nat /\ T # {}
    BY <1>1
  <2> HIDE DEF T
  <2> QED
    BY <2>1, MinOfNumbers
<1>3. m \in 1 .. l
  BY <1>1, <1>2
<1>4. /\ txon' = SubSeq(txon, Len(units) + 1, l)
      /\ vtS' = Plus(vtS, 1) /\ txed' = [txed EXCEPT ![vtS] = units]
      /\ dataPdus' = Append(dataPdus, Pdu(vtS, units, 0, FALSE, TRUE, TRUE))
      /\ poll' = [sn |-> Plus(vtS', Modulus - 1), timer |-> TRUE, justExpired |-> FALSE]
      /\ retx' = retx /\ retxSeg' = retxSeg
  BY DEF TransmitNew, Send, PollWith
<1> HIDE DEF m
<1>5. units \in Pieces /\ Len(units) = m
  BY <1>1, <1>3, SubSeqProperties DEF Pieces
<1>6. SubSeq(txon, m + 1, l) \in Pieces /\ Len(SubSeq(txon, m + 1, l)) = l - m
  <2>1. m + 1 \in Int /\ l \in Int /\ \A i \in m + 1 .. l : txon[i] \in Units
    BY <1>1, <1>3
  <2> QED
    BY <1>1, <1>3, <2>1, SubSeqProperties DEF Pieces
<1> HIDE DEF l, units
<1> QED
  BY <1>3, <1>4, <1>5, <1>6 DEF l, units

\* A retransmission: PDU m is the first one to be sent again.
Resent(m, a, s, sent) ==
  \E units \in Pieces : \E polls \in BOOLEAN : \E isSegment \in BOOLEAN : \E isLast \in BOOLEAN :
    LET pdu == Pdu(No(m), units, retxSeg[No(m)], isSegment, isLast, polls) IN
    /\ polls = RetxPolls(No(m))
    /\ pdu \in DataPdus /\ PduIs(pdu, m, sent) /\ dataPdus' = Append(dataPdus, pdu)
    /\ poll' = IF polls
               THEN [sn |-> Plus(vtS, Modulus - 1), timer |-> TRUE, justExpired |-> FALSE]
               ELSE poll
    /\ bigEnough = TRUE => isLast = TRUE
    /\ IF isLast
       THEN /\ txed' = [txed EXCEPT ![No(m)] = retx[No(m)]]
            /\ retx' = [retx EXCEPT ![No(m)] = <<>>]
            /\ retxSeg' = [retxSeg EXCEPT ![No(m)] = 0]
       ELSE /\ retxSeg' = [retxSeg EXCEPT ![No(m)] = retxSeg[No(m)] + Len(units)]
            /\ retxSeg[No(m)] + Len(units) < Len(sent[m])
            /\ txed' = txed /\ retx' = retx
    /\ cuts' \in 0 .. MaxCuts /\ txon' = txon /\ vtS' = vtS

LEMMA FirstIsResent ==
  ASSUME SenderTypes, BetweenTypes, HistoryTypes, NEW sent, NEW a, NEW s, SenderHas(sent, a, s), RetxPending,
         NEW n \in Nat, n > 0, Retransmit(Min({n, NSdus * SduUnits}))
  PROVE  \E m \in Nat :
           /\ a <= m /\ m < s /\ retx[No(m)] # <<>>
           /\ \A q \in Nat : a <= q /\ q < m => retx[No(q)] = <<>>
           /\ Resent(m, a, s, sent)
<1> DEFINE d == Dist(vtS, vtA)
           T == {i \in 0 .. d - 1 : retx[Plus(vtA, i)] # <<>>}
           sn == Plus(vtA, Min(T))
           whole == retx[sn]
           offset == retxSeg[sn]
           left == SubSeq(whole, offset + 1, Len(whole))
           grant == Min({n, NSdus * SduUnits})
           fits == Len(left) <= grant \/ bigEnough
           units == IF fits THEN left ELSE SubSeq(left, 1, grant)
<1>1. /\ a \in Nat /\ s \in Nat /\ vtA = No(a) /\ vtS = No(s) /\ a <= s /\ s <= a + Window
      /\ Modulus \in Nat /\ Modulus = Window + Window /\ Window \in Nat /\ Window > 0
  BY AmConstants DEF SenderHas, SenderIs
<1>2. d = s - a
  <2>1. s < a + Modulus
    BY <1>1
  <2> QED
    BY <1>1, <2>1, DistanceOfNumbers
<1> HIDE DEF d
<1>3. T # {}
  <2>1. PICK other \in SNs : retx[other] # <<>>
    BY DEF RetxPending
  <2>2. PICK q \in Nat : a <= q /\ q < a + Modulus /\ No(q) = other
    BY <1>1, NumberFound
  <2>3. q < s
    <3>1. CASE ~(q < s)
      <4>1. Idle(txed, retx, retxSeg, No(q))
        BY <1>1, <2>2, <3>1 DEF SenderHas, SenderIs
      <4> QED
        BY <2>1, <2>2, <4>1 DEF Idle
    <3> QED
      BY <3>1
  <2>4. q - a \in 0 .. d - 1 /\ a + (q - a) = q /\ q - a \in Nat
    BY <1>1, <1>2, <2>2, <2>3
  <2>5. Plus(vtA, q - a) = other
    BY <1>1, <2>2, <2>4, SumOfNumbers
  <2> QED
    BY <2>1, <2>4, <2>5
<1>4. PICK i \in Nat : i = Min(T) /\ i \in T /\ \A y \in T : i <= y
  <2>1. T \subseteq Nat
    BY <1>1, <1>2
  <2> HIDE DEF T
  <2> QED
    BY <1>3, <2>1, MinOfNumbers
<1>5. PICK m \in Nat : m = a + i /\ a <= m /\ m < s /\ sn = No(m)
  <2>1. a + i \in Nat /\ a <= a + i /\ a + i < s
    BY <1>1, <1>2, <1>4
  <2>2. sn = No(a + i)
    BY <1>1, <1>4, SumOfNumbers
  <2> QED
    BY <2>1, <2>2
<1>6. retx[No(m)] # <<>>
  BY <1>4, <1>5
<1>7. ASSUME NEW q \in Nat, a <= q, q < m
      PROVE  retx[No(q)] = <<>>
  <2>1. q - a \in 0 .. d - 1 /\ a + (q - a) = q /\ q - a \in Nat /\ ~(i <= q - a)
    BY <1>1, <1>2, <1>5, <1>7
  <2>2. Plus(vtA, q - a) = No(q)
    BY <1>1, <2>1, SumOfNumbers
  <2> QED
    BY <1>4, <2>1, <2>2
<1> HIDE DEF T
<1>8. /\ dataPdus' = Append(dataPdus, Pdu(sn, units, offset, ~fits \/ offset > 0, fits, RetxPolls(sn)))
      /\ poll' = IF RetxPolls(sn)
                 THEN [sn |-> Plus(vtS, Modulus - 1), timer |-> TRUE, justExpired |-> FALSE]
                 ELSE poll
      /\ fits \/ cuts < MaxCuts
      /\ cuts' = IF fits THEN cuts ELSE cuts + 1
      /\ IF fits
         THEN /\ txed' = [txed EXCEPT ![sn] = retx[sn]]
              /\ retx' = [retx EXCEPT ![sn] = <<>>]
              /\ retxSeg' = [retxSeg EXCEPT ![sn] = 0]
         ELSE /\ retxSeg' = [retxSeg EXCEPT ![sn] = offset + grant]
              /\ txed' = txed /\ retx' = retx
      /\ txon' = txon /\ vtS' = vtS
  BY DEF Retransmit, Send, PollWith, T, d
<1>9. No(m) \in SNs /\ whole \in Pieces /\ whole = sent[m] /\ offset \in Nat /\ offset < Len(whole)
  <2>1. No(m) \in SNs
    BY SumOfNumbers
  <2>2. whole \in Pieces /\ offset \in Nat
    BY <1>5, <2>1 DEF SenderTypes, Buffers
  <2>3. Waits(txed, retx, retxSeg, sent[m], No(m))
    BY <1>5 DEF SenderHas, SenderIs
  <2>4. Len(whole) \in Nat /\ Len(whole) # 0
    BY <1>5, <1>6, <2>2, LenProperties, EmptySeq DEF Pieces
  <2> QED
    BY <1>5, <1>6, <2>1, <2>2, <2>3, <2>4 DEF Waits
<1> HIDE DEF sn, whole, offset
<1>10. PICK l \in Nat : l = Len(whole) /\ \A k \in 1 .. l : whole[k] \in Units
  BY <1>9, LenProperties, ElementOfSeq DEF Pieces
<1>11. /\ left \in Pieces /\ Len(left) = l - offset /\ l - offset \in Nat /\ l - offset > 0
       /\ \A k \in 1 .. l - offset : left[k] = whole[offset + k]
  <2>1. offset + 1 \in Int /\ l \in Int /\ \A k \in offset + 1 .. l : whole[k] \in Units
    BY <1>9, <1>10
  <2>2. left \in Pieces /\ Len(left) = IF offset + 1 <= l THEN l - (offset + 1) + 1 ELSE 0
    BY <1>10, <2>1, SubSeqProperties DEF Pieces
  <2>3. \A k \in 1 .. l - (offset + 1) + 1 : left[k] = whole[(offset + 1) + k - 1]
    BY <1>10, <2>1, SubSeqProperties
  <2>4. Len(left) = l - offset /\ l - offset \in Nat /\ l - offset > 0
    BY <1>9, <1>10, <2>2
  <2>5. l - (offset + 1) + 1 = l - offset /\ \A k \in 1 .. l - offset : (offset + 1) + k - 1 = offset + k
    BY <1>9, <1>10
  <2>6. \A k \in 1 .. l - offset : left[k] = whole[offset + k]
    BY <2>3, <2>5
  <2> QED
    BY <2>2, <2>4, <2>6
<1>12. grant \in Nat /\ grant > 0
  <2>1. NSdus > 0
    <3>1. 1 \in 1 .. l
      BY <1>9, <1>10
    <3>2. whole[1] \in Units
      BY <1>10, <3>1
    <3> QED
      BY <3>2, AmConstants DEF Units
  <2>2. NSdus * SduUnits \in Nat /\ NSdus * SduUnits > 0
    BY <2>1, AmConstants
  <2> DEFINE all == NSdus * SduUnits  U == {n, all}
  <2>3. U \subseteq Nat /\ U # {} /\ \A y \in U : y > 0
    BY <2>2
  <2>4. grant = Min(U)
    OBVIOUS
  <2> HIDE DEF U
  <2>5. Min(U) \in U
    BY <2>3, MinOfNumbers
  <2> HIDE DEF grant
  <2> QED
    BY <2>3, <2>4, <2>5
<1> HIDE DEF left, grant
<1>13. PICK isLast \in BOOLEAN : isLast = fits
  <2>1. (Len(left) <= grant \/ bigEnough) \in BOOLEAN
    BY Zenon
  <2> QED
    BY <2>1, Zenon
<1>14. /\ bigEnough = TRUE => isLast = TRUE
       /\ isLast = FALSE => ~(Len(left) <= grant)
  BY <1>13, Zenon
<1>15. PICK polls \in BOOLEAN : polls = RetxPolls(sn)
  <2>1. RetxPolls(sn) \in BOOLEAN
    BY Zenon DEF RetxPolls
  <2> QED
    BY <2>1, Zenon
<1>16. PICK isSegment \in BOOLEAN : isSegment = (~fits \/ offset > 0)
  <2>1. (~fits \/ offset > 0) \in BOOLEAN
    BY Zenon
  <2> QED
    BY <2>1, Zenon
<1>17. isSegment = FALSE => isLast = TRUE /\ offset = 0
  <2>1. isSegment = FALSE => fits /\ ~(offset > 0)
    BY <1>16, Zenon
  <2>2. fits => isLast = TRUE
    BY <1>13, Zenon
  <2> QED
    BY <1>9, <2>1, <2>2
<1>18. units = IF isLast THEN left ELSE SubSeq(left, 1, grant)
  BY <1>13, Zenon
<1>19. /\ dataPdus' = Append(dataPdus, Pdu(sn, units, offset, isSegment, isLast, polls))
       /\ isLast \/ cuts < MaxCuts
       /\ cuts' = IF isLast THEN cuts ELSE cuts + 1
       /\ IF isLast
          THEN /\ txed' = [txed EXCEPT ![sn] = retx[sn]]
               /\ retx' = [retx EXCEPT ![sn] = <<>>]
               /\ retxSeg' = [retxSeg EXCEPT ![sn] = 0]
          ELSE /\ retxSeg' = [retxSeg EXCEPT ![sn] = offset + grant]
               /\ txed' = txed /\ retx' = retx
       /\ poll' = IF polls
                  THEN [sn |-> Plus(vtS, Modulus - 1), timer |-> TRUE, justExpired |-> FALSE]
                  ELSE poll
  <2> HIDE DEF units
  <2> QED
    BY <1>8, <1>13, <1>15, <1>16, Zenon
<1> HIDE DEF fits
<1>20. /\ units \in Pieces /\ Len(units) \in Nat /\ Len(units) > 0 /\ Len(units) <= l - offset
       /\ \A k \in 1 .. Len(units) : units[k] = whole[offset + k]
       /\ isLast = TRUE => Len(units) = l - offset
       /\ isLast = FALSE => Len(units) = grant /\ Len(units) < l - offset
  <2>1. CASE isLast = TRUE
    <3>1. units = left
      BY <1>18, <2>1
    <3> HIDE DEF units
    <3> QED
      BY <1>11, <2>1, <3>1
  <2>2. CASE isLast = FALSE
    <3>1. units = SubSeq(left, 1, grant)
      BY <1>18, <2>2
    <3>2. grant < l - offset
      BY <1>11, <1>12, <1>14, <2>2
    <3>3. \A k \in 1 .. l - offset : left[k] \in Units
      BY <1>9, <1>10, <1>11
    <3>4. \A k \in 1 .. grant : left[k] \in Units
      BY <1>11, <1>12, <3>2, <3>3
    <3>5. SubSeq(left, 1, grant) \in Pieces /\ Len(SubSeq(left, 1, grant)) = grant
      BY <1>12, <3>4, SubSeqProperties DEF Pieces
    <3>6. \A k \in 1 .. grant : SubSeq(left, 1, grant)[k] = left[k]
      BY <1>12, <3>4, SubSeqProperties
    <3> HIDE DEF units
    <3>7. \A k \in 1 .. grant : k \in 1 .. l - offset
      BY <1>11, <1>12, <3>2
    <3> QED
      BY <1>11, <1>12, <2>2, <3>1, <3>2, <3>5, <3>6, <3>7
  <2> QED
    BY <2>1, <2>2
<1> HIDE DEF units
<1>21. Resent(m, a, s, sent)
  <2> DEFINE pdu == Pdu(No(m), units, retxSeg[No(m)], isSegment, isLast, polls)
  <2>1. offset = retxSeg[No(m)] /\ whole = retx[No(m)]
    BY <1>5 DEF offset, whole
  <2>2. pdu \in DataPdus
    BY <1>9, <1>20, <2>1 DEF Pdu, DataPdus
  <2>3. PduIs(pdu, m, sent)
    <3>1. /\ pdu.sn = No(m) /\ pdu.units = units /\ pdu.offset = offset
          /\ pdu.last = isLast /\ pdu.segment = isSegment
      BY <2>1 DEF Pdu
    <3>2. /\ Len(sent[m]) = l /\ offset + Len(units) <= l /\ whole = sent[m]
          /\ isLast = TRUE => offset + Len(units) = l
      BY <1>9, <1>10, <1>20
    <3> HIDE DEF pdu
    <3> QED
      BY <1>17, <1>20, <3>1, <3>2 DEF PduIs
  <2>4. dataPdus' = Append(dataPdus, pdu)
    BY <1>5, <1>19, <2>1
  <2>5. cuts' \in 0 .. MaxCuts
    BY <1>19, AmConstants, RlcAmAssumption DEF BetweenTypes
  <2>6. IF isLast
        THEN /\ txed' = [txed EXCEPT ![No(m)] = retx[No(m)]]
             /\ retx' = [retx EXCEPT ![No(m)] = <<>>]
             /\ retxSeg' = [retxSeg EXCEPT ![No(m)] = 0]
        ELSE /\ retxSeg' = [retxSeg EXCEPT ![No(m)] = retxSeg[No(m)] + Len(units)]
             /\ retxSeg[No(m)] + Len(units) < Len(sent[m])
             /\ txed' = txed /\ retx' = retx
    <3>1. CASE isLast = TRUE
      BY <1>5, <1>19, <3>1
    <3>2. CASE isLast = FALSE
      <4>1. Len(units) = grant /\ offset + Len(units) < l /\ l = Len(sent[m])
        BY <1>9, <1>10, <1>20, <3>2
      <4> QED
        BY <1>5, <1>19, <2>1, <3>2, <4>1
    <3> QED
      BY <3>1, <3>2
  <2>7. polls = RetxPolls(No(m))
    BY <1>5, <1>15
  <2> HIDE DEF pdu
  <2>8. poll' = IF polls
                THEN [sn |-> Plus(vtS, Modulus - 1), timer |-> TRUE, justExpired |-> FALSE]
                ELSE poll
    BY <1>19
  <2>9. txon' = txon /\ vtS' = vtS
    BY <1>8
  <2> QED
    BY <1>14, <1>20, <2>2, <2>3, <2>4, <2>5, <2>6, <2>7, <2>8, <2>9, Zenon DEF Resent, pdu
<1> QED
  BY <1>5, <1>6, <1>7, <1>21

\* What an action leaves alone stays as it was.
LEMMA SenderRests ==
  ASSUME SenderTypes, NEW sent, NEW a, NEW s, SenderHas(sent, a, s),
         bigEnough = TRUE => Watch(a, s), sender' = sender
  PROVE  SenderTypes' /\ SenderHas(sent, a, s)' /\ (bigEnough' = TRUE => Watch(a, s)')
<1>1. /\ txon' = txon /\ txed' = txed /\ retx' = retx /\ retxSeg' = retxSeg /\ vtA' = vtA /\ vtS' = vtS
      /\ poll' = poll /\ rbsTimer' = rbsTimer /\ report' = report /\ bigEnough' = bigEnough
  BY DEF sender
<1>2. SenderTypes'
  BY <1>1 DEF SenderTypes
<1>3. SenderHas(sent, a, s)'
  BY <1>1 DEF SenderHas
<1>4. Watch(a, s)' = Watch(a, s)
  BY <1>1 DEF Watch
<1> QED
  BY <1>1, <1>2, <1>3, <1>4

LEMMA ReceiverRests ==
  ASSUME ReceiverTypes, NEW sent, NEW r, NEW ms, NEW h, NEW x, NEW s \in Nat,
         ReceiverHas(sent, r, ms, h, x, s), receiver' = receiver,
         NEW sent2, NEW s2 \in Nat, s <= s2, Extends(sent2, sent, s)
  PROVE  ReceiverTypes' /\ ReceiverHas(sent2, r, ms, h, x, s2)' /\ rxon' = rxon /\ reassembly' = reassembly
<1>1. /\ rxon' = rxon /\ vr' = vr /\ reorderingTimer' = reorderingTimer /\ status' = status
      /\ reassembly' = reassembly
  BY DEF receiver
<1>2. ReceiverTypes'
  BY <1>1 DEF ReceiverTypes
<1>3. ReceiverIs(rxon, sent2, r, ms, h, s2)
  <2>1. ReceiverIs(rxon, sent, r, ms, h, s) /\ h \in Nat /\ r \in Nat
    BY DEF ReceiverHas
  <2>2. h <= s /\ h <= s2
    BY <2>1 DEF ReceiverIs
  <2>3. \A n \in Nat : n < h => sent2[n] = sent[n]
    BY <2>1, <2>2 DEF Extends
  <2>4. HeldIs(rxon, sent2, r, h)
    BY <2>1, <2>3 DEF ReceiverIs, HeldIs
  <2> QED
    BY <2>1, <2>2, <2>4 DEF ReceiverIs
<1>4. ReceiverHas(sent2, r, ms, h, x, s2)'
  BY <1>1, <1>3 DEF ReceiverHas
<1> QED
  BY <1>1, <1>2, <1>4

LEMMA DataRests ==
  ASSUME NEW num, NEW sent, NEW s, NEW h, DataHas(num, sent, s, h), dataPdus' = dataPdus
  PROVE  DataHas(num, sent, s, h)'
BY DEF DataHas

LEMMA StatusRests ==
  ASSUME statusPdus \in Seq(StatusPdus), NEW low, NEW ack, NEW nack, NEW r \in Nat, NEW h, NEW s \in Nat,
         NEW a \in Nat, StatusHas(low, ack, nack, r, h, s, a), statusPdus' = statusPdus, rxon' = rxon,
         NEW s2 \in Nat, s <= s2,
         Gone(txed, retx, a, s2)' \subseteq Gone(txed, retx, a, s), a \notin Gone(txed, retx, a, s2)'
  PROVE  StatusHas(low, ack, nack, r, h, s2, a)'
<1> DEFINE have == Have(rxon, r, h)  gone == Gone(txed, retx, a, s)  gone2 == Gone(txed, retx, a, s2)'
<1>1. QueueOf(statusPdus, StatusPdus)
  BY QueueHasElements
<1>2. /\ Counting(low) /\ Counting(ack) /\ Naming(nack) /\ a <= r
      /\ AcksAre(statusPdus, low, ack, nack, r, s, a)
      /\ BeliefsAre(Len(statusPdus), ack, nack, have, gone)
  BY DEF StatusHas
<1>3. AcksAre(statusPdus, low, ack, nack, r, s2, a)
  BY <1>1, <1>2, AcksGrow
<1>4. BeliefsAre(Len(statusPdus), ack, nack, have, gone2)
  <2> HIDE DEF have, gone, gone2
  <2>1. have \subseteq have /\ gone2 \subseteq gone
    BY DEF gone, gone2
  <2> QED
    BY <1>2, <2>1, BeliefsGrow
<1> QED
  BY <1>2, <1>3, <1>4 DEF StatusHas

\* A PDU is not let go of by being moved from one buffer to the other.
LEMMA GoneStays ==
  ASSUME NEW a, NEW s, NEW te, NEW re, NEW te2, NEW re2,
         \A n \in Nat : a <= n /\ n < s /\ te2[No(n)] = <<>> /\ re2[No(n)] = <<>> =>
                          te[No(n)] = <<>> /\ re[No(n)] = <<>>
  PROVE  Gone(te2, re2, a, s) \subseteq Gone(te, re, a, s)
BY DEF Gone

LEMMA SduHolds ==
  ASSUME AmTypes, NEW sent, NEW a, NEW s, NEW r, NEW ms, NEW h, NEW x, NEW num, NEW low, NEW ack, NEW nack,
         Holds(sent, a, s, r, ms, h, x, num, low, ack, nack), DoTransmitPdcpPdu
  PROVE  AmTypes' /\ Holds(sent, a, s, r, ms, h, x, num, low, ack, nack)'
<1>1. /\ SenderHas(sent, a, s) /\ ReceiverHas(sent, r, ms, h, x, s)
      /\ DataHas(num, sent, s, h) /\ StatusHas(low, ack, nack, r, h, s, a)
      /\ bigEnough = TRUE => Watch(a, s)
  BY DEF Holds
<1>2. SenderTypes /\ ReceiverTypes /\ BetweenTypes /\ HistoryTypes
  BY DEF AmTypes
<1>3. /\ txed' = txed /\ retx' = retx /\ retxSeg' = retxSeg /\ vtA' = vtA /\ vtS' = vtS /\ poll' = poll
      /\ bigEnough' = bigEnough /\ receiver' = receiver
      /\ dataPdus' = dataPdus /\ statusPdus' = statusPdus /\ losses' = losses /\ cuts' = cuts
  BY DEF DoTransmitPdcpPdu, between
<1>4. txon' \in Pieces /\ Len(txon') <= MaxTxBuffer /\ HistoryTypes' /\ (txon # <<>> => txon' # <<>>)
  BY <1>2, SduIsHandedIn DEF SenderTypes
<1>5. report' \in BOOLEAN /\ rbsTimer' \in BOOLEAN
  <2>1. (report \/ txon' # <<>> \/ RetxPending) \in BOOLEAN
    BY Zenon
  <2> QED
    BY <2>1, Zenon DEF DoTransmitPdcpPdu
<1>6. SenderTypes'
  BY <1>2, <1>3, <1>4, <1>5 DEF SenderTypes
<1>7. SenderHas(sent, a, s)' /\ a \in Nat /\ s \in Nat
  BY <1>1, <1>3 DEF SenderHas
<1>8. bigEnough' = TRUE => Watch(a, s)'
  BY <1>1, <1>3, <1>4 DEF Watch
<1>9. ReceiverTypes' /\ ReceiverHas(sent, r, ms, h, x, s)' /\ rxon' = rxon /\ r \in Nat
  <2>1. Extends(sent, sent, s)
    BY DEF Extends
  <2>2. r \in Nat
    BY <1>1 DEF ReceiverHas
  <2> QED
    BY <1>1, <1>2, <1>3, <1>7, <2>1, <2>2, ReceiverRests
<1>10. DataHas(num, sent, s, h)'
  BY <1>1, <1>3, DataRests
<1>11. StatusHas(low, ack, nack, r, h, s, a)'
  BY <1>1, <1>3, <1>9 DEF StatusHas
<1>12. BetweenTypes'
  BY <1>2, <1>3 DEF BetweenTypes
<1> QED
  BY <1>4, <1>6, <1>7, <1>8, <1>9, <1>10, <1>11, <1>12 DEF AmTypes, Holds

\* POLL_SN is the number of the last PDU that was sent.
PollSn(next, s) == Plus(next, Modulus - 1) = No(s + Modulus - 1) /\ Plus(next, Modulus - 1) \in SNs

LEMMA PollSnIs ==
  ASSUME NEW s, s \in Nat
  PROVE  \A next : next = No(s) => PollSn(next, s)
<1>1. PICK k \in Nat : k = Modulus - 1
  BY AmConstants
<1>2. Plus(No(s), k) = No(s + k) /\ s + k \in Nat
  BY <1>1, SumOfNumbers
<1>3. No(s + k) \in SNs
  BY <1>2, SumOfNumbers
<1>4. s + k = s + Modulus - 1
  BY <1>1, AmConstants
<1> QED
  BY <1>1, <1>2, <1>3, <1>4 DEF PollSn

\* DoNotifyTxOpportunity with a new PDU.
LEMMA NewPduHolds ==
  ASSUME AmTypes, NEW sent, NEW a, NEW s, NEW r, NEW ms, NEW h, NEW x, NEW num, NEW low, NEW ack, NEW nack,
         Holds(sent, a, s, r, ms, h, x, num, low, ack, nack),
         NEW n \in Nat, n > 0, txon # <<>>, ~Stalled, TransmitNew(Min({n, Len(txon)})), report' \in BOOLEAN,
         UNCHANGED <<vtA, rbsTimer, bigEnough, receiver, statusPdus, losses, cuts, accepted, offered>>
  PROVE  /\ AmTypes'
         /\ \E m \in 1 .. Len(txon) : \E num2, sent2 :
              /\ sent2 = [sent EXCEPT ![s] = SubSeq(txon, 1, m)]
              /\ txon' = SubSeq(txon, m + 1, Len(txon))
              /\ Holds(sent2, a, s + 1, r, ms, h, x, num2, low, ack, nack)'
<1>1. /\ SenderHas(sent, a, s) /\ ReceiverHas(sent, r, ms, h, x, s)
      /\ DataHas(num, sent, s, h) /\ StatusHas(low, ack, nack, r, h, s, a)
      /\ bigEnough = TRUE => Watch(a, s)
  BY DEF Holds
<1>2. SenderTypes /\ ReceiverTypes /\ BetweenTypes /\ HistoryTypes
  BY DEF AmTypes
<1>3. /\ vtA' = vtA /\ rbsTimer' = rbsTimer /\ bigEnough' = bigEnough /\ receiver' = receiver
      /\ statusPdus' = statusPdus /\ losses' = losses /\ cuts' = cuts
      /\ accepted' = accepted /\ offered' = offered
  OBVIOUS
<1>4. PICK m \in 1 .. Len(txon) : \E units \in Pieces :
           /\ units = SubSeq(txon, 1, m) /\ Len(units) = m
           /\ txon' = SubSeq(txon, m + 1, Len(txon))
           /\ txon' \in Pieces /\ Len(txon') = Len(txon) - m
           /\ vtS' = Plus(vtS, 1) /\ txed' = [txed EXCEPT ![vtS] = units]
           /\ dataPdus' = Append(dataPdus, Pdu(vtS, units, 0, FALSE, TRUE, TRUE))
           /\ poll' = [sn |-> Plus(vtS', Modulus - 1), timer |-> TRUE, justExpired |-> FALSE]
           /\ retx' = retx /\ retxSeg' = retxSeg
  <2>1. txon \in Pieces
    BY <1>2 DEF SenderTypes
  <2> QED
    BY <2>1, NewPduIsCut
<1>5. PICK units \in Pieces :
           /\ units = SubSeq(txon, 1, m) /\ Len(units) = m
           /\ txon' = SubSeq(txon, m + 1, Len(txon))
           /\ txon' \in Pieces /\ Len(txon') = Len(txon) - m
           /\ vtS' = Plus(vtS, 1) /\ txed' = [txed EXCEPT ![vtS] = units]
           /\ dataPdus' = Append(dataPdus, Pdu(vtS, units, 0, FALSE, TRUE, TRUE))
           /\ poll' = [sn |-> Plus(vtS', Modulus - 1), timer |-> TRUE, justExpired |-> FALSE]
           /\ retx' = retx /\ retxSeg' = retxSeg
  BY <1>4
<1>6. /\ Sent(sent) /\ a \in Nat /\ s \in Nat /\ vtA = No(a) /\ vtS = No(s) /\ No(s) \in SNs
      /\ SenderIs(txed, retx, retxSeg, sent, a, s) /\ a <= s /\ s <= a + Window
  BY <1>1, SumOfNumbers DEF SenderHas, SenderIs
<1>7. s < a + Window /\ Window \in Nat /\ Modulus = Window + Window /\ Window > 0
  <2>1. s < a + Modulus /\ Window \in Nat /\ Modulus = Window + Window /\ Window > 0
    BY <1>6, AmConstants
  <2>2. Dist(vtS, vtA) = s - a
    BY <1>6, <2>1, DistanceOfNumbers
  <2>3. s - a < Window
    BY <1>6, <2>1, <2>2 DEF Stalled
  <2> QED
    BY <1>6, <2>1, <2>3
<1>8. m \in Nat /\ m > 0 /\ Len(txon) \in Nat /\ m <= Len(txon) /\ units # <<>>
  <2>1. Len(txon) \in Nat
    BY <1>2, LenProperties DEF SenderTypes, Pieces
  <2>2. units # <<>>
    BY <1>5, EmptySeq DEF Pieces
  <2> QED
    BY <2>1, <2>2
<1>9. PICK sent2 : sent2 = [sent EXCEPT ![s] = units]
  OBVIOUS
<1>10. Sent(sent2) /\ sent2[s] = units /\ \A q \in Nat : q # s => sent2[q] = sent[q]
  BY <1>6, <1>9 DEF Sent
<1>11. Extends(sent2, sent, s)
  BY <1>6, <1>10 DEF Extends
<1>12. PICK pdu \in DataPdus : pdu = Pdu(No(s), units, 0, FALSE, TRUE, TRUE)
  BY <1>6 DEF Pdu, DataPdus
<1>13. PduIs(pdu, s, sent2) /\ pdu.overtaken = FALSE
  BY <1>5, <1>8, <1>10, <1>12 DEF Pdu, PduIs
<1>14. dataPdus' \in Seq(DataPdus) /\ Joined(dataPdus', dataPdus, pdu)
  BY <1>2, <1>5, <1>6, <1>12, LastJoins DEF BetweenTypes
<1>15. PICK num2 : num2 = [num EXCEPT ![Len(dataPdus) + 1] = s]
  OBVIOUS
<1>16. QueueOf(dataPdus, DataPdus) /\ Counting(num) /\ Counting(num2)
  <2>1. QueueOf(dataPdus, DataPdus)
    BY <1>2, QueueHasElements DEF BetweenTypes
  <2>2. Counting(num) /\ Counting(num2)
    BY <1>1, <1>6, <1>15 DEF DataHas, Counting
  <2> QED
    BY <2>1, <2>2
<1>17. h \in Nat /\ h <= s /\ r \in Nat
  BY <1>1 DEF ReceiverHas, ReceiverIs
<1>18. DataIs(dataPdus', num2, sent2, s + 1, h)
  <2>1. DataIs(dataPdus, num, sent, s, h)
    BY <1>1 DEF DataHas
  <2>2. s + 1 \in Nat
    BY <1>6
  <2> QED
    BY <1>6, <1>11, <1>13, <1>14, <1>15, <1>16, <1>17, <2>1, <2>2, PduJoins
<1>19. /\ txed' \in Buffers /\ txed'[No(s)] = units
       /\ \A sn \in SNs : sn # No(s) => txed'[sn] = txed[sn]
  BY <1>2, <1>5, <1>6 DEF SenderTypes, Buffers
<1>20. SenderIs(txed', retx', retxSeg', sent2, a, s + 1)
  <2>1. Idle(txed, retx, retxSeg, No(s))
    <3>1. s < a + Modulus
      BY <1>6, <1>7
    <3> QED
      BY <1>6, <3>1 DEF SenderIs
  <2>2. Waits(txed', retx', retxSeg', sent2[s], No(s))
    BY <1>5, <1>10, <1>19, <2>1 DEF Waits, Idle
  <2>3. OnlyAt(s, txed, retx, retxSeg, txed', retx', retxSeg')
    BY <1>5, <1>19 DEF OnlyAt
  <2>4. OthersAsSent(s, sent, sent2, s)
    BY <1>10 DEF OthersAsSent
  <2>5. s + 1 <= a + Window /\ s < s + 1
    BY <1>6, <1>7
  <2> HIDE DEF Waits
  <2> QED
    BY <1>6, <2>2, <2>3, <2>4, <2>5, SenderAtOne
<1>21. vtS' = No(s + 1) /\ No(s + 1) \in SNs
  <2>1. s + 1 \in Nat /\ 1 \in Nat
    BY <1>6
  <2>2. Plus(No(s), 1) = No(s + 1)
    BY <1>6, <2>1, SumOfNumbers
  <2>3. No(s + 1) \in SNs
    BY <2>1, SumOfNumbers
  <2> QED
    BY <1>5, <1>6, <2>2, <2>3
<1>22. SenderHas(sent2, a, s + 1)'
  BY <1>3, <1>6, <1>10, <1>20, <1>21 DEF SenderHas
<1>23. poll' \in Polls /\ poll'.timer = TRUE /\ poll'.sn = No((s + 1) + Modulus - 1)
  <2>1. PollSn(vtS', s + 1)
    <3>1. s + 1 \in Nat
      BY <1>6
    <3> QED
      BY <1>21, <3>1, PollSnIs
  <2> QED
    BY <1>5, <2>1 DEF Polls, PollSn
<1>24. SenderTypes'
  <2>1. Len(txon') <= MaxTxBuffer
    BY <1>2, <1>5, <1>8, AmConstants DEF SenderTypes
  <2> QED
    BY <1>2, <1>3, <1>5, <1>19, <1>21, <1>23, <2>1 DEF SenderTypes
<1>25. bigEnough' = TRUE => Watch(a, s + 1)'
  <2>1. Asked(poll', s + 1) /\ poll'.justExpired = FALSE
    BY <1>5, <1>23 DEF Asked
  <2> QED
    BY <1>1, <1>3, <1>5, <2>1 DEF Watch
<1>26. ReceiverTypes' /\ ReceiverHas(sent2, r, ms, h, x, s + 1)' /\ rxon' = rxon
  <2>1. s + 1 \in Nat /\ s <= s + 1
    BY <1>6
  <2> QED
    BY <1>1, <1>2, <1>3, <1>6, <1>11, <2>1, ReceiverRests
<1>27. StatusHas(low, ack, nack, r, h, s + 1, a)'
  <2>1. Gone(txed, retx, a, s + 1)' \subseteq Gone(txed, retx, a, s)
    <3>1. ASSUME NEW q \in Nat, a <= q, q < s + 1, txed'[No(q)] = <<>>, retx'[No(q)] = <<>>
          PROVE  q < s /\ txed[No(q)] = <<>> /\ retx[No(q)] = <<>>
      <4>1. q # s
        BY <1>8, <1>19, <3>1
      <4>2. q < s /\ q < a + Modulus /\ s < a + Modulus
        BY <1>6, <1>7, <3>1, <4>1
      <4>3. No(q) # No(s) /\ No(q) \in SNs
        BY <1>6, <3>1, <4>1, <4>2, OtherNumber
      <4> QED
        BY <1>5, <1>19, <3>1, <4>2, <4>3
    <3> QED
      BY <3>1 DEF Gone
  <2>2. a \notin Gone(txed, retx, a, s + 1)'
    <3>1. CASE a = s
      BY <1>8, <1>19, <3>1 DEF Gone
    <3>2. CASE a # s
      <4>1. a \notin Gone(txed, retx, a, s)
        BY <1>1 DEF StatusHas
      <4> QED
        BY <2>1, <4>1
    <3> QED
      BY <3>1, <3>2
  <2>3. s + 1 \in Nat /\ s <= s + 1 /\ statusPdus \in Seq(StatusPdus)
    BY <1>2, <1>6 DEF BetweenTypes
  <2> QED
    BY <1>1, <1>3, <1>6, <1>17, <1>26, <2>1, <2>2, <2>3, StatusRests
<1>28. DataHas(num2, sent2, s + 1, h)'
  BY <1>16, <1>18 DEF DataHas
<1>29. BetweenTypes' /\ HistoryTypes'
  BY <1>2, <1>3, <1>14 DEF BetweenTypes, HistoryTypes
<1>30. Holds(sent2, a, s + 1, r, ms, h, x, num2, low, ack, nack)'
  BY <1>22, <1>25, <1>26, <1>27, <1>28 DEF Holds
<1>31. AmTypes'
  BY <1>24, <1>26, <1>29 DEF AmTypes
<1> QED
  BY <1>5, <1>9, <1>30, <1>31

\* VT(S) is less than a window beyond VT(A) unless the window is full.
LEMMA StalledIs ==
  ASSUME NEW sent, NEW a, NEW s, SenderHas(sent, a, s)
  PROVE  ~Stalled <=> s < a + Window
<1>1. /\ a \in Nat /\ s \in Nat /\ vtA = No(a) /\ vtS = No(s) /\ a <= s /\ s <= a + Window
      /\ Modulus \in Nat /\ Modulus = Window + Window /\ Window \in Nat /\ Window > 0
  BY AmConstants DEF SenderHas, SenderIs
<1>2. s < a + Modulus
  BY <1>1
<1>3. Dist(vtS, vtA) = s - a
  BY <1>1, <1>2, DistanceOfNumbers
<1> QED
  BY <1>1, <1>3 DEF Stalled

\* Only a PDU between VT(A) and VT(S) waits to be sent again.
LEMMA PendingFound ==
  ASSUME NEW sent, NEW a, NEW s, SenderHas(sent, a, s), NEW other \in SNs, retx[other] # <<>>
  PROVE  \E q \in Nat : a <= q /\ q < s /\ No(q) = other
<1>1. a \in Nat /\ s \in Nat /\ SenderIs(txed, retx, retxSeg, sent, a, s)
  BY DEF SenderHas
<1>2. PICK q \in Nat : a <= q /\ q < a + Modulus /\ No(q) = other
  BY <1>1, NumberFound
<1>3. CASE ~(q < s)
  <2>1. Idle(txed, retx, retxSeg, No(q))
    BY <1>1, <1>2, <1>3 DEF SenderIs
  <2> QED
    BY <1>2, <2>1 DEF Idle
<1> QED
  BY <1>2, <1>3

LEMMA WatchAfterRetx ==
  ASSUME SenderTypes, NEW sent, NEW a, NEW s, SenderHas(sent, a, s), bigEnough = TRUE, Watch(a, s),
         NEW m \in Nat, a <= m, m < s, retx[No(m)] # <<>>,
         \A q \in Nat : a <= q /\ q < m => retx[No(q)] = <<>>, Resent(m, a, s, sent)
  PROVE  Watch(a, s)'
<1>1. /\ a \in Nat /\ s \in Nat /\ vtS = No(s) /\ a <= s /\ s <= a + Window
      /\ Modulus \in Nat /\ Modulus = Window + Window /\ Window \in Nat /\ Window > 0 /\ s < a + Modulus
  BY AmConstants DEF SenderHas, SenderIs
<1>2. PICK polls \in BOOLEAN :
        /\ polls = RetxPolls(No(m))
        /\ poll' = IF polls
                   THEN [sn |-> Plus(vtS, Modulus - 1), timer |-> TRUE, justExpired |-> FALSE]
                   ELSE poll
        /\ txed' = [txed EXCEPT ![No(m)] = retx[No(m)]]
        /\ retx' = [retx EXCEPT ![No(m)] = <<>>]
        /\ retxSeg' = [retxSeg EXCEPT ![No(m)] = 0]
        /\ txon' = txon
  BY DEF Resent
<1>3. No(m) \in SNs /\ retxSeg[No(m)] = 0 /\ \A sn \in SNs : retxSeg'[sn] = 0
  BY <1>2, SumOfNumbers DEF Watch, SenderTypes
<1>4. \A q \in Nat : a <= q /\ q < s /\ q # m =>
        No(q) \in SNs /\ txed'[No(q)] = txed[No(q)] /\ retx'[No(q)] = retx[No(q)]
  <2> SUFFICES ASSUME NEW q \in Nat, a <= q, q < s, q # m
               PROVE  No(q) \in SNs /\ txed'[No(q)] = txed[No(q)] /\ retx'[No(q)] = retx[No(q)]
    OBVIOUS
  <2>1. q < a + Modulus /\ m < a + Modulus
    BY <1>1
  <2>2. No(q) \in SNs /\ No(q) # No(m)
    BY <1>1, <2>1, OtherNumber
  <2> QED
    BY <1>2, <2>2 DEF SenderTypes, Buffers
<1>5. poll'.justExpired = TRUE => s < a + Window
  <2>1. CASE polls = TRUE
    BY <1>2, <2>1
  <2>2. CASE polls = FALSE
    <3>1. ~Stalled
      BY <1>2, <2>2, Zenon DEF RetxPolls
    <3> QED
      BY <3>1, StalledIs
  <2> QED
    BY <2>1, <2>2
<1>6. SUFFICES ASSUME a < s
               PROVE  \/ Asked(poll', s)
                      \/ poll'.justExpired = TRUE
                      \/ txon' # <<>> /\ s < a + Window
                      \/ \E q \in Nat : NoneBehind(txed', retx', q, a, s)
  BY <1>3, <1>5 DEF Watch
<1>7. CASE polls = TRUE
  <2>1. PollSn(vtS, s)
    BY <1>1, PollSnIs
  <2>2. Asked(poll', s)
    BY <1>2, <1>7, <2>1 DEF PollSn, Asked
  <2> QED
    BY <2>2
<1>8. CASE polls = FALSE
  <2>1. poll' = poll
    BY <1>2, <1>8
  <2>2. ~RetxPolls(No(m))
    BY <1>2, <1>8, Zenon
  <2>3. ~Stalled /\ ~poll.justExpired
        /\ ~(txon = <<>> /\ retxSeg[No(m)] = 0 /\ \A other \in SNs \ {No(m)} : retx[other] = <<>>)
    BY <2>2, Zenon DEF RetxPolls
  <2>4. poll.justExpired # TRUE
    BY <2>3, Zenon
  <2>5. s < a + Window
    BY <2>3, StalledIs
  <2>6. CASE Asked(poll, s) \/ txon # <<>>
    BY <1>2, <2>1, <2>5, <2>6
  <2>7. ASSUME NEW k \in Nat, NoneBehind(txed, retx, k, a, s), k # m
        PROVE  NoneBehind(txed', retx', k, a, s)
    <3>1. a <= k /\ k < s /\ retx[No(k)] # <<>> /\ \A q \in Nat : k < q /\ q < s => txed[No(q)] = <<>>
      BY <2>7 DEF NoneBehind
    <3>2. m < k
      BY <2>7, <3>1
    <3>3. retx'[No(k)] # <<>>
      BY <1>4, <2>7, <3>1
    <3>4. \A q \in Nat : k < q /\ q < s => txed'[No(q)] = <<>>
      BY <1>1, <1>4, <3>1, <3>2
    <3> QED
      BY <3>1, <3>3, <3>4 DEF NoneBehind
  <2>8. ASSUME txon = <<>>, NoneBehind(txed, retx, m, a, s)
        PROVE  \E k \in Nat : NoneBehind(txed, retx, k, a, s) /\ k # m
    <3>1. PICK other \in SNs : other # No(m) /\ retx[other] # <<>>
      BY <1>3, <2>3, <2>8
    <3>2. PICK k \in Nat : a <= k /\ k < s /\ No(k) = other
      BY <3>1, PendingFound
    <3>3. m < k
      <4>1. k # m /\ ~(k < m)
        BY <3>1, <3>2
      <4> QED
        BY <4>1
    <3>4. \A q \in Nat : k < q /\ q < s => txed[No(q)] = <<>>
      BY <2>8, <3>2, <3>3 DEF NoneBehind
    <3> QED
      BY <3>1, <3>2, <3>3, <3>4 DEF NoneBehind
  <2>9. CASE txon = <<>> /\ \E k \in Nat : NoneBehind(txed, retx, k, a, s)
    BY <2>7, <2>8, <2>9
  <2> QED
    BY <1>6, <2>4, <2>6, <2>9 DEF Watch
<1> QED
  BY <1>7, <1>8

\* DoNotifyTxOpportunity with a PDU to be sent again.
LEMMA RetxHolds ==
  ASSUME AmTypes, NEW sent, NEW a, NEW s, NEW r, NEW ms, NEW h, NEW x, NEW num, NEW low, NEW ack, NEW nack,
         Holds(sent, a, s, r, ms, h, x, num, low, ack, nack),
         NEW n \in Nat, n > 0, RetxPending, Retransmit(Min({n, NSdus * SduUnits})), report' \in BOOLEAN,
         UNCHANGED <<vtA, rbsTimer, bigEnough, receiver, statusPdus, losses, accepted, offered>>
  PROVE  /\ AmTypes' /\ txon' = txon
         /\ \E num2 : Holds(sent, a, s, r, ms, h, x, num2, low, ack, nack)'
<1>1. /\ SenderHas(sent, a, s) /\ ReceiverHas(sent, r, ms, h, x, s)
      /\ DataHas(num, sent, s, h) /\ StatusHas(low, ack, nack, r, h, s, a)
      /\ bigEnough = TRUE => Watch(a, s)
  BY DEF Holds
<1>2. SenderTypes /\ ReceiverTypes /\ BetweenTypes /\ HistoryTypes
  BY DEF AmTypes
<1>3. /\ vtA' = vtA /\ rbsTimer' = rbsTimer /\ bigEnough' = bigEnough /\ receiver' = receiver
      /\ statusPdus' = statusPdus /\ losses' = losses /\ accepted' = accepted /\ offered' = offered
  OBVIOUS
<1>4. PICK m \in Nat :
        /\ a <= m /\ m < s /\ retx[No(m)] # <<>>
        /\ \A q \in Nat : a <= q /\ q < m => retx[No(q)] = <<>>
        /\ Resent(m, a, s, sent)
  BY <1>1, <1>2, FirstIsResent
<1>5. PICK units \in Pieces : \E polls \in BOOLEAN : \E isSegment \in BOOLEAN : \E isLast \in BOOLEAN :
    LET pdu == Pdu(No(m), units, retxSeg[No(m)], isSegment, isLast, polls) IN
    /\ pdu \in DataPdus /\ PduIs(pdu, m, sent) /\ dataPdus' = Append(dataPdus, pdu)
    /\ poll' = IF polls
               THEN [sn |-> Plus(vtS, Modulus - 1), timer |-> TRUE, justExpired |-> FALSE]
               ELSE poll
    /\ IF isLast
       THEN /\ txed' = [txed EXCEPT ![No(m)] = retx[No(m)]]
            /\ retx' = [retx EXCEPT ![No(m)] = <<>>]
            /\ retxSeg' = [retxSeg EXCEPT ![No(m)] = 0]
       ELSE /\ retxSeg' = [retxSeg EXCEPT ![No(m)] = retxSeg[No(m)] + Len(units)]
            /\ retxSeg[No(m)] + Len(units) < Len(sent[m])
            /\ txed' = txed /\ retx' = retx
    /\ cuts' \in 0 .. MaxCuts /\ txon' = txon /\ vtS' = vtS
  BY <1>4 DEF Resent
<1>6. PICK polls \in BOOLEAN, isSegment \in BOOLEAN, isLast \in BOOLEAN :
    LET pdu == Pdu(No(m), units, retxSeg[No(m)], isSegment, isLast, polls) IN
    /\ pdu \in DataPdus /\ PduIs(pdu, m, sent) /\ dataPdus' = Append(dataPdus, pdu)
    /\ poll' = IF polls
               THEN [sn |-> Plus(vtS, Modulus - 1), timer |-> TRUE, justExpired |-> FALSE]
               ELSE poll
    /\ IF isLast
       THEN /\ txed' = [txed EXCEPT ![No(m)] = retx[No(m)]]
            /\ retx' = [retx EXCEPT ![No(m)] = <<>>]
            /\ retxSeg' = [retxSeg EXCEPT ![No(m)] = 0]
       ELSE /\ retxSeg' = [retxSeg EXCEPT ![No(m)] = retxSeg[No(m)] + Len(units)]
            /\ retxSeg[No(m)] + Len(units) < Len(sent[m])
            /\ txed' = txed /\ retx' = retx
    /\ cuts' \in 0 .. MaxCuts /\ txon' = txon /\ vtS' = vtS
  BY <1>5
<1>7. PICK pdu \in DataPdus :
        /\ PduIs(pdu, m, sent) /\ dataPdus' = Append(dataPdus, pdu) /\ pdu.overtaken = FALSE
  <2> DEFINE pdu == Pdu(No(m), units, retxSeg[No(m)], isSegment, isLast, polls)
  <2>1. pdu.overtaken = FALSE
    BY DEF Pdu
  <2>2. pdu \in DataPdus /\ PduIs(pdu, m, sent) /\ dataPdus' = Append(dataPdus, pdu)
    BY <1>6
  <2> HIDE DEF pdu
  <2> QED
    BY <2>1, <2>2
<1>8. /\ Sent(sent) /\ a \in Nat /\ s \in Nat /\ vtA = No(a) /\ vtS = No(s) /\ No(m) \in SNs
      /\ SenderIs(txed, retx, retxSeg, sent, a, s) /\ a <= s /\ s <= a + Window
      /\ Modulus = Window + Window /\ Window \in Nat /\ Window > 0
  BY <1>1, SumOfNumbers, AmConstants DEF SenderHas, SenderIs
<1>9. Waits(txed, retx, retxSeg, sent[m], No(m))
  BY <1>4, <1>8 DEF SenderIs
<1>10. Len(units) \in Nat
  BY LenProperties DEF Pieces
<1>11. /\ txed' \in Buffers /\ retx' \in Buffers /\ retxSeg' \in [SNs -> Nat]
       /\ OnlyAt(m, txed, retx, retxSeg, txed', retx', retxSeg')
       /\ Waits(txed', retx', retxSeg', sent[m], No(m))
       /\ txed'[No(m)] # <<>> \/ retx'[No(m)] # <<>>
  <2>1. txed \in [SNs -> Pieces] /\ retx \in [SNs -> Pieces] /\ retxSeg \in [SNs -> Nat] /\ retx[No(m)] \in Pieces
    BY <1>2, <1>8 DEF SenderTypes, Buffers
  <2>2. CASE isLast = TRUE
    <3>1. /\ txed' = [txed EXCEPT ![No(m)] = retx[No(m)]]
          /\ retx' = [retx EXCEPT ![No(m)] = <<>>]
          /\ retxSeg' = [retxSeg EXCEPT ![No(m)] = 0]
      BY <1>6, <2>2
    <3>2. <<>> \in Pieces
      BY EmptySeq DEF Pieces
    <3>3. txed' \in [SNs -> Pieces] /\ retx' \in [SNs -> Pieces] /\ retxSeg' \in [SNs -> Nat]
      BY <2>1, <3>1, <3>2
    <3>4. txed'[No(m)] = retx[No(m)] /\ retx'[No(m)] = <<>> /\ retxSeg'[No(m)] = 0
      BY <1>8, <2>1, <3>1
    <3>5. OnlyAt(m, txed, retx, retxSeg, txed', retx', retxSeg')
      BY <2>1, <3>1 DEF OnlyAt
    <3> QED
      BY <1>4, <1>9, <3>3, <3>4, <3>5 DEF Waits, Buffers
  <2>3. CASE isLast = FALSE
    <3>1. /\ txed' = txed /\ retx' = retx
          /\ retxSeg' = [retxSeg EXCEPT ![No(m)] = retxSeg[No(m)] + Len(units)]
          /\ retxSeg[No(m)] + Len(units) < Len(sent[m])
      BY <1>6, <2>3
    <3>2. retxSeg[No(m)] + Len(units) \in Nat
      BY <1>8, <1>10, <2>1
    <3>3. retxSeg' \in [SNs -> Nat] /\ retxSeg'[No(m)] < Len(sent[m])
      BY <1>8, <2>1, <3>1, <3>2
    <3>4. OnlyAt(m, txed, retx, retxSeg, txed', retx', retxSeg')
      BY <2>1, <3>1 DEF OnlyAt
    <3> QED
      BY <1>4, <1>9, <2>1, <3>1, <3>3, <3>4 DEF Waits, Buffers
  <2> QED
    BY <2>2, <2>3
<1>12. SenderIs(txed', retx', retxSeg', sent, a, s)
  <2>1. OthersAsSent(m, sent, sent, s)
    BY DEF OthersAsSent
  <2> QED
    BY <1>4, <1>8, <1>11, <2>1, SenderAtOne
<1>13. SenderHas(sent, a, s)'
  <2>1. vtA' = vtA /\ vtS' = vtS
    BY <1>3, <1>6
  <2> QED
    BY <1>8, <1>12, <2>1 DEF SenderHas
<1>14. poll' \in Polls
  <2>1. PollSn(vtS, s)
    BY <1>8, PollSnIs
  <2> QED
    BY <1>2, <1>6, <2>1 DEF PollSn, Polls, SenderTypes
<1>15. SenderTypes' /\ txon' = txon
  <2>1. txon' = txon /\ vtS' = vtS
    BY <1>6
  <2> QED
    BY <1>2, <1>3, <1>11, <1>14, <2>1 DEF SenderTypes
<1>16. bigEnough' = TRUE => Watch(a, s)'
  BY <1>1, <1>2, <1>3, <1>4, WatchAfterRetx
<1>17. ReceiverTypes' /\ ReceiverHas(sent, r, ms, h, x, s)' /\ rxon' = rxon
  <2>1. Extends(sent, sent, s)
    BY DEF Extends
  <2> QED
    BY <1>1, <1>2, <1>3, <1>8, <2>1, ReceiverRests
<1>18. StatusHas(low, ack, nack, r, h, s, a)'
  <2>1. Gone(txed, retx, a, s)' \subseteq Gone(txed, retx, a, s)
    <3>1. ASSUME NEW q \in Nat, a <= q, q < s, txed'[No(q)] = <<>>, retx'[No(q)] = <<>>
          PROVE  txed[No(q)] = <<>> /\ retx[No(q)] = <<>>
      <4>1. q # m
        BY <1>11, <3>1
      <4>2. q < a + Modulus /\ m < a + Modulus
        BY <1>4, <1>8, <3>1
      <4>3. No(q) # No(m) /\ No(q) \in SNs
        BY <1>4, <1>8, <3>1, <4>1, <4>2, OtherNumber
      <4> QED
        BY <1>11, <3>1, <4>3 DEF OnlyAt
    <3> QED
      BY <3>1 DEF Gone
  <2>2. a \notin Gone(txed, retx, a, s)
    BY <1>1 DEF StatusHas
  <2>3. a \notin Gone(txed, retx, a, s)'
    BY <2>1, <2>2
  <2>4. statusPdus \in Seq(StatusPdus) /\ r \in Nat
    BY <1>1, <1>2 DEF BetweenTypes, ReceiverHas
  <2> QED
    BY <1>1, <1>3, <1>8, <1>17, <2>1, <2>3, <2>4, StatusRests
<1>19. PICK num2 : num2 = [num EXCEPT ![Len(dataPdus) + 1] = m]
  OBVIOUS
<1>20. QueueOf(dataPdus, DataPdus) /\ Counting(num) /\ Counting(num2)
  <2>1. QueueOf(dataPdus, DataPdus)
    BY <1>2, QueueHasElements DEF BetweenTypes
  <2>2. Counting(num) /\ Counting(num2)
    BY <1>1, <1>19 DEF DataHas, Counting
  <2> QED
    BY <2>1, <2>2
<1>21. dataPdus' \in Seq(DataPdus) /\ Joined(dataPdus', dataPdus, pdu)
  BY <1>2, <1>7, LastJoins DEF BetweenTypes
<1>22. DataIs(dataPdus', num2, sent, s, h)
  <2>1. DataIs(dataPdus, num, sent, s, h)
    BY <1>1 DEF DataHas
  <2>2. Extends(sent, sent, s)
    BY DEF Extends
  <2>3. h \in Nat /\ h <= s
    BY <1>1 DEF ReceiverHas, ReceiverIs
  <2> QED
    BY <1>4, <1>7, <1>8, <1>19, <1>20, <1>21, <2>1, <2>2, <2>3, PduJoins
<1>23. DataHas(num2, sent, s, h)'
  BY <1>20, <1>22 DEF DataHas
<1>24. BetweenTypes' /\ HistoryTypes'
  <2>1. cuts' \in 0 .. MaxCuts
    BY <1>6
  <2> QED
    BY <1>2, <1>3, <1>21, <2>1 DEF BetweenTypes, HistoryTypes
<1>25. Holds(sent, a, s, r, ms, h, x, num2, low, ack, nack)'
  BY <1>13, <1>16, <1>17, <1>18, <1>23 DEF Holds
<1> QED
  BY <1>15, <1>17, <1>24, <1>25 DEF AmTypes

\* What DoNotifyTxOpportunity does: a new PDU is PDU s, cut off what waits.
Sends(sent, s, sent2, s2) ==
  \/ sent2 = sent /\ s2 = s /\ txon' = txon
  \/ \E m \in 1 .. Len(txon) :
       /\ sent2 = [sent EXCEPT ![s] = SubSeq(txon, 1, m)] /\ s2 = s + 1
       /\ txon' = SubSeq(txon, m + 1, Len(txon))

\* Reports to the MAC change nothing else.
LEMMA ReportOnly ==
  ASSUME AmTypes, NEW sent, NEW a, NEW s, NEW r, NEW ms, NEW h, NEW x, NEW num, NEW low, NEW ack, NEW nack,
         Holds(sent, a, s, r, ms, h, x, num, low, ack, nack), report' \in BOOLEAN, rbsTimer' \in BOOLEAN,
         txon' = txon, txed' = txed, retx' = retx, retxSeg' = retxSeg, vtA' = vtA, vtS' = vtS,
         poll' = poll, bigEnough' = bigEnough, receiver' = receiver,
         dataPdus' = dataPdus, statusPdus' = statusPdus, losses' = losses, cuts' = cuts,
         accepted' = accepted, offered' = offered
  PROVE  AmTypes' /\ Holds(sent, a, s, r, ms, h, x, num, low, ack, nack)'
<1>1. /\ SenderHas(sent, a, s) /\ ReceiverHas(sent, r, ms, h, x, s)
      /\ DataHas(num, sent, s, h) /\ StatusHas(low, ack, nack, r, h, s, a)
      /\ bigEnough = TRUE => Watch(a, s)
  BY DEF Holds
<1>2. SenderTypes /\ ReceiverTypes /\ BetweenTypes /\ HistoryTypes
  BY DEF AmTypes
<1>3. SenderTypes'
  BY <1>2 DEF SenderTypes
<1>4. SenderHas(sent, a, s)' /\ s \in Nat
  BY <1>1 DEF SenderHas
<1>5. bigEnough' = TRUE => Watch(a, s)'
  BY <1>1 DEF Watch
<1>6. ReceiverTypes' /\ ReceiverHas(sent, r, ms, h, x, s)' /\ rxon' = rxon
  <2>1. Extends(sent, sent, s)
    BY DEF Extends
  <2> QED
    BY <1>1, <1>2, <1>4, <2>1, ReceiverRests
<1>7. DataHas(num, sent, s, h)' /\ StatusHas(low, ack, nack, r, h, s, a)'
  BY <1>1, <1>6 DEF DataHas, StatusHas
<1>8. BetweenTypes' /\ HistoryTypes'
  BY <1>2 DEF BetweenTypes, HistoryTypes
<1> QED
  BY <1>3, <1>4, <1>5, <1>6, <1>7, <1>8 DEF AmTypes, Holds

LEMMA TxHolds ==
  ASSUME AmTypes, NEW sent, NEW a, NEW s, NEW r, NEW ms, NEW h, NEW x, NEW num, NEW low, NEW ack, NEW nack,
         Holds(sent, a, s, r, ms, h, x, num, low, ack, nack),
         NEW n \in Grants, DoNotifyTxOpportunity(n)
  PROVE  /\ AmTypes'
         /\ \E sent2, s2, num2 :
              Sends(sent, s, sent2, s2) /\ Holds(sent2, a, s2, r, ms, h, x, num2, low, ack, nack)'
<1>1. n \in Nat /\ n > 0
  BY AmConstants
<1>2. UNCHANGED <<vtA, rbsTimer, bigEnough, receiver, statusPdus, losses, accepted, offered>>
  BY DEF DoNotifyTxOpportunity
<1>3. report' \in BOOLEAN
  <2>1. (dataPdus' # dataPdus /\ (txon' # <<>> \/ \E sn \in SNs : retx'[sn] # <<>>)) \in BOOLEAN
    BY Zenon
  <2> QED
    BY <2>1, Zenon DEF DoNotifyTxOpportunity
<1>4. CASE RetxPending /\ Retransmit(Min({n, NSdus * SduUnits}))
  <2>1. AmTypes' /\ txon' = txon /\ \E num2 : Holds(sent, a, s, r, ms, h, x, num2, low, ack, nack)'
    BY <1>1, <1>2, <1>3, <1>4, RetxHolds
  <2> QED
    BY <2>1 DEF Sends
<1>5. CASE ~RetxPending /\ txon # <<>> /\ ~Stalled /\ TransmitNew(Min({n, Len(txon)})) /\ UNCHANGED cuts
  <2>1. /\ AmTypes'
        /\ \E m \in 1 .. Len(txon) : \E num2, sent2 :
             /\ sent2 = [sent EXCEPT ![s] = SubSeq(txon, 1, m)]
             /\ txon' = SubSeq(txon, m + 1, Len(txon))
             /\ Holds(sent2, a, s + 1, r, ms, h, x, num2, low, ack, nack)'
    BY <1>1, <1>2, <1>3, <1>5, NewPduHolds
  <2> QED
    BY <2>1 DEF Sends
<1>6. CASE UNCHANGED <<txon, txed, retx, retxSeg, vtS, poll, dataPdus, cuts>>
  <2>1. /\ txon' = txon /\ txed' = txed /\ retx' = retx /\ retxSeg' = retxSeg /\ vtA' = vtA /\ vtS' = vtS
        /\ poll' = poll /\ rbsTimer' = rbsTimer /\ bigEnough' = bigEnough /\ receiver' = receiver
        /\ dataPdus' = dataPdus /\ statusPdus' = statusPdus /\ losses' = losses /\ cuts' = cuts
        /\ accepted' = accepted /\ offered' = offered
    BY <1>2, <1>6
  <2>2. AmTypes' /\ Holds(sent, a, s, r, ms, h, x, num, low, ack, nack)'
    <3>1. rbsTimer' \in BOOLEAN
      BY <2>1 DEF AmTypes, SenderTypes
    <3> QED
      BY <1>3, <2>1, <3>1, ReportOnly
  <2> QED
    BY <2>1, <2>2 DEF Sends
<1> QED
  BY <1>4, <1>5, <1>6 DEF DoNotifyTxOpportunity

LEMMA RbsHolds ==
  ASSUME AmTypes, NEW sent, NEW a, NEW s, NEW r, NEW ms, NEW h, NEW x, NEW num, NEW low, NEW ack, NEW nack,
         Holds(sent, a, s, r, ms, h, x, num, low, ack, nack), ExpireRbsTimer
  PROVE  AmTypes' /\ Holds(sent, a, s, r, ms, h, x, num, low, ack, nack)'
<1>1. report' \in BOOLEAN /\ rbsTimer' \in BOOLEAN
  <2>1. (report \/ txon # <<>> \/ RetxPending) \in BOOLEAN
        /\ (txon # <<>> \/ RetxPending \/ \E sn \in SNs : txed[sn] # <<>>) \in BOOLEAN
    BY Zenon
  <2> QED
    BY <2>1, Zenon DEF ExpireRbsTimer
<1>2. /\ txon' = txon /\ txed' = txed /\ retx' = retx /\ retxSeg' = retxSeg /\ vtA' = vtA /\ vtS' = vtS
      /\ poll' = poll /\ bigEnough' = bigEnough /\ receiver' = receiver
      /\ dataPdus' = dataPdus /\ statusPdus' = statusPdus /\ losses' = losses /\ cuts' = cuts
      /\ accepted' = accepted /\ offered' = offered
  BY DEF ExpireRbsTimer, between
<1> QED
  BY <1>1, <1>2, ReportOnly

\* All transmitted PDUs, or none, are to be sent again.
Swapped(te, re, te2, re2) ==
  \A sn \in SNs : \/ te2[sn] = te[sn] /\ re2[sn] = re[sn]
                  \/ te[sn] # <<>> /\ te2[sn] = <<>> /\ re2[sn] = te[sn]

LEMMA SenderSwaps ==
  ASSUME NEW te, NEW re, NEW seg, NEW sent, NEW a, a \in Nat, NEW s, s \in Nat,
         SenderIs(te, re, seg, sent, a, s), NEW te2, NEW re2, Swapped(te, re, te2, re2)
  PROVE  /\ SenderIs(te2, re2, seg, sent, a, s)
         /\ Gone(te2, re2, a, s) \subseteq Gone(te, re, a, s)
<1>1. \A n \in Nat : No(n) \in SNs
  BY SumOfNumbers
<1>2. ASSUME NEW n \in Nat, a <= n, n < s
      PROVE  Waits(te2, re2, seg, sent[n], No(n))
  BY <1>1, <1>2 DEF SenderIs, Waits, Swapped
<1>3. ASSUME NEW n \in Nat, s <= n, n < a + Modulus
      PROVE  Idle(te2, re2, seg, No(n))
  BY <1>1, <1>3 DEF SenderIs, Idle, Swapped
<1>4. SenderIs(te2, re2, seg, sent, a, s)
  BY <1>2, <1>3 DEF SenderIs
<1>5. Gone(te2, re2, a, s) \subseteq Gone(te, re, a, s)
  BY <1>1 DEF Gone, Swapped
<1> QED
  BY <1>4, <1>5

\* With a full window everything is to be sent again, the first PDU included.
LEMMA FullWindowIsMoved ==
  ASSUME SenderTypes, NEW sent, NEW a, NEW s, SenderHas(sent, a, s), a \notin Gone(txed, retx, a, s),
         ExpirePollRetransmitTimer
  PROVE  s < a + Window \/ retx'[No(a)] # <<>>
<1>1. /\ a \in Nat /\ s \in Nat /\ vtA = No(a) /\ vtS = No(s) /\ a <= s /\ s <= a + Window
      /\ Modulus = Window + Window /\ Window \in Nat /\ Window > 0 /\ s < a + Modulus /\ No(a) \in SNs
  BY AmConstants, SumOfNumbers DEF SenderHas, SenderIs
<1>2. SUFFICES ASSUME s = a + Window PROVE retx'[No(a)] # <<>>
  BY <1>1
<1>3. Dist(vtS, vtA) = Window
  <2>1. Dist(vtS, vtA) = s - a
    BY <1>1, DistanceOfNumbers
  <2> QED
    BY <1>1, <1>2, <2>1
<1>4. No(a) \in Outstanding
  <2>1. Plus(No(a), 0) = No(a + 0)
    BY <1>1, SumOfNumbers
  <2>2. Plus(vtA, 0) = No(a) /\ 0 \in 0 .. Dist(vtS, vtA) - 1
    BY <1>1, <1>3, <2>1
  <2> QED
    BY <2>2 DEF Outstanding
<1>5. txed[No(a)] # <<>> \/ retx[No(a)] # <<>>
  BY <1>1, <1>2 DEF Gone
<1> DEFINE again == (txon = <<>> /\ ~RetxPending) \/ Dist(vtS, vtA) = Window
           moved == {sn \in Outstanding : again /\ txed[sn] # <<>>}
<1>6. /\ retx' = [sn \in SNs |-> IF sn \in moved THEN txed[sn] ELSE retx[sn]]
      /\ No(a) \in moved <=> txed[No(a)] # <<>>
  BY <1>3, <1>4 DEF ExpirePollRetransmitTimer
<1> HIDE DEF moved
<1> QED
  BY <1>1, <1>5, <1>6

LEMMA PollTimerHolds ==
  ASSUME AmTypes, NEW sent, NEW a, NEW s, NEW r, NEW ms, NEW h, NEW x, NEW num, NEW low, NEW ack, NEW nack,
         Holds(sent, a, s, r, ms, h, x, num, low, ack, nack), ExpirePollRetransmitTimer
  PROVE  AmTypes' /\ Holds(sent, a, s, r, ms, h, x, num, low, ack, nack)'
<1>1. /\ SenderHas(sent, a, s) /\ ReceiverHas(sent, r, ms, h, x, s)
      /\ DataHas(num, sent, s, h) /\ StatusHas(low, ack, nack, r, h, s, a)
      /\ bigEnough = TRUE => Watch(a, s)
  BY DEF Holds
<1>2. SenderTypes /\ ReceiverTypes /\ BetweenTypes /\ HistoryTypes
  BY DEF AmTypes
<1>3. /\ txon' = txon /\ retxSeg' = retxSeg /\ vtA' = vtA /\ vtS' = vtS /\ rbsTimer' = rbsTimer
      /\ bigEnough' = bigEnough /\ receiver' = receiver
      /\ dataPdus' = dataPdus /\ statusPdus' = statusPdus /\ losses' = losses /\ cuts' = cuts
      /\ accepted' = accepted /\ offered' = offered
      /\ poll' = [poll EXCEPT !.timer = FALSE, !.justExpired = TRUE]
  BY DEF ExpirePollRetransmitTimer, between
<1>4. report' \in BOOLEAN
  <2>1. (report \/ txon # <<>> \/ \E sn \in SNs : retx'[sn] # <<>>) \in BOOLEAN
    BY Zenon
  <2> QED
    BY <2>1, Zenon DEF ExpirePollRetransmitTimer
<1>5. txed' \in Buffers /\ retx' \in Buffers /\ Swapped(txed, retx, txed', retx')
  <2> DEFINE again == (txon = <<>> /\ ~RetxPending) \/ Dist(vtS, vtA) = Window
             moved == {sn \in Outstanding : again /\ txed[sn] # <<>>}
  <2>1. /\ txed' = [sn \in SNs |-> IF sn \in moved THEN <<>> ELSE txed[sn]]
        /\ retx' = [sn \in SNs |-> IF sn \in moved THEN txed[sn] ELSE retx[sn]]
    BY DEF ExpirePollRetransmitTimer
  <2>2. \A sn \in moved : txed[sn] # <<>>
    OBVIOUS
  <2> HIDE DEF moved
  <2>3. <<>> \in Pieces
    BY EmptySeq DEF Pieces
  <2>4. txed' \in Buffers /\ retx' \in Buffers
    BY <1>2, <2>1, <2>3 DEF SenderTypes, Buffers
  <2>5. Swapped(txed, retx, txed', retx')
    BY <2>1, <2>2 DEF Swapped
  <2> QED
    BY <2>4, <2>5
<1>6. /\ Sent(sent) /\ a \in Nat /\ s \in Nat /\ vtA = No(a) /\ vtS = No(s)
      /\ SenderIs(txed, retx, retxSeg, sent, a, s)
  BY <1>1 DEF SenderHas
<1>7. SenderIs(txed', retx', retxSeg, sent, a, s) /\ Gone(txed, retx, a, s)' \subseteq Gone(txed, retx, a, s)
  BY <1>5, <1>6, SenderSwaps
<1>8. SenderHas(sent, a, s)'
  BY <1>3, <1>6, <1>7 DEF SenderHas
<1>9. SenderTypes' /\ poll'.justExpired = TRUE
  BY <1>2, <1>3, <1>4, <1>5 DEF SenderTypes, Polls
<1>10. bigEnough' = TRUE => Watch(a, s)'
  <2>1. s < a + Window \/ retx'[No(a)] # <<>>
    BY <1>1, <1>2, FullWindowIsMoved DEF StatusHas
  <2> QED
    BY <1>1, <1>3, <1>9, <2>1 DEF Watch
<1>11. ReceiverTypes' /\ ReceiverHas(sent, r, ms, h, x, s)' /\ rxon' = rxon
  <2>1. Extends(sent, sent, s)
    BY DEF Extends
  <2> QED
    BY <1>1, <1>2, <1>3, <1>6, <2>1, ReceiverRests
<1>12. DataHas(num, sent, s, h)'
  BY <1>1, <1>3, DataRests
<1>13. StatusHas(low, ack, nack, r, h, s, a)'
  <2>1. a \notin Gone(txed, retx, a, s) /\ r \in Nat /\ statusPdus \in Seq(StatusPdus)
    BY <1>1, <1>2 DEF StatusHas, ReceiverHas, BetweenTypes
  <2>2. a \notin Gone(txed, retx, a, s)'
    BY <1>7, <2>1
  <2> QED
    BY <1>1, <1>3, <1>6, <1>7, <1>11, <2>1, <2>2, StatusRests
<1>14. BetweenTypes' /\ HistoryTypes'
  BY <1>2, <1>3 DEF BetweenTypes, HistoryTypes
<1> QED
  BY <1>8, <1>9, <1>10, <1>11, <1>12, <1>13, <1>14 DEF AmTypes, Holds

\* STATUS PDUs that go up to the last PDU are the answer to the poll: what they
\* name is then the last to be sent again.
LEMMA WatchAfterStatus ==
  ASSUME NEW sent, NEW a, NEW s, SenderHas(sent, a, s), Watch(a, s),
         NEW low, low \in Nat, NEW ack, ack \in Nat, NEW nack, StatusIs(low, ack, nack, a, s),
         AllReported(txed, retx, retxSeg, txed', retx', retxSeg', a, ack, nack),
         \A n \in Gone(txed, retx, a, s) : ~Doubted(n, ack, nack),
         \A sn \in SNs : retxSeg'[sn] = 0, txon' = txon,
         poll'.sn = poll.sn, poll'.justExpired = poll.justExpired,
         poll.timer = TRUE /\ poll.sn = No(s + Modulus - 1) /\ a < s /\ ack < s => poll'.timer = TRUE
  PROVE  Watch(low, s)'
<1>1. /\ a \in Nat /\ s \in Nat /\ a <= s /\ s <= a + Window
      /\ Modulus \in Nat /\ Modulus = Window + Window /\ Window \in Nat /\ Window > 0 /\ s < a + Modulus
      /\ a <= low /\ low <= ack /\ ack <= s
  BY AmConstants DEF SenderHas, SenderIs, StatusIs
<1>2. poll'.justExpired = TRUE => s < low + Window \/ retx'[No(low)] # <<>>
  <2> SUFFICES ASSUME poll.justExpired = TRUE, ~(s < low + Window)
               PROVE  retx'[No(low)] # <<>>
    OBVIOUS
  <2>1. low = a /\ a < s
    BY <1>1
  <2>2. retx[No(a)] # <<>>
    BY <1>1, <2>1 DEF Watch
  <2>3. Reported(txed, retx, retxSeg, txed', retx', retxSeg', a, ack, nack)
    BY <1>1 DEF AllReported
  <2>4. ack = a \/ a \in nack
    BY <2>1 DEF StatusIs
  <2> QED
    BY <1>1, <2>1, <2>2, <2>3, <2>4 DEF Reported
<1>3. SUFFICES ASSUME low < s
               PROVE  \/ Asked(poll', s)
                      \/ poll'.justExpired = TRUE
                      \/ txon' # <<>> /\ s < low + Window
                      \/ \E m \in Nat : NoneBehind(txed', retx', m, low, s)
  BY <1>2 DEF Watch
<1>4. ASSUME NEW n \in Nat, a <= n, n < s, Doubted(n, ack, nack)
      PROVE  txed[No(n)] # <<>> \/ retx[No(n)] # <<>>
  BY <1>4 DEF Gone
<1>5. ASSUME NEW n \in Nat, a <= n, n < s
      PROVE  Reported(txed, retx, retxSeg, txed', retx', retxSeg', n, ack, nack)
  BY <1>1, <1>5 DEF AllReported
<1>6. CASE ack = s
  <2>1. low \in nack /\ a <= low
    BY <1>1, <1>3, <1>6 DEF StatusIs
  <2>2. Reported(txed, retx, retxSeg, txed', retx', retxSeg', low, ack, nack)
    BY <1>3, <1>5, <2>1
  <2>3. txed[No(low)] # <<>> \/ retx[No(low)] # <<>>
    BY <1>3, <1>4, <2>1 DEF Doubted
  <2>4. retx'[No(low)] # <<>>
    BY <2>1, <2>2, <2>3 DEF Reported
  <2>5. ASSUME NEW q \in Nat, low < q, q < s
        PROVE  txed'[No(q)] = <<>>
    <3>1. Reported(txed, retx, retxSeg, txed', retx', retxSeg', q, ack, nack)
      BY <1>1, <1>5, <2>5
    <3>2. q < ack
      BY <1>6, <2>5
    <3> QED
      BY <3>1, <3>2 DEF Reported, Idle
  <2>6. NoneBehind(txed', retx', low, low, s)
    BY <1>3, <2>4, <2>5 DEF NoneBehind
  <2> QED
    BY <2>6
<1>7. CASE ack # s
  <2>1. ack < s /\ a < s
    BY <1>1, <1>7
  <2>2. CASE Asked(poll, s)
    BY <2>1, <2>2 DEF Asked
  <2>3. CASE poll.justExpired = TRUE
    BY <2>3
  <2>4. CASE txon # <<>> /\ s < a + Window
    BY <1>1, <2>4
  <2>5. ASSUME NEW m \in Nat, NoneBehind(txed, retx, m, a, s)
        PROVE  \E q \in Nat : NoneBehind(txed', retx', q, low, s)
    <3>1. a <= m /\ m < s /\ retx[No(m)] # <<>> /\ \A q \in Nat : m < q /\ q < s => txed[No(q)] = <<>>
      BY <2>5 DEF NoneBehind
    <3>2. ASSUME NEW q \in Nat, ack <= q, q < s
          PROVE  txed'[No(q)] = txed[No(q)] /\ retx'[No(q)] = retx[No(q)]
      <4>1. Reported(txed, retx, retxSeg, txed', retx', retxSeg', q, ack, nack)
        BY <1>1, <1>5, <3>2
      <4> QED
        BY <3>2, <4>1 DEF Reported
    <3>3. CASE m < ack
      <4>1. txed[No(ack)] = <<>>
        BY <2>1, <3>1, <3>3
      <4>2. txed[No(ack)] # <<>> \/ retx[No(ack)] # <<>>
        BY <1>1, <1>4, <2>1 DEF Doubted
      <4>3. retx'[No(ack)] # <<>>
        BY <1>1, <2>1, <3>2, <4>1, <4>2
      <4>4. \A q \in Nat : ack < q /\ q < s => txed'[No(q)] = <<>>
        BY <3>1, <3>2, <3>3
      <4> QED
        BY <1>1, <2>1, <4>3, <4>4 DEF NoneBehind
    <3>4. CASE ~(m < ack)
      <4>1. retx'[No(m)] # <<>>
        BY <3>1, <3>2, <3>4
      <4>2. \A q \in Nat : m < q /\ q < s => txed'[No(q)] = <<>>
        BY <3>1, <3>2, <3>4
      <4> QED
        BY <1>1, <3>1, <3>4, <4>1, <4>2 DEF NoneBehind
    <3> QED
      BY <3>3, <3>4
  <2> QED
    BY <2>1, <2>2, <2>3, <2>4, <2>5 DEF Watch
<1> QED
  BY <1>6, <1>7

LEMMA StatusTypes ==
  ASSUME SenderTypes, NEW pdu, DoReceiveStatusPdu(pdu)
  PROVE  /\ txed' \in Buffers /\ retx' \in Buffers /\ retxSeg' \in [SNs -> Nat]
         /\ (\A sn \in SNs : retxSeg[sn] = 0) => \A sn \in SNs : retxSeg'[sn] = 0
<1> DEFINE n == Min({Dist(pdu.ackSn, vtA), Dist(vtS, vtA)})
           reported == {Plus(vtA, i) : i \in 0 .. n - 1}
           nacked == reported \cap pdu.nacks
           acked == reported \ nacked
<1>1. /\ txed' = [sn \in SNs |-> IF sn \in reported THEN <<>> ELSE txed[sn]]
      /\ retx' = [sn \in SNs |->
                    CASE sn \in acked -> <<>>
                      [] sn \in nacked /\ txed[sn] # <<>> -> txed[sn]
                      [] OTHER -> retx[sn]]
      /\ retxSeg' = [sn \in SNs |-> IF sn \in acked /\ retx[sn] # <<>> THEN 0 ELSE retxSeg[sn]]
  BY DEF DoReceiveStatusPdu
<1> HIDE DEF nacked, acked, reported
<1>2. <<>> \in Pieces
  BY EmptySeq DEF Pieces
<1> QED
  BY <1>1, <1>2 DEF SenderTypes, Buffers

LEMMA StatusHolds ==
  ASSUME AmTypes, NEW sent, NEW a, NEW s, NEW r, NEW ms, NEW h, NEW x, NEW num, NEW low, NEW ack, NEW nack,
         Holds(sent, a, s, r, ms, h, x, num, low, ack, nack), ~StatusOvertakes,
         NEW i \in 1 .. 2, DoReceiveControlPdu(i)
  PROVE  /\ AmTypes'
         /\ \E a2, low2, ack2, nack2 : Holds(sent, a2, s, r, ms, h, x, num, low2, ack2, nack2)'
<1>1. /\ SenderHas(sent, a, s) /\ ReceiverHas(sent, r, ms, h, x, s)
      /\ DataHas(num, sent, s, h) /\ StatusHas(low, ack, nack, r, h, s, a)
      /\ bigEnough = TRUE => Watch(a, s)
  BY DEF Holds
<1>2. SenderTypes /\ ReceiverTypes /\ BetweenTypes /\ HistoryTypes
  BY DEF AmTypes
<1>3. /\ txon' = txon /\ vtS' = vtS /\ rbsTimer' = rbsTimer /\ report' = report
      /\ bigEnough' = bigEnough /\ receiver' = receiver
      /\ dataPdus' = dataPdus /\ losses' = losses /\ cuts' = cuts
      /\ accepted' = accepted /\ offered' = offered
  BY DEF DoReceiveControlPdu
<1>4. i = 1 /\ DoReceiveStatusPdu(statusPdus[1]) /\ statusPdus' = Others(statusPdus, 1)
      /\ 1 \in Arriving(statusPdus, FALSE)
  BY DEF DoReceiveControlPdu, Arriving
<1>5. statusPdus' \in Seq(StatusPdus) /\ LeftOver(statusPdus', statusPdus, 1)
  <2>1. \A e \in StatusPdus : [e EXCEPT !.overtaken = TRUE] \in StatusPdus /\ e.overtaken \in BOOLEAN
    BY DEF StatusPdus
  <2>2. statusPdus \in Seq(StatusPdus)
    BY <1>2 DEF BetweenTypes
  <2> QED
    BY <1>4, <2>1, <2>2, OthersAreLeft
<1>6. QueueOf(statusPdus, StatusPdus) /\ QueueOf(statusPdus', StatusPdus)
  BY <1>2, <1>5, QueueHasElements DEF BetweenTypes
<1>7. PICK l \in Nat : l = Len(statusPdus') /\ Len(statusPdus) = l + 1 /\ 1 \in 1 .. Len(statusPdus)
  BY <1>5, <1>6 DEF LeftOver, QueueOf
<1>8. /\ Sent(sent) /\ a \in Nat /\ s \in Nat /\ vtA = No(a) /\ vtS = No(s)
      /\ SenderIs(txed, retx, retxSeg, sent, a, s) /\ s <= a + Window /\ r \in Nat
  BY <1>1 DEF SenderHas, SenderIs, ReceiverHas
<1>9. /\ Counting(low) /\ Counting(ack) /\ Naming(nack) /\ a <= r
      /\ AcksAre(statusPdus, low, ack, nack, r, s, a)
      /\ BeliefsAre(l + 1, ack, nack, Have(rxon, r, h), Gone(txed, retx, a, s))
  BY <1>1, <1>7 DEF StatusHas
<1>10. PICK low1 \in Nat, ack1 \in Nat, nack1 \in SUBSET Nat :
         low1 = low[1] /\ ack1 = ack[1] /\ nack1 = nack[1]
  BY <1>9 DEF Counting, Naming
<1>11. AckIs(statusPdus[1], low1, ack1, nack1, r, s, a)
  BY <1>7, <1>9, <1>10 DEF AcksAre
<1>12. Says(statusPdus[1], ack1, nack1) /\ StatusIs(low1, ack1, nack1, a, s) /\ low1 <= r
  BY <1>11 DEF AckIs
<1>13. vtA \in SNs /\ poll \in Polls
  BY <1>2 DEF SenderTypes
<1>14. /\ AllReported(txed, retx, retxSeg, txed', retx', retxSeg', a, ack1, nack1)
       /\ vtA' = No(low1)
       /\ poll'.sn = poll.sn /\ poll'.justExpired = poll.justExpired
       /\ poll' \in Polls
       /\ poll.timer = TRUE /\ poll.sn = No(s + Modulus - 1) /\ a < s /\ ack1 < s => poll'.timer = TRUE
  BY <1>4, <1>8, <1>12, <1>13, StatusIsRead
<1>15. SenderIs(txed', retx', retxSeg', sent, low1, s)
  BY <1>8, <1>12, <1>14, SenderReads
<1>16. SenderHas(sent, low1, s)'
  BY <1>3, <1>8, <1>14, <1>15 DEF SenderHas
<1>17. /\ txed' \in Buffers /\ retx' \in Buffers /\ retxSeg' \in [SNs -> Nat]
       /\ (\A sn \in SNs : retxSeg[sn] = 0) => \A sn \in SNs : retxSeg'[sn] = 0
  BY <1>2, <1>4, StatusTypes
<1>18. SenderTypes'
  <2>1. vtA' \in SNs
    BY <1>14, SumOfNumbers
  <2> QED
    BY <1>2, <1>3, <1>14, <1>17, <2>1 DEF SenderTypes, Polls
<1>19. \A n \in Gone(txed, retx, a, s) : ~Doubted(n, ack1, nack1)
  <2>1. 1 \in 1 .. l + 1
    BY <1>7
  <2> QED
    BY <1>9, <1>10, <2>1 DEF BeliefsAre
<1>20. bigEnough' = TRUE => Watch(low1, s)'
  <2> SUFFICES ASSUME bigEnough = TRUE PROVE Watch(low1, s)'
    BY <1>3
  <2>1. Watch(a, s) /\ \A sn \in SNs : retxSeg'[sn] = 0
    BY <1>1, <1>17 DEF Watch
  <2> QED
    BY <1>1, <1>3, <1>12, <1>14, <1>19, <2>1, WatchAfterStatus
<1>21. /\ Gone(txed, retx, low1, s)' \subseteq
            Gone(txed, retx, a, s) \cup {n \in Nat : Believed(n, ack1, nack1)}
       /\ low1 \notin Gone(txed, retx, low1, s)'
  <2>1. a <= low1 /\ low1 <= ack1 /\ ack1 <= s /\ (low1 = ack1 \/ low1 \in nack1)
    BY <1>12 DEF StatusIs
  <2>2. ASSUME NEW n \in Nat, low1 <= n, n < s, txed'[No(n)] = <<>>, retx'[No(n)] = <<>>, ~Believed(n, ack1, nack1)
        PROVE  txed[No(n)] = <<>> /\ retx[No(n)] = <<>> /\ a <= n
    <3>1. a <= n /\ n < a + Modulus
      BY <1>8, <2>1, <2>2, AmConstants
    <3>2. Reported(txed, retx, retxSeg, txed', retx', retxSeg', n, ack1, nack1)
      BY <1>14, <3>1 DEF AllReported
    <3>3. n \in nack1 \/ ack1 <= n
      BY <2>2 DEF Believed
    <3> QED
      BY <2>2, <3>1, <3>2, <3>3 DEF Reported
  <2>3. Gone(txed, retx, low1, s)' \subseteq
            Gone(txed, retx, a, s) \cup {n \in Nat : Believed(n, ack1, nack1)}
    BY <2>2 DEF Gone
  <2>4. Doubted(low1, ack1, nack1) /\ ~Believed(low1, ack1, nack1)
    BY <2>1 DEF Doubted, Believed
  <2>5. low1 \notin Gone(txed, retx, a, s)
    BY <1>19, <2>4
  <2> QED
    BY <2>3, <2>4, <2>5
<1>22. PICK low2, ack2, nack2 : low2 = Shifted(low) /\ ack2 = Shifted(ack) /\ nack2 = Shifted(nack)
  OBVIOUS
<1>23. Counting(low2) /\ Counting(ack2) /\ Naming(nack2)
  BY <1>9, <1>22, ShiftedTypes
<1>24. AcksAre(statusPdus', low2, ack2, nack2, r, s, low1)
  BY <1>5, <1>6, <1>8, <1>9, <1>10, <1>22, AcksLeave
<1>25. BeliefsAre(l, ack2, nack2, Have(rxon, r, h), Gone(txed, retx, low1, s)')
  <2> DEFINE have == Have(rxon, r, h)  gone == Gone(txed, retx, a, s)  gone2 == Gone(txed, retx, low1, s)'
  <2>1. gone2 \subseteq gone \cup {n \in Nat : Believed(n, ack[1], nack[1])}
    BY <1>10, <1>21
  <2>2. BeliefsAre(l + 1, ack, nack, have, gone)
    BY <1>9
  <2> HIDE DEF have, gone, gone2
  <2>3. BeliefsAre(l, ack2, nack2, have, gone2)
    BY <1>22, <2>1, <2>2, BeliefsLeave
  <2> QED
    BY <2>3 DEF have, gone2
<1>26. ReceiverTypes' /\ ReceiverHas(sent, r, ms, h, x, s)' /\ rxon' = rxon
  <2>1. Extends(sent, sent, s)
    BY DEF Extends
  <2> QED
    BY <1>1, <1>2, <1>3, <1>8, <2>1, ReceiverRests
<1>27. StatusHas(low2, ack2, nack2, r, h, s, low1)'
  BY <1>7, <1>12, <1>21, <1>23, <1>24, <1>25, <1>26 DEF StatusHas
<1>28. DataHas(num, sent, s, h)'
  BY <1>1, <1>3, DataRests
<1>29. BetweenTypes' /\ HistoryTypes'
  BY <1>2, <1>3, <1>5 DEF BetweenTypes, HistoryTypes
<1>30. Holds(sent, low1, s, r, ms, h, x, num, low2, ack2, nack2)'
  BY <1>16, <1>20, <1>26, <1>27, <1>28 DEF Holds
<1>31. AmTypes'
  BY <1>18, <1>26, <1>29 DEF AmTypes
<1> QED
  BY <1>30, <1>31

\* What DoReceivePdu passes up: the PDUs from r up to r2.
Reads(sent, s, r, r2) ==
  \/ r2 = r /\ reassembly' = reassembly
  \/ \E placed : /\ r <= r2 /\ r2 <= s /\ Buffered(placed) /\ WholeFrom(placed, sent, r, r2)
                 /\ reassembly' = Read(reassembly, placed, r, r2)

\* The PDU that arrives.
LEMMA ArrivalIs ==
  ASSUME AmTypes, NEW sent, NEW a, NEW s, NEW r, NEW ms, NEW h, NEW x, NEW num, NEW low, NEW ack, NEW nack,
         Holds(sent, a, s, r, ms, h, x, num, low, ack, nack),
         NEW i \in 1 .. 2, DoReceiveDataPdu(i)
  PROVE  /\ dataPdus' \in Seq(DataPdus) /\ LeftOver(dataPdus', dataPdus, i)
         /\ \E pdu \in DataPdus, n \in Nat :
              /\ pdu = dataPdus[i] /\ n = num[i] /\ PduIs(pdu, n, sent) /\ n < s
              /\ i = 2 => num[2] # num[1] + Window
              /\ InWindow(pdu.sn) <=> r <= n
<1>1. /\ SenderHas(sent, a, s) /\ ReceiverHas(sent, r, ms, h, x, s)
      /\ DataHas(num, sent, s, h) /\ StatusHas(low, ack, nack, r, h, s, a)
  BY DEF Holds
<1>2. dataPdus \in Seq(DataPdus) /\ QueueOf(dataPdus, DataPdus)
  BY QueueHasElements DEF AmTypes, BetweenTypes
<1>3. i \in Arriving(dataPdus, DataOvertakes) /\ dataPdus' = Others(dataPdus, i)
  BY DEF DoReceiveDataPdu
<1>4. dataPdus' \in Seq(DataPdus) /\ LeftOver(dataPdus', dataPdus, i)
  <2>1. \A e \in DataPdus : [e EXCEPT !.overtaken = TRUE] \in DataPdus /\ e.overtaken \in BOOLEAN
    BY DEF DataPdus
  <2> QED
    BY <1>2, <1>3, <2>1, OthersAreLeft
<1>5. i \in 1 .. Len(dataPdus)
  BY <1>4 DEF LeftOver
<1>6. PICK pdu \in DataPdus : pdu = dataPdus[i]
  BY <1>2, <1>5 DEF QueueOf
<1>7. DataIs(dataPdus, num, sent, s, h) /\ num[i] \in Nat /\ (i = 2 => num[1] \in Nat /\ num[2] \in Nat)
  BY <1>1 DEF DataHas, Counting
<1>8. PICK n \in Nat : n = num[i]
  BY <1>7
<1>9. PduIs(pdu, n, sent) /\ n < s /\ h <= n + Window
  BY <1>5, <1>6, <1>7, <1>8 DEF DataIs
<1>10. /\ a \in Nat /\ s \in Nat /\ s <= a + Window /\ a <= r /\ r \in Nat /\ vr.r = No(r)
       /\ r <= h /\ h \in Nat /\ ms \in Nat
       /\ Window \in Nat /\ Window > 0 /\ Modulus = Window + Window
  BY <1>1, AmConstants DEF SenderHas, SenderIs, ReceiverHas, ReceiverIs, StatusHas
<1>11. InWindow(pdu.sn) <=> r <= n
  <2>1. pdu.sn = No(n)
    BY <1>9 DEF PduIs
  <2>2. n < r + Window /\ r <= n + Window
    BY <1>9, <1>10
  <2>3. Dist(No(n), No(r)) < Window <=> r <= n
    BY <1>10, <2>2, InsideIsAhead
  <2> QED
    BY <1>10, <2>1, <2>3 DEF InWindow
<1>12. i = 2 => num[2] # num[1] + Window
  <2> SUFFICES ASSUME i = 2, num[2] = num[1] + Window PROVE FALSE
    OBVIOUS
  <2>1. Len(dataPdus) \in Nat /\ Len(dataPdus) >= 2 /\ Dist(dataPdus[2].sn, dataPdus[1].sn) # Window
    BY <1>2, <1>3, <1>5 DEF Arriving, DataOvertakes, QueueOf
  <2>2. PICK n1 \in Nat, n2 \in Nat : n1 = num[1] /\ n2 = num[2] /\ n2 = n1 + Window
    BY <1>7
  <2>3. PduIs(dataPdus[1], n1, sent) /\ PduIs(dataPdus[2], n2, sent)
    BY <1>7, <2>1, <2>2 DEF DataIs
  <2>4. dataPdus[1].sn = No(n1) /\ dataPdus[2].sn = No(n2)
    BY <2>3 DEF PduIs
  <2>5. n1 <= n2 /\ n2 < n1 + Modulus
    BY <1>10, <2>2
  <2>6. Dist(No(n2), No(n1)) = n2 - n1
    BY <2>5, DistanceOfNumbers
  <2> QED
    BY <1>10, <2>1, <2>2, <2>4, <2>6
<1> QED
  BY <1>4, <1>6, <1>8, <1>9, <1>11, <1>12

LEMMA DataHolds ==
  ASSUME AmTypes, NEW sent, NEW a, NEW s, NEW r, NEW ms, NEW h, NEW x, NEW num, NEW low, NEW ack, NEW nack,
         Holds(sent, a, s, r, ms, h, x, num, low, ack, nack),
         NEW i \in 1 .. 2, DoReceiveDataPdu(i)
  PROVE  /\ AmTypes'
         /\ \E r2, ms2, h2, x2, num2 :
              Reads(sent, s, r, r2) /\ Holds(sent, a, s, r2, ms2, h2, x2, num2, low, ack, nack)'
<1>1. /\ SenderHas(sent, a, s) /\ ReceiverHas(sent, r, ms, h, x, s)
      /\ DataHas(num, sent, s, h) /\ StatusHas(low, ack, nack, r, h, s, a)
      /\ bigEnough = TRUE => Watch(a, s)
  BY DEF Holds
<1>2. SenderTypes /\ ReceiverTypes /\ BetweenTypes /\ HistoryTypes
  BY DEF AmTypes
<1>3. /\ sender' = sender /\ statusPdus' = statusPdus /\ losses' = losses /\ cuts' = cuts
      /\ accepted' = accepted /\ offered' = offered
  BY DEF DoReceiveDataPdu
<1>4. /\ dataPdus' \in Seq(DataPdus) /\ LeftOver(dataPdus', dataPdus, i)
      /\ \E pdu \in DataPdus, n \in Nat :
           /\ pdu = dataPdus[i] /\ n = num[i] /\ PduIs(pdu, n, sent) /\ n < s
           /\ i = 2 => num[2] # num[1] + Window
           /\ InWindow(pdu.sn) <=> r <= n
  BY ArrivalIs
<1>5. PICK pdu \in DataPdus, n \in Nat :
           /\ pdu = dataPdus[i] /\ n = num[i] /\ PduIs(pdu, n, sent) /\ n < s
           /\ i = 2 => num[2] # num[1] + Window
           /\ InWindow(pdu.sn) <=> r <= n
  BY <1>4
<1>6. /\ a \in Nat /\ s \in Nat /\ s <= a + Window /\ a <= r /\ Sent(sent)
      /\ r \in Nat /\ ms \in Nat /\ h \in Nat /\ x \in Nat
      /\ ReceiverHas(sent, r, ms, h, x, s)
      /\ r <= h /\ h <= s /\ Window \in Nat
  <2>1. /\ a \in Nat /\ s \in Nat /\ s <= a + Window /\ a <= r /\ Sent(sent)
        /\ r \in Nat /\ ms \in Nat /\ h \in Nat /\ x \in Nat
        /\ r <= ms /\ ms <= h /\ h <= s
    BY <1>1 DEF SenderHas, SenderIs, ReceiverHas, ReceiverIs, StatusHas
  <2> QED
    BY <1>1, <2>1, AmConstants
<1>7. status' \in Statuses
  <2>1. status \in Statuses /\ (status.report \/ ~status.prohibited) \in BOOLEAN
    BY <1>2, Zenon DEF ReceiverTypes
  <2>2. status' = status \/ status' = [status EXCEPT !.requested = TRUE, !.report = @ \/ ~status.prohibited]
    BY DEF DoReceiveDataPdu
  <2> QED
    BY <2>1, <2>2 DEF Statuses
<1>8. SenderTypes' /\ SenderHas(sent, a, s)' /\ (bigEnough' = TRUE => Watch(a, s)')
  BY <1>1, <1>2, <1>3, SenderRests
<1>9. txed' = txed /\ retx' = retx
  BY <1>3 DEF sender
<1>10. PICK num2 : num2 = [j \in Nat |-> num[Before(j, i)]]
  OBVIOUS
<1>11. Counting(num) /\ Counting(num2) /\ QueueOf(dataPdus, DataPdus)
  <2>1. Counting(num) /\ QueueOf(dataPdus, DataPdus)
    BY <1>1, <1>2, QueueHasElements DEF DataHas, BetweenTypes
  <2>2. \A j \in Nat : Before(j, i) \in Nat
    BY DEF Before
  <2>3. Counting(num2)
    BY <1>10, <2>1, <2>2 DEF Counting
  <2> QED
    BY <2>1, <2>3
<1>12. ASSUME NEW h2 \in Nat, h2 = h \/ h2 = n + 1
       PROVE  DataHas(num2, sent, s, h2)'
  <2>1. DataIs(dataPdus, num, sent, s, h)
    BY <1>1 DEF DataHas
  <2>2. h2 = h \/ h2 = num[i] + 1
    BY <1>5, <1>12
  <2>3. DataIs(dataPdus', num2, sent, s, h2)
    BY <1>4, <1>5, <1>6, <1>10, <1>11, <2>1, <2>2, PduLeaves
  <2> QED
    BY <1>11, <2>3 DEF DataHas
<1>13. BetweenTypes' /\ HistoryTypes'
  BY <1>2, <1>3, <1>4 DEF BetweenTypes, HistoryTypes
<1>14. CASE InWindow(pdu.sn)
  <2>1. Receive(pdu)
    BY <1>5, <1>14 DEF DoReceiveDataPdu
  <2>2. Arrives(pdu, n, sent, r, s)
    <3>1. r <= n /\ n < r + Window
      BY <1>5, <1>6, <1>14
    <3> QED
      BY <1>5, <3>1 DEF Arrives
  <2>3. Buffered(rxon) /\ vr \in Variables
    BY <1>2 DEF ReceiverTypes
  <2>4. PICK r2, ms2, h2, x2 \in Nat :
           /\ r <= r2 /\ Raised(h2, h, n)
           /\ Buffered(rxon') /\ vr' \in Variables /\ reorderingTimer' \in BOOLEAN
           /\ ReceiverHas(sent, r2, ms2, h2, x2, s)'
           /\ Have(rxon, r, h) \subseteq Have(rxon', r2, h2)
           /\ Buffered(Place(pdu)) /\ WholeFrom(Place(pdu), sent, r, r2)
           /\ reassembly' = Read(reassembly, Place(pdu), r, r2)
    <3>1. Received(pdu, n, sent, r, h, s)
      BY <1>6, <2>1, <2>2, <2>3, ReceiveIs
    <3> QED
      BY <3>1 DEF Received
  <2>5. ReceiverTypes' /\ ReceiverHas(sent, r2, ms2, h2, x2, s)'
    BY <1>7, <2>4 DEF ReceiverTypes
  <2>6. h2 = h \/ h2 = n + 1
    BY <2>4 DEF Raised
  <2>7. DataHas(num2, sent, s, h2)'
    BY <1>12, <2>6
  <2>8. StatusHas(low, ack, nack, r2, h2, s, a)'
    <3> DEFINE have == Have(rxon, r, h)  have2 == Have(rxon, r2, h2)'  gone == Gone(txed, retx, a, s)
    <3>1. /\ Counting(low) /\ Counting(ack) /\ Naming(nack)
          /\ AcksAre(statusPdus, low, ack, nack, r, s, a)
          /\ BeliefsAre(Len(statusPdus), ack, nack, have, gone) /\ a \notin gone
      BY <1>1 DEF StatusHas
    <3>2. have \subseteq have2
      BY <2>4
    <3> HIDE DEF have, have2, gone
    <3>3. BeliefsAre(Len(statusPdus), ack, nack, have2, gone)
      <4>1. gone \subseteq gone
        OBVIOUS
      <4> QED
        BY <3>1, <3>2, <4>1, BeliefsGrow
    <3>4. AcksAre(statusPdus, low, ack, nack, r2, s, a)
      <4>1. QueueOf(statusPdus, StatusPdus) /\ s <= s
        BY <1>2, <1>6, QueueHasElements DEF BetweenTypes
      <4> QED
        BY <1>6, <2>4, <3>1, <4>1, AcksGrow
    <3>5. a <= r2
      BY <1>6, <2>4
    <3> QED
      BY <1>3, <1>9, <3>1, <3>3, <3>4, <3>5 DEF StatusHas, have2, gone
  <2>9. Reads(sent, s, r, r2)
    <3>1. r2 <= s
      <4>1. r2 <= ms2 /\ ms2 <= h2 /\ h2 <= s
        BY <2>4 DEF ReceiverHas, ReceiverIs
      <4> QED
        BY <1>6, <2>4, <4>1
    <3> QED
      BY <2>4, <3>1 DEF Reads
  <2>10. Holds(sent, a, s, r2, ms2, h2, x2, num2, low, ack, nack)'
    BY <1>8, <2>5, <2>7, <2>8 DEF Holds
  <2>11. AmTypes'
    BY <1>8, <1>13, <2>5 DEF AmTypes
  <2> QED
    BY <2>9, <2>10, <2>11
<1>15. CASE ~InWindow(pdu.sn)
  <2>1. rxon' = rxon /\ vr' = vr /\ reorderingTimer' = reorderingTimer /\ reassembly' = reassembly
    BY <1>5, <1>15 DEF DoReceiveDataPdu
  <2>2. ReceiverTypes' /\ ReceiverHas(sent, r, ms, h, x, s)'
    BY <1>1, <1>2, <1>7, <2>1 DEF ReceiverTypes, ReceiverHas
  <2>3. DataHas(num2, sent, s, h)'
    BY <1>6, <1>12
  <2>4. StatusHas(low, ack, nack, r, h, s, a)'
    BY <1>1, <1>3, <1>9, <2>1 DEF StatusHas
  <2>5. Reads(sent, s, r, r)
    BY <2>1 DEF Reads
  <2>6. Holds(sent, a, s, r, ms, h, x, num2, low, ack, nack)'
    BY <1>8, <2>2, <2>3, <2>4 DEF Holds
  <2>7. AmTypes'
    BY <1>8, <1>13, <2>2 DEF AmTypes
  <2> QED
    BY <2>5, <2>6, <2>7
<1> QED
  BY <1>14, <1>15

\* Nothing but what the receiving entity says of itself, or what is on its way
\* to it, changes.
LEMMA StatusSent ==
  ASSUME AmTypes, NEW sent, NEW a, NEW s, NEW r, NEW ms, NEW h, NEW x, NEW num, NEW low, NEW ack, NEW nack,
         Holds(sent, a, s, r, ms, h, x, num, low, ack, nack), NEW n \in Nat, n > 0,
         statusPdus' = Append(statusPdus, StatusPdu(n)), rxon' = rxon, txed' = txed, retx' = retx
  PROVE  /\ statusPdus' \in Seq(StatusPdus)
         /\ \E low2, ack2, nack2 : StatusHas(low2, ack2, nack2, r, h, s, a)'
<1>1. SenderHas(sent, a, s) /\ ReceiverHas(sent, r, ms, h, x, s) /\ StatusHas(low, ack, nack, r, h, s, a)
  BY DEF Holds
<1>2. /\ a \in Nat /\ s \in Nat /\ r \in Nat /\ ms \in Nat /\ h \in Nat /\ a <= r
      /\ vr.r = No(r) /\ vr.ms = No(ms) /\ ReceiverIs(rxon, sent, r, ms, h, s)
  BY <1>1 DEF SenderHas, ReceiverHas, StatusHas
<1>3. ms <= s
  <2>1. ms <= h /\ h <= s
    BY <1>2 DEF ReceiverIs
  <2> QED
    BY <1>2, <2>1
<1>4. PICK ack0 \in Nat, nack0 \in SUBSET Nat :
           /\ StatusPdu(n) \in StatusPdus /\ StatusPdu(n).overtaken = FALSE
           /\ StatusPdu(n).ackSn = No(ack0) /\ StatusPdu(n).nacks = {No(k) : k \in nack0}
           /\ StatusIs(r, ack0, nack0, a, ms) /\ Tells(ack0, nack0, Have(rxon, r, h))
  BY <1>2, StatusTells
<1>5. AckIs(StatusPdu(n), r, ack0, nack0, r, s, a)
  <2>1. Says(StatusPdu(n), ack0, nack0)
    BY <1>4 DEF Says
  <2>2. StatusIs(r, ack0, nack0, a, s)
    <3>1. ack0 <= ms
      BY <1>4 DEF StatusIs
    <3>2. ack0 <= s
      BY <1>2, <1>3, <1>4, <3>1
    <3> QED
      BY <1>4, <3>2 DEF StatusIs
  <2> QED
    BY <1>2, <2>1, <2>2 DEF AckIs
<1>6. QueueOf(statusPdus, StatusPdus) /\ Len(statusPdus) \in Nat
  BY QueueHasElements DEF AmTypes, BetweenTypes, QueueOf
<1>7. PICK pdu : pdu = StatusPdu(n)
  OBVIOUS
<1>8. statusPdus' \in Seq(StatusPdus) /\ Joined(statusPdus', statusPdus, pdu)
  <2>1. statusPdus \in Seq(StatusPdus) /\ pdu \in StatusPdus /\ statusPdus' = Append(statusPdus, pdu)
    BY <1>4, <1>7 DEF AmTypes, BetweenTypes
  <2> QED
    BY <2>1, LastJoins
<1>9. /\ Counting(low) /\ Counting(ack) /\ Naming(nack) /\ AcksAre(statusPdus, low, ack, nack, r, s, a)
      /\ BeliefsAre(Len(statusPdus), ack, nack, Have(rxon, r, h), Gone(txed, retx, a, s))
      /\ a \notin Gone(txed, retx, a, s)
  BY <1>1 DEF StatusHas
<1>10. PICK l \in Nat : l = Len(statusPdus) /\ Len(statusPdus') = l + 1
  BY <1>6, <1>8 DEF Joined
<1>11. PICK low2, ack2, nack2 :
           /\ low2 = [low EXCEPT ![l + 1] = r] /\ ack2 = [ack EXCEPT ![l + 1] = ack0]
           /\ nack2 = [nack EXCEPT ![l + 1] = nack0]
  OBVIOUS
<1>12. AcksAre(statusPdus', low2, ack2, nack2, r, s, a)
  <2>1. AckIs(pdu, r, ack0, nack0, r, s, a)
    BY <1>5, <1>7
  <2> QED
    BY <1>2, <1>4, <1>6, <1>8, <1>9, <1>10, <1>11, <2>1, AcksJoin
<1>13. BeliefsAre(l + 1, ack2, nack2, Have(rxon, r, h), Gone(txed, retx, a, s))
  <2> DEFINE have == Have(rxon, r, h)  gone == Gone(txed, retx, a, s)
  <2>1. BeliefsAre(l, ack, nack, have, gone) /\ Tells(ack0, nack0, have)
    BY <1>4, <1>9, <1>10
  <2> HIDE DEF have, gone
  <2>2. BeliefsAre(l + 1, ack2, nack2, have, gone)
    BY <1>4, <1>9, <1>11, <2>1, BeliefsJoin
  <2> QED
    BY <2>2 DEF have, gone
<1>14. Counting(low2) /\ Counting(ack2) /\ Naming(nack2)
  BY <1>2, <1>4, <1>9, <1>11 DEF Counting, Naming
<1>15. StatusHas(low2, ack2, nack2, r, h, s, a)'
  BY <1>2, <1>9, <1>10, <1>12, <1>13, <1>14 DEF StatusHas
<1> QED
  BY <1>8, <1>15

LEMMA StatusOpportunityHolds ==
  ASSUME AmTypes, NEW sent, NEW a, NEW s, NEW r, NEW ms, NEW h, NEW x, NEW num, NEW low, NEW ack, NEW nack,
         Holds(sent, a, s, r, ms, h, x, num, low, ack, nack),
         NEW n \in Grants, DoNotifyStatusOpportunity(n)
  PROVE  /\ AmTypes'
         /\ \E low2, ack2, nack2 : Holds(sent, a, s, r, ms, h, x, num, low2, ack2, nack2)'
<1>1. /\ SenderHas(sent, a, s) /\ ReceiverHas(sent, r, ms, h, x, s)
      /\ DataHas(num, sent, s, h) /\ StatusHas(low, ack, nack, r, h, s, a)
      /\ bigEnough = TRUE => Watch(a, s)
  BY DEF Holds
<1>2. SenderTypes /\ ReceiverTypes /\ BetweenTypes /\ HistoryTypes
  BY DEF AmTypes
<1>3. /\ sender' = sender /\ rxon' = rxon /\ vr' = vr /\ reorderingTimer' = reorderingTimer
      /\ dataPdus' = dataPdus /\ losses' = losses /\ cuts' = cuts
      /\ accepted' = accepted /\ offered' = offered
  BY DEF DoNotifyStatusOpportunity
<1>4. SenderTypes' /\ SenderHas(sent, a, s)' /\ (bigEnough' = TRUE => Watch(a, s)')
  BY <1>1, <1>2, <1>3, SenderRests
<1>5. txed' = txed /\ retx' = retx
  BY <1>3 DEF sender
<1>6. status' \in Statuses
  <2>1. \/ status' = [requested |-> FALSE, prohibited |-> TRUE, report |-> FALSE]
        \/ status' = [status EXCEPT !.report = FALSE]
    BY Zenon DEF DoNotifyStatusOpportunity
  <2>2. status \in Statuses
    BY <1>2 DEF ReceiverTypes
  <2>3. CASE status' = [requested |-> FALSE, prohibited |-> TRUE, report |-> FALSE]
    BY <2>3 DEF Statuses
  <2>4. CASE status' = [status EXCEPT !.report = FALSE]
    BY <2>2, <2>4 DEF Statuses
  <2> QED
    BY <2>1, <2>3, <2>4
<1>7. ReceiverTypes' /\ ReceiverHas(sent, r, ms, h, x, s)'
  BY <1>1, <1>2, <1>3, <1>6 DEF ReceiverTypes, ReceiverHas
<1>8. DataHas(num, sent, s, h)'
  BY <1>1, <1>3, DataRests
<1>9. /\ statusPdus' \in Seq(StatusPdus)
      /\ \E low2, ack2, nack2 : StatusHas(low2, ack2, nack2, r, h, s, a)'
  <2>1. CASE statusPdus' = statusPdus
    <3>1. StatusHas(low, ack, nack, r, h, s, a)'
      BY <1>1, <1>3, <1>5, <2>1 DEF StatusHas
    <3> QED
      BY <1>2, <2>1, <3>1 DEF BetweenTypes
  <2>2. CASE statusPdus' = Append(statusPdus, StatusPdu(n))
    <3>1. n \in Nat /\ n > 0
      BY AmConstants
    <3> QED
      BY <1>3, <1>5, <2>2, <3>1, StatusSent
  <2> QED
    BY <2>1, <2>2 DEF DoNotifyStatusOpportunity
<1>10. BetweenTypes' /\ HistoryTypes'
  BY <1>2, <1>3, <1>9 DEF BetweenTypes, HistoryTypes
<1>11. PICK low2, ack2, nack2 : StatusHas(low2, ack2, nack2, r, h, s, a)'
  BY <1>9
<1>12. Holds(sent, a, s, r, ms, h, x, num, low2, ack2, nack2)'
  BY <1>4, <1>7, <1>8, <1>11 DEF Holds
<1>13. AmTypes'
  BY <1>4, <1>7, <1>10 DEF AmTypes
<1> QED
  BY <1>12, <1>13

LEMMA ProhibitHolds ==
  ASSUME AmTypes, NEW sent, NEW a, NEW s, NEW r, NEW ms, NEW h, NEW x, NEW num, NEW low, NEW ack, NEW nack,
         Holds(sent, a, s, r, ms, h, x, num, low, ack, nack), ExpireStatusProhibitTimer
  PROVE  AmTypes' /\ Holds(sent, a, s, r, ms, h, x, num, low, ack, nack)'
<1>1. /\ SenderHas(sent, a, s) /\ ReceiverHas(sent, r, ms, h, x, s)
      /\ DataHas(num, sent, s, h) /\ StatusHas(low, ack, nack, r, h, s, a)
      /\ bigEnough = TRUE => Watch(a, s)
  BY DEF Holds
<1>2. SenderTypes /\ ReceiverTypes /\ BetweenTypes /\ HistoryTypes
  BY DEF AmTypes
<1>3. /\ sender' = sender /\ rxon' = rxon /\ vr' = vr /\ reorderingTimer' = reorderingTimer
      /\ dataPdus' = dataPdus /\ statusPdus' = statusPdus /\ losses' = losses /\ cuts' = cuts
      /\ accepted' = accepted /\ offered' = offered
  BY DEF ExpireStatusProhibitTimer, between
<1>4. SenderTypes' /\ SenderHas(sent, a, s)' /\ (bigEnough' = TRUE => Watch(a, s)')
  BY <1>1, <1>2, <1>3, SenderRests
<1>5. txed' = txed /\ retx' = retx
  BY <1>3 DEF sender
<1>6. status' \in Statuses
  BY <1>2 DEF ExpireStatusProhibitTimer, ReceiverTypes, Statuses
<1>7. ReceiverTypes' /\ ReceiverHas(sent, r, ms, h, x, s)'
  BY <1>1, <1>2, <1>3, <1>6 DEF ReceiverTypes, ReceiverHas
<1>8. DataHas(num, sent, s, h)' /\ StatusHas(low, ack, nack, r, h, s, a)'
  BY <1>1, <1>3, <1>5 DEF DataHas, StatusHas
<1>9. BetweenTypes' /\ HistoryTypes'
  BY <1>2, <1>3 DEF BetweenTypes, HistoryTypes
<1> QED
  BY <1>4, <1>7, <1>8, <1>9 DEF AmTypes, Holds

\* VR(MS) moves up to the first PDU missing behind the gap given up.
LEMMA ReorderingTimerHolds ==
  ASSUME AmTypes, NEW sent, NEW a, NEW s, NEW r, NEW ms, NEW h, NEW x, NEW num, NEW low, NEW ack, NEW nack,
         Holds(sent, a, s, r, ms, h, x, num, low, ack, nack), ExpireReorderingTimer
  PROVE  AmTypes' /\ \E ms2, x2 : Holds(sent, a, s, r, ms2, h, x2, num, low, ack, nack)'
<1>1. /\ SenderHas(sent, a, s) /\ ReceiverHas(sent, r, ms, h, x, s)
      /\ DataHas(num, sent, s, h) /\ StatusHas(low, ack, nack, r, h, s, a)
      /\ bigEnough = TRUE => Watch(a, s)
  BY DEF Holds
<1>2. SenderTypes /\ ReceiverTypes /\ BetweenTypes /\ HistoryTypes
  BY DEF AmTypes
<1>3. /\ sender' = sender /\ rxon' = rxon
      /\ dataPdus' = dataPdus /\ statusPdus' = statusPdus /\ losses' = losses /\ cuts' = cuts
      /\ accepted' = accepted /\ offered' = offered
  BY DEF ExpireReorderingTimer, between
<1>4. SenderTypes' /\ SenderHas(sent, a, s)' /\ (bigEnough' = TRUE => Watch(a, s)')
  BY <1>1, <1>2, <1>3, SenderRests
<1>5. txed' = txed /\ retx' = retx
  BY <1>3 DEF sender
<1>6. status' \in Statuses
  BY <1>2 DEF ExpireReorderingTimer, ReceiverTypes, Statuses
<1> DEFINE newMs == FirstIncomplete(rxon, vr.x)
           again == Dist(vr.h, vr.r) > Dist(newMs, vr.r)
<1>7. /\ reorderingTimer /\ reorderingTimer' = again
      /\ vr' = [vr EXCEPT !.ms = newMs, !.x = IF again THEN vr.h ELSE @]
  BY DEF ExpireReorderingTimer
<1>8. /\ r \in Nat /\ ms \in Nat /\ h \in Nat /\ x \in Nat /\ s \in Nat
      /\ vr.r = No(r) /\ vr.ms = No(ms) /\ vr.h = No(h) /\ vr.x = No(x)
      /\ ReceiverIs(rxon, sent, r, ms, h, s) /\ TimerIs(reorderingTimer, r, x, h)
  BY <1>1, <1>7 DEF ReceiverHas, SenderHas
<1>9. /\ r <= ms /\ ms <= h /\ h <= r + Window /\ h <= s /\ HeldIs(rxon, sent, r, h)
      /\ rxon[No(r)].complete # TRUE /\ r < x /\ x <= h
  BY <1>7, <1>8 DEF ReceiverIs, TimerIs
<1>10. Window \in Nat /\ Window > 0 /\ Modulus = Window + Window
  BY AmConstants
<1>11. rxon[No(h)].complete # TRUE
  <2>1. h <= h /\ h < r + Modulus
    BY <1>8, <1>9, <1>10
  <2>2. rxon[No(h)] = NoPdu
    BY <1>8, <1>9, <2>1 DEF HeldIs
  <2> QED
    BY <2>2 DEF NoPdu
<1>12. PICK m \in Nat :
         x <= m /\ m <= h /\ newMs = No(m) /\ rxon[No(m)].complete # TRUE
  <2>1. x <= h /\ h < x + Modulus
    BY <1>8, <1>9, <1>10
  <2> QED
    BY <1>8, <1>11, <2>1, FirstIncompleteIs
<1> HIDE DEF newMs
<1>13. again <=> m < h
  <2>1. r <= h /\ h < r + Modulus /\ r <= m /\ m < r + Modulus
    BY <1>8, <1>9, <1>10, <1>12
  <2>2. Dist(No(h), No(r)) = h - r /\ Dist(No(m), No(r)) = m - r
    BY <1>8, <1>12, <2>1, DistanceOfNumbers
  <2>3. h - r > m - r <=> m < h
    BY <1>8, <1>12
  <2> QED
    BY <1>8, <1>12, <2>2, <2>3
<1>14. again \in BOOLEAN
  OBVIOUS
<1> HIDE DEF again
<1>15. PICK x2 \in Nat : x2 = (IF again THEN h ELSE x)
  BY <1>8
<1>16. /\ vr' \in Variables /\ vr'.r = No(r) /\ vr'.ms = No(m) /\ vr'.h = No(h) /\ vr'.x = No(x2)
       /\ reorderingTimer' \in BOOLEAN
  <2>1. No(m) \in SNs /\ vr \in Variables /\ vr.h \in SNs /\ vr.x \in SNs
    BY <1>2, <1>12, SumOfNumbers DEF ReceiverTypes, Variables
  <2>2. vr' = [vr EXCEPT !.ms = No(m), !.x = No(x2)]
    BY <1>7, <1>8, <1>12, <1>15
  <2>3. No(x2) \in SNs
    BY <1>15, SumOfNumbers
  <2>4. vr' \in Variables /\ vr'.r = vr.r /\ vr'.ms = No(m) /\ vr'.h = vr.h /\ vr'.x = No(x2)
    BY <2>1, <2>2, <2>3 DEF Variables
  <2> QED
    BY <1>7, <1>8, <1>14, <2>4
<1>17. ReceiverIs(rxon, sent, r, m, h, s)
  <2>1. r <= m
    BY <1>8, <1>9, <1>12
  <2> QED
    BY <1>9, <1>12, <2>1 DEF ReceiverIs
<1>18. TimerIs(reorderingTimer', r, x2, h)
  <2>1. again => x2 = h /\ r < h
    BY <1>8, <1>9, <1>15
  <2>2. h <= h
    BY <1>8
  <2> QED
    BY <1>7, <2>1, <2>2 DEF TimerIs
<1>19. ReceiverTypes'
  BY <1>2, <1>3, <1>6, <1>16 DEF ReceiverTypes
<1>20. ReceiverHas(sent, r, m, h, x2, s)'
  BY <1>3, <1>8, <1>12, <1>15, <1>16, <1>17, <1>18 DEF ReceiverHas
<1>21. DataHas(num, sent, s, h)' /\ StatusHas(low, ack, nack, r, h, s, a)'
  BY <1>1, <1>3, <1>5 DEF DataHas, StatusHas
<1>22. BetweenTypes' /\ HistoryTypes'
  BY <1>2, <1>3 DEF BetweenTypes, HistoryTypes
<1>23. Holds(sent, a, s, r, m, h, x2, num, low, ack, nack)'
  BY <1>4, <1>20, <1>21 DEF Holds
<1>24. AmTypes'
  BY <1>4, <1>19, <1>22 DEF AmTypes
<1> QED
  BY <1>23, <1>24

LEMMA LoseDataHolds ==
  ASSUME AmTypes, NEW sent, NEW a, NEW s, NEW r, NEW ms, NEW h, NEW x, NEW num, NEW low, NEW ack, NEW nack,
         Holds(sent, a, s, r, ms, h, x, num, low, ack, nack), LoseData
  PROVE  AmTypes' /\ \E num2 : Holds(sent, a, s, r, ms, h, x, num2, low, ack, nack)'
<1>1. /\ SenderHas(sent, a, s) /\ ReceiverHas(sent, r, ms, h, x, s)
      /\ DataHas(num, sent, s, h) /\ StatusHas(low, ack, nack, r, h, s, a)
      /\ bigEnough = TRUE => Watch(a, s)
  BY DEF Holds
<1>2. SenderTypes /\ ReceiverTypes /\ BetweenTypes /\ HistoryTypes
  BY DEF AmTypes
<1>3. /\ sender' = sender /\ receiver' = receiver
      /\ statusPdus' = statusPdus /\ cuts' = cuts /\ losses' = losses + 1 /\ losses < MaxLosses
      /\ accepted' = accepted /\ offered' = offered /\ dataPdus # <<>> /\ dataPdus' = Tail(dataPdus)
  BY DEF LoseData
<1>4. SenderTypes' /\ SenderHas(sent, a, s)' /\ (bigEnough' = TRUE => Watch(a, s)')
  BY <1>1, <1>2, <1>3, SenderRests
<1>5. txed' = txed /\ retx' = retx /\ s \in Nat /\ h \in Nat
  BY <1>1, <1>3 DEF sender, SenderHas, ReceiverHas
<1>6. ReceiverTypes' /\ ReceiverHas(sent, r, ms, h, x, s)' /\ rxon' = rxon
  <2>1. Extends(sent, sent, s)
    BY DEF Extends
  <2> QED
    BY <1>1, <1>2, <1>3, <1>5, <2>1, ReceiverRests
<1>7. dataPdus' \in Seq(DataPdus) /\ LeftOver(dataPdus', dataPdus, 1)
  <2>1. dataPdus \in Seq(DataPdus)
    BY <1>2 DEF BetweenTypes
  <2> QED
    BY <1>3, <2>1, HeadIsLeft
<1>8. PICK num2 : num2 = [j \in Nat |-> num[Before(j, 1)]]
  OBVIOUS
<1>9. Counting(num) /\ Counting(num2) /\ QueueOf(dataPdus, DataPdus) /\ DataIs(dataPdus, num, sent, s, h)
  <2>1. Counting(num) /\ QueueOf(dataPdus, DataPdus) /\ DataIs(dataPdus, num, sent, s, h)
    BY <1>1, <1>2, QueueHasElements DEF DataHas, BetweenTypes
  <2>2. \A j \in Nat : Before(j, 1) \in Nat
    BY DEF Before
  <2>3. Counting(num2)
    BY <1>8, <2>1, <2>2 DEF Counting
  <2> QED
    BY <2>1, <2>3
<1>10. DataIs(dataPdus', num2, sent, s, h)
  <2>1. 1 # 2
    OBVIOUS
  <2> QED
    BY <1>5, <1>7, <1>8, <1>9, <2>1, PduLeaves
<1>11. DataHas(num2, sent, s, h)' /\ StatusHas(low, ack, nack, r, h, s, a)'
  BY <1>1, <1>3, <1>5, <1>6, <1>9, <1>10 DEF DataHas, StatusHas
<1>12. losses' \in 0 .. MaxLosses
  BY <1>2, <1>3, RlcAmAssumption DEF BetweenTypes
<1>13. BetweenTypes' /\ HistoryTypes'
  BY <1>2, <1>3, <1>7, <1>12 DEF BetweenTypes, HistoryTypes
<1>14. Holds(sent, a, s, r, ms, h, x, num2, low, ack, nack)'
  BY <1>4, <1>6, <1>11 DEF Holds
<1>15. AmTypes'
  BY <1>4, <1>6, <1>13 DEF AmTypes
<1> QED
  BY <1>14, <1>15

LEMMA LoseStatusHolds ==
  ASSUME AmTypes, NEW sent, NEW a, NEW s, NEW r, NEW ms, NEW h, NEW x, NEW num, NEW low, NEW ack, NEW nack,
         Holds(sent, a, s, r, ms, h, x, num, low, ack, nack), LoseStatus
  PROVE  AmTypes' /\ \E low2, ack2, nack2 : Holds(sent, a, s, r, ms, h, x, num, low2, ack2, nack2)'
<1>1. /\ SenderHas(sent, a, s) /\ ReceiverHas(sent, r, ms, h, x, s)
      /\ DataHas(num, sent, s, h) /\ StatusHas(low, ack, nack, r, h, s, a)
      /\ bigEnough = TRUE => Watch(a, s)
  BY DEF Holds
<1>2. SenderTypes /\ ReceiverTypes /\ BetweenTypes /\ HistoryTypes
  BY DEF AmTypes
<1>3. /\ sender' = sender /\ receiver' = receiver
      /\ dataPdus' = dataPdus /\ cuts' = cuts /\ losses' = losses + 1 /\ losses < MaxLosses
      /\ accepted' = accepted /\ offered' = offered /\ statusPdus # <<>> /\ statusPdus' = Tail(statusPdus)
  BY DEF LoseStatus
<1>4. SenderTypes' /\ SenderHas(sent, a, s)' /\ (bigEnough' = TRUE => Watch(a, s)')
  BY <1>1, <1>2, <1>3, SenderRests
<1>5. txed' = txed /\ retx' = retx /\ s \in Nat /\ a \in Nat /\ r \in Nat
  BY <1>1, <1>3 DEF sender, SenderHas, ReceiverHas
<1>6. ReceiverTypes' /\ ReceiverHas(sent, r, ms, h, x, s)' /\ rxon' = rxon
  <2>1. Extends(sent, sent, s)
    BY DEF Extends
  <2> QED
    BY <1>1, <1>2, <1>3, <1>5, <2>1, ReceiverRests
<1>7. /\ statusPdus' \in Seq(StatusPdus) /\ LeftOver(statusPdus', statusPdus, 1)
      /\ QueueOf(statusPdus, StatusPdus)
  <2>1. statusPdus \in Seq(StatusPdus)
    BY <1>2 DEF BetweenTypes
  <2> QED
    BY <1>3, <2>1, HeadIsLeft, QueueHasElements
<1>8. PICK l \in Nat : l = Len(statusPdus') /\ Len(statusPdus) = l + 1
  BY <1>7 DEF LeftOver, QueueOf
<1>9. /\ Counting(low) /\ Counting(ack) /\ Naming(nack) /\ AcksAre(statusPdus, low, ack, nack, r, s, a)
      /\ BeliefsAre(Len(statusPdus), ack, nack, Have(rxon, r, h), Gone(txed, retx, a, s))
      /\ a \notin Gone(txed, retx, a, s) /\ a <= r
  BY <1>1 DEF StatusHas
<1>10. AcksAre(statusPdus', Shifted(low), Shifted(ack), Shifted(nack), r, s, a)
  BY <1>5, <1>7, <1>9, AcksLeave
<1>11. BeliefsAre(l, Shifted(ack), Shifted(nack), Have(rxon, r, h), Gone(txed, retx, a, s))
  <2> DEFINE have == Have(rxon, r, h)  gone == Gone(txed, retx, a, s)
  <2>1. BeliefsAre(l + 1, ack, nack, have, gone)
    BY <1>8, <1>9
  <2>2. gone \subseteq gone \cup {n \in Nat : Believed(n, ack[1], nack[1])}
    OBVIOUS
  <2> HIDE DEF have, gone
  <2>3. BeliefsAre(l, Shifted(ack), Shifted(nack), have, gone)
    BY <2>1, <2>2, BeliefsLeave
  <2> QED
    BY <2>3 DEF have, gone
<1>12. Counting(Shifted(low)) /\ Counting(Shifted(ack)) /\ Naming(Shifted(nack))
  BY <1>9, ShiftedTypes
<1>13. StatusHas(Shifted(low), Shifted(ack), Shifted(nack), r, h, s, a)'
  BY <1>5, <1>6, <1>8, <1>9, <1>10, <1>11, <1>12 DEF StatusHas
<1>14. losses' \in 0 .. MaxLosses
  BY <1>2, <1>3, RlcAmAssumption DEF BetweenTypes
<1>15. BetweenTypes' /\ HistoryTypes'
  BY <1>2, <1>3, <1>7, <1>14 DEF BetweenTypes, HistoryTypes
<1>16. DataHas(num, sent, s, h)'
  BY <1>1, <1>3, DataRests
<1>17. Holds(sent, a, s, r, ms, h, x, num, Shifted(low), Shifted(ack), Shifted(nack))'
  BY <1>4, <1>6, <1>13, <1>16 DEF Holds
<1>18. AmTypes'
  BY <1>4, <1>6, <1>15 DEF AmTypes
<1> QED
  BY <1>17, <1>18
------------------------------------------------------------------------------
(* The invariant holds. *)

\* What a step does to the stream of units: an SDU joins it, some of it is sent,
\* or some of what was sent is passed up.
Moves(sent, s, r, sent2, s2, r2) ==
  \/ sent2 = sent /\ s2 = s /\ r2 = r /\ reassembly' = reassembly /\ DoTransmitPdcpPdu
  \/ /\ Sends(sent, s, sent2, s2) /\ r2 = r /\ reassembly' = reassembly
     /\ accepted' = accepted /\ offered' = offered
  \/ /\ sent2 = sent /\ s2 = s /\ Reads(sent, s, r, r2)
     /\ txon' = txon /\ accepted' = accepted /\ offered' = offered

LEMMA NothingMoves ==
  ASSUME NEW sent, NEW s, NEW r, txon' = txon, reassembly' = reassembly,
         accepted' = accepted, offered' = offered
  PROVE  Moves(sent, s, r, sent, s, r)
BY DEF Moves, Sends

AmMoves(sent, s, r) ==
  \E sent2, a2, s2, r2, ms2, h2, x2, num2, low2, ack2, nack2 :
    /\ Moves(sent, s, r, sent2, s2, r2)
    /\ Holds(sent2, a2, s2, r2, ms2, h2, x2, num2, low2, ack2, nack2)'

LEMMA NextMoves ==
  ASSUME AmTypes, NEW sent, NEW a, NEW s, NEW r, NEW ms, NEW h, NEW x, NEW num, NEW low, NEW ack, NEW nack,
         Holds(sent, a, s, r, ms, h, x, num, low, ack, nack), ~StatusOvertakes, Next
  PROVE  AmTypes' /\ AmMoves(sent, s, r)
<1>1. CASE DoTransmitPdcpPdu
  <2>1. AmTypes' /\ Holds(sent, a, s, r, ms, h, x, num, low, ack, nack)'
    BY <1>1, SduHolds
  <2>2. reassembly' = reassembly
    BY <1>1 DEF DoTransmitPdcpPdu, receiver
  <2>3. Moves(sent, s, r, sent, s, r)
    BY <1>1, <2>2 DEF Moves
  <2> QED
    BY <2>1, <2>3 DEF AmMoves
<1>2. CASE TxOpportunity
  <2>1. PICK n \in Grants : DoNotifyTxOpportunity(n)
    BY <1>2 DEF TxOpportunity
  <2>2. /\ AmTypes'
        /\ \E sent2, s2, num2 :
             Sends(sent, s, sent2, s2) /\ Holds(sent2, a, s2, r, ms, h, x, num2, low, ack, nack)'
    BY <2>1, TxHolds
  <2>3. PICK sent2, s2, num2 :
          Sends(sent, s, sent2, s2) /\ Holds(sent2, a, s2, r, ms, h, x, num2, low, ack, nack)'
    BY <2>2
  <2>4. reassembly' = reassembly /\ accepted' = accepted /\ offered' = offered
    BY <2>1 DEF DoNotifyTxOpportunity, receiver
  <2>5. Moves(sent, s, r, sent2, s2, r)
    BY <2>3, <2>4 DEF Moves
  <2> QED
    BY <2>2, <2>3, <2>5 DEF AmMoves
<1>3. CASE ReceiveControlPdu
  <2>1. PICK i \in 1 .. 2 : DoReceiveControlPdu(i)
    BY <1>3 DEF ReceiveControlPdu
  <2>2. /\ AmTypes'
        /\ \E a2, low2, ack2, nack2 : Holds(sent, a2, s, r, ms, h, x, num, low2, ack2, nack2)'
    BY <2>1, StatusHolds
  <2>3. PICK a2, low2, ack2, nack2 : Holds(sent, a2, s, r, ms, h, x, num, low2, ack2, nack2)'
    BY <2>2
  <2>4. /\ reassembly' = reassembly /\ txon' = txon
        /\ accepted' = accepted /\ offered' = offered
    BY <2>1 DEF DoReceiveControlPdu, receiver
  <2>5. Moves(sent, s, r, sent, s, r)
    BY <2>4, NothingMoves
  <2> QED
    BY <2>2, <2>3, <2>5 DEF AmMoves
<1>4. CASE ExpirePollRetransmitTimer
  <2>1. AmTypes' /\ Holds(sent, a, s, r, ms, h, x, num, low, ack, nack)'
    BY <1>4, PollTimerHolds
  <2>2. /\ reassembly' = reassembly /\ txon' = txon
        /\ accepted' = accepted /\ offered' = offered
    BY <1>4 DEF ExpirePollRetransmitTimer, receiver
  <2>3. Moves(sent, s, r, sent, s, r)
    BY <2>2, NothingMoves
  <2> QED
    BY <2>1, <2>3 DEF AmMoves
<1>5. CASE ExpireRbsTimer
  <2>1. AmTypes' /\ Holds(sent, a, s, r, ms, h, x, num, low, ack, nack)'
    BY <1>5, RbsHolds
  <2>2. /\ reassembly' = reassembly /\ txon' = txon
        /\ accepted' = accepted /\ offered' = offered
    BY <1>5 DEF ExpireRbsTimer, receiver
  <2>3. Moves(sent, s, r, sent, s, r)
    BY <2>2, NothingMoves
  <2> QED
    BY <2>1, <2>3 DEF AmMoves
<1>6. CASE ReceiveDataPdu
  <2>1. PICK i \in 1 .. 2 : DoReceiveDataPdu(i)
    BY <1>6 DEF ReceiveDataPdu
  <2>2. /\ AmTypes'
        /\ \E r2, ms2, h2, x2, num2 :
             Reads(sent, s, r, r2) /\ Holds(sent, a, s, r2, ms2, h2, x2, num2, low, ack, nack)'
    BY <2>1, DataHolds
  <2>3. PICK r2, ms2, h2, x2, num2 :
          Reads(sent, s, r, r2) /\ Holds(sent, a, s, r2, ms2, h2, x2, num2, low, ack, nack)'
    BY <2>2
  <2>4. txon' = txon /\ accepted' = accepted /\ offered' = offered
    BY <2>1 DEF DoReceiveDataPdu, sender
  <2>5. Moves(sent, s, r, sent, s, r2)
    BY <2>3, <2>4 DEF Moves
  <2> QED
    BY <2>2, <2>3, <2>5 DEF AmMoves
<1>7. CASE StatusOpportunity
  <2>1. PICK n \in Grants : DoNotifyStatusOpportunity(n)
    BY <1>7 DEF StatusOpportunity
  <2>2. /\ AmTypes'
        /\ \E low2, ack2, nack2 : Holds(sent, a, s, r, ms, h, x, num, low2, ack2, nack2)'
    BY <2>1, StatusOpportunityHolds
  <2>3. PICK low2, ack2, nack2 : Holds(sent, a, s, r, ms, h, x, num, low2, ack2, nack2)'
    BY <2>2
  <2>4. /\ reassembly' = reassembly /\ txon' = txon
        /\ accepted' = accepted /\ offered' = offered
    BY <2>1 DEF DoNotifyStatusOpportunity, sender
  <2>5. Moves(sent, s, r, sent, s, r)
    BY <2>4, NothingMoves
  <2> QED
    BY <2>2, <2>3, <2>5 DEF AmMoves
<1>8. CASE ExpireStatusProhibitTimer
  <2>1. AmTypes' /\ Holds(sent, a, s, r, ms, h, x, num, low, ack, nack)'
    BY <1>8, ProhibitHolds
  <2>2. /\ reassembly' = reassembly /\ txon' = txon
        /\ accepted' = accepted /\ offered' = offered
    BY <1>8 DEF ExpireStatusProhibitTimer, sender
  <2>3. Moves(sent, s, r, sent, s, r)
    BY <2>2, NothingMoves
  <2> QED
    BY <2>1, <2>3 DEF AmMoves
<1>9. CASE ExpireReorderingTimer
  <2>1. AmTypes' /\ \E ms2, x2 : Holds(sent, a, s, r, ms2, h, x2, num, low, ack, nack)'
    BY <1>9, ReorderingTimerHolds
  <2>2. PICK ms2, x2 : Holds(sent, a, s, r, ms2, h, x2, num, low, ack, nack)'
    BY <2>1
  <2>3. /\ reassembly' = reassembly /\ txon' = txon
        /\ accepted' = accepted /\ offered' = offered
    BY <1>9 DEF ExpireReorderingTimer, sender
  <2>4. Moves(sent, s, r, sent, s, r)
    BY <2>3, NothingMoves
  <2> QED
    BY <2>1, <2>2, <2>4 DEF AmMoves
<1>10. CASE LoseData
  <2>1. AmTypes' /\ \E num2 : Holds(sent, a, s, r, ms, h, x, num2, low, ack, nack)'
    BY <1>10, LoseDataHolds
  <2>2. PICK num2 : Holds(sent, a, s, r, ms, h, x, num2, low, ack, nack)'
    BY <2>1
  <2>3. /\ reassembly' = reassembly /\ txon' = txon
        /\ accepted' = accepted /\ offered' = offered
    BY <1>10 DEF LoseData, sender, receiver
  <2>4. Moves(sent, s, r, sent, s, r)
    BY <2>3, NothingMoves
  <2> QED
    BY <2>1, <2>2, <2>4 DEF AmMoves
<1>11. CASE LoseStatus
  <2>1. AmTypes' /\ \E low2, ack2, nack2 : Holds(sent, a, s, r, ms, h, x, num, low2, ack2, nack2)'
    BY <1>11, LoseStatusHolds
  <2>2. PICK low2, ack2, nack2 : Holds(sent, a, s, r, ms, h, x, num, low2, ack2, nack2)'
    BY <2>1
  <2>3. /\ reassembly' = reassembly /\ txon' = txon
        /\ accepted' = accepted /\ offered' = offered
    BY <1>11 DEF LoseStatus, sender, receiver
  <2>4. Moves(sent, s, r, sent, s, r)
    BY <2>3, NothingMoves
  <2> QED
    BY <2>1, <2>2, <2>4 DEF AmMoves
<1> QED
  BY <1>1, <1>2, <1>3, <1>4, <1>5, <1>6, <1>7, <1>8, <1>9, <1>10, <1>11 DEF Next

LEMMA StutterMoves ==
  ASSUME AmTypes, NEW sent, NEW a, NEW s, NEW r, NEW ms, NEW h, NEW x, NEW num, NEW low, NEW ack, NEW nack,
         Holds(sent, a, s, r, ms, h, x, num, low, ack, nack), UNCHANGED vars
  PROVE  AmTypes' /\ AmMoves(sent, s, r)
<1>1. /\ txon' = txon /\ txed' = txed /\ retx' = retx /\ retxSeg' = retxSeg /\ vtA' = vtA /\ vtS' = vtS
      /\ poll' = poll /\ rbsTimer' = rbsTimer /\ report' = report /\ bigEnough' = bigEnough
      /\ receiver' = receiver /\ reassembly' = reassembly
      /\ dataPdus' = dataPdus /\ statusPdus' = statusPdus /\ losses' = losses /\ cuts' = cuts
      /\ accepted' = accepted /\ offered' = offered
  BY DEF vars, sender, receiver, between
<1>2. AmTypes' /\ Holds(sent, a, s, r, ms, h, x, num, low, ack, nack)'
  <2>1. report' \in BOOLEAN /\ rbsTimer' \in BOOLEAN
    BY <1>1 DEF AmTypes, SenderTypes
  <2> QED
    BY <1>1, <2>1, ReportOnly
<1>3. Moves(sent, s, r, sent, s, r)
  BY <1>1, NothingMoves
<1> QED
  BY <1>2, <1>3 DEF AmMoves

LEMMA InitTypes ==
  ASSUME Init
  PROVE  AmTypes
<1>1. <<>> \in Pieces /\ <<>> \in Seq(DataPdus) /\ <<>> \in Seq(StatusPdus) /\ <<>> \in Seq(1 .. NSdus)
  BY EmptySeq DEF Pieces
<1>2. 0 \in SNs /\ 0 \in Nat /\ 0 \in 0 .. NSdus /\ 0 \in 0 .. MaxLosses /\ 0 \in 0 .. MaxCuts /\ 0 <= MaxTxBuffer
  BY AmConstants, RlcAmAssumption
<1>3. SenderTypes
  <2>1. Len(<<>>) = 0
    OBVIOUS
  <2>2. /\ txon \in Pieces /\ Len(txon) <= MaxTxBuffer
        /\ vtA \in SNs /\ vtS \in SNs /\ rbsTimer \in BOOLEAN /\ report \in BOOLEAN /\ bigEnough \in BigEnough
    BY <1>1, <1>2, <2>1 DEF Init
  <2>3. txed \in Buffers /\ retx \in Buffers /\ retxSeg \in [SNs -> Nat]
    BY <1>1, <1>2 DEF Init, Buffers
  <2>4. poll \in Polls
    BY <1>2 DEF Init, Polls
  <2> QED
    BY <2>2, <2>3, <2>4 DEF SenderTypes
<1>4. ReceiverTypes
  <2>1. NoPdu \in Entries
    BY <1>1 DEF NoPdu, Entries
  <2>2. Buffered(rxon)
    BY <2>1 DEF Init, Buffered
  <2>3. vr \in Variables /\ status \in Statuses /\ reorderingTimer \in BOOLEAN
    BY <1>2 DEF Init, Variables, Statuses
  <2> QED
    BY <2>2, <2>3 DEF ReceiverTypes
<1>5. BetweenTypes /\ HistoryTypes
  BY <1>1, <1>2 DEF Init, BetweenTypes, HistoryTypes
<1> QED
  BY <1>3, <1>4, <1>5 DEF AmTypes

NothingSent == [n \in Nat |-> <<>>]

LEMMA InitHolds ==
  ASSUME Init
  PROVE  Holds(NothingSent, 0, 0, 0, 0, 0, 0, [i \in Nat |-> 0],
               [i \in Nat |-> 0], [i \in Nat |-> 0], [i \in Nat |-> {}])
<1> DEFINE num == [i \in Nat |-> 0]  names == [i \in Nat |-> {}]
<1>1. /\ Sent(NothingSent) /\ Counting(num) /\ Naming(names) /\ 0 \in Nat /\ No(0) = 0
      /\ \A n \in Nat : No(n) \in SNs
  <2>1. <<>> \in Pieces
    BY EmptySeq DEF Pieces
  <2>2. No(0) = 0
    BY AmConstants, Modulo DEF No
  <2> QED
    BY <2>1, <2>2, SumOfNumbers DEF Sent, NothingSent, Counting, Naming
<1> HIDE DEF num, names
<1>2. SenderHas(NothingSent, 0, 0)
  <2>1. vtA = No(0) /\ vtS = No(0)
    BY <1>1 DEF Init
  <2>2. \A n \in Nat : Idle(txed, retx, retxSeg, No(n))
    BY <1>1 DEF Init, Idle
  <2>3. Window \in Nat /\ \A n \in Nat : ~(0 <= n /\ n < 0)
    BY AmConstants
  <2>4. SenderIs(txed, retx, retxSeg, NothingSent, 0, 0)
    BY <2>2, <2>3 DEF SenderIs
  <2> QED
    BY <1>1, <2>1, <2>4 DEF SenderHas
<1>3. ReceiverHas(NothingSent, 0, 0, 0, 0, 0)
  <2>1. vr.r = No(0) /\ vr.ms = No(0) /\ vr.h = No(0) /\ reorderingTimer = FALSE
    BY <1>1 DEF Init
  <2>2. \A n \in Nat : rxon[No(n)] = NoPdu
    BY <1>1 DEF Init
  <2>3. Window \in Nat /\ 0 <= 0 /\ 0 <= 0 + Window /\ \A n \in Nat : ~(0 <= n /\ n < 0)
    BY AmConstants
  <2>4. HeldIs(rxon, NothingSent, 0, 0)
    BY <2>2, <2>3 DEF HeldIs
  <2>5. NoPdu.complete # TRUE
    BY DEF NoPdu
  <2>6. ReceiverIs(rxon, NothingSent, 0, 0, 0, 0)
    BY <1>1, <2>2, <2>3, <2>4, <2>5 DEF ReceiverIs
  <2>7. TimerIs(reorderingTimer, 0, 0, 0)
    BY <2>1 DEF TimerIs
  <2> QED
    BY <1>1, <2>1, <2>6, <2>7 DEF ReceiverHas
<1>4. DataHas(num, NothingSent, 0, 0)
  <2>1. dataPdus = <<>> /\ Len(dataPdus) = 0
    BY DEF Init
  <2>2. \A i \in 1 .. Len(dataPdus) : FALSE
    BY <2>1
  <2>3. DataIs(dataPdus, num, NothingSent, 0, 0)
    BY <2>2 DEF DataIs
  <2> QED
    BY <1>1, <2>3 DEF DataHas
<1>5. StatusHas(num, num, names, 0, 0, 0, 0)
  <2>1. statusPdus = <<>> /\ Len(statusPdus) = 0
    BY DEF Init
  <2>2. \A i \in 1 .. Len(statusPdus) : FALSE
    BY <2>1
  <2>3. AcksAre(statusPdus, num, num, names, 0, 0, 0)
    BY <2>2 DEF AcksAre
  <2>4. \A n : n \notin Gone(txed, retx, 0, 0)
    <3>1. \A n \in Nat : ~(0 <= n /\ n < 0)
      OBVIOUS
    <3> QED
      BY <3>1 DEF Gone
  <2>5. BeliefsAre(Len(statusPdus), num, names, Have(rxon, 0, 0), Gone(txed, retx, 0, 0))
    BY <2>2, <2>4 DEF BeliefsAre
  <2>6. 0 <= 0
    OBVIOUS
  <2> QED
    BY <1>1, <2>3, <2>4, <2>5, <2>6 DEF StatusHas
<1>6. Watch(0, 0)
  <2>1. \A sn \in SNs : retxSeg[sn] = 0
    BY DEF Init
  <2>2. ~(0 < 0) /\ 0 < 0 + Window
    BY AmConstants
  <2> QED
    BY <2>1, <2>2 DEF Watch
<1>7. Holds(NothingSent, 0, 0, 0, 0, 0, 0, num, num, num, names)
  BY <1>2, <1>3, <1>4, <1>5, <1>6 DEF Holds
<1> QED
  BY <1>7 DEF num, names
------------------------------------------------------------------------------
(* What follows from it. *)

LEMMA TypesAreRight ==
  ASSUME AmTypes
  PROVE  TypeOK
<1>1. SenderTypes /\ ReceiverTypes /\ BetweenTypes /\ HistoryTypes
  BY DEF AmTypes
<1>2. /\ txon \in Seq(Units) /\ Len(txon) <= MaxTxBuffer
      /\ txed \in [SNs -> Seq(Units)] /\ retx \in [SNs -> Seq(Units)] /\ retxSeg \in [SNs -> Nat]
      /\ vtA \in SNs /\ vtS \in SNs
      /\ poll \in [sn : SNs, timer : BOOLEAN, justExpired : BOOLEAN]
      /\ rbsTimer \in BOOLEAN /\ report \in BOOLEAN /\ bigEnough \in BigEnough
  BY <1>1, Zenon DEF SenderTypes, Buffers, Pieces, Polls
<1>3. /\ rxon \in [SNs -> [units : Seq(Units), complete : BOOLEAN]]
      /\ vr \in [r : SNs, x : SNs, ms : SNs, h : SNs] /\ reorderingTimer \in BOOLEAN
      /\ status \in [requested : BOOLEAN, prohibited : BOOLEAN, report : BOOLEAN]
  BY <1>1, Zenon DEF ReceiverTypes, Buffered, Entries, Pieces, Variables, Statuses
<1>4. /\ losses \in 0 .. MaxLosses /\ cuts \in 0 .. MaxCuts
      /\ offered \in 0 .. NSdus /\ accepted \in Seq(1 .. NSdus)
  BY <1>1, Zenon DEF BetweenTypes, HistoryTypes
<1> QED
  BY <1>2, <1>3, <1>4, Zenon DEF TypeOK, Units

\* The outstanding sequence numbers are those of the PDUs from a up to s.
LEMMA OutstandingIs ==
  ASSUME NEW sent, NEW a, NEW s, SenderHas(sent, a, s), NEW n \in Nat, a <= n, n < s
  PROVE  No(n) \in Outstanding
<1>1. /\ a \in Nat /\ s \in Nat /\ vtA = No(a) /\ vtS = No(s) /\ a <= s /\ s < a + Modulus
  <2>1. /\ a \in Nat /\ s \in Nat /\ vtA = No(a) /\ vtS = No(s) /\ a <= s /\ s <= a + Window
    BY DEF SenderHas, SenderIs
  <2> QED
    BY <2>1, AmConstants
<1>2. Dist(vtS, vtA) = s - a
  BY <1>1, DistanceOfNumbers
<1>3. n - a \in 0 .. Dist(vtS, vtA) - 1 /\ n - a \in Nat /\ a + (n - a) = n
  BY <1>1, <1>2
<1>4. Plus(vtA, n - a) = No(n)
  BY <1>1, <1>3, SumOfNumbers
<1> QED
  BY <1>3, <1>4 DEF Outstanding

LEMMA UnackedIsKept ==
  ASSUME NEW sent, NEW a, NEW s, SenderHas(sent, a, s), a \notin Gone(txed, retx, a, s)
  PROVE  FirstUnackedIsKept
<1>1. /\ a \in Nat /\ s \in Nat /\ vtA = No(a) /\ vtS = No(s)
      /\ SenderIs(txed, retx, retxSeg, sent, a, s)
  BY DEF SenderHas
<1>2. ASSUME NEW sn \in SNs
      PROVE  /\ txed[sn] = <<>> \/ retx[sn] = <<>>
             /\ sn \notin Outstanding => txed[sn] = <<>> /\ retx[sn] = <<>> /\ retxSeg[sn] = 0
  <2>1. PICK n \in Nat : a <= n /\ n < a + Modulus /\ No(n) = sn
    BY <1>1, NumberFound
  <2>2. CASE n < s
    <3>1. Waits(txed, retx, retxSeg, sent[n], sn)
      BY <1>1, <2>1, <2>2 DEF SenderIs
    <3>2. sn \in Outstanding
      BY <2>1, <2>2, OutstandingIs
    <3> QED
      BY <3>1, <3>2 DEF Waits
  <2>3. CASE ~(n < s)
    <3>1. s <= n
      BY <1>1, <2>3
    <3>2. Idle(txed, retx, retxSeg, sn)
      BY <1>1, <2>1, <3>1 DEF SenderIs
    <3> QED
      BY <3>2 DEF Idle
  <2> QED
    BY <2>2, <2>3
<1>3. ASSUME vtA # vtS
      PROVE  txed[vtA] # <<>> \/ retx[vtA] # <<>>
  <2>1. a <= a /\ a < s
    <3>1. a # s /\ a <= s
      BY <1>1, <1>3 DEF SenderIs
    <3> QED
      BY <1>1, <3>1
  <2> QED
    BY <1>1, <2>1 DEF Gone
<1> QED
  BY <1>2, <1>3 DEF FirstUnackedIsKept

LEMMA PollIsWatched ==
  ASSUME AmTypes, NEW sent, NEW a, NEW s, SenderHas(sent, a, s), bigEnough = TRUE => Watch(a, s)
  PROVE  OutstandingIsWatched
<1> SUFFICES ASSUME bigEnough, vtA # vtS, txon = <<>> \/ Stalled, ~RetxPending
             PROVE  poll.timer \/ (poll.justExpired /\ ~Stalled)
  BY DEF OutstandingIsWatched
<1>1. bigEnough = TRUE
  BY RlcAmAssumption DEF AmTypes, SenderTypes
<1>2. /\ a \in Nat /\ s \in Nat /\ vtA = No(a) /\ vtS = No(s) /\ a <= s
  BY DEF SenderHas, SenderIs
<1>3. a < s
  BY <1>2
<1>4. \/ Asked(poll, s) \/ poll.justExpired = TRUE
      \/ txon # <<>> /\ s < a + Window
      \/ \E m \in Nat : NoneBehind(txed, retx, m, a, s)
  BY <1>1, <1>3 DEF Watch
<1>5. ~(txon # <<>> /\ s < a + Window)
  BY StalledIs
<1>6. ~ \E m \in Nat : NoneBehind(txed, retx, m, a, s)
  <2>1. \A m \in Nat : No(m) \in SNs
    BY SumOfNumbers
  <2> QED
    BY <2>1 DEF NoneBehind, RetxPending
<1>7. poll.justExpired = TRUE => ~Stalled
  <2>1. retx[No(a)] = <<>>
    BY <1>2, SumOfNumbers DEF RetxPending
  <2>2. poll.justExpired = TRUE => s < a + Window
    BY <1>1, <2>1 DEF Watch
  <2> QED
    BY <2>2, StalledIs
<1> QED
  BY <1>4, <1>5, <1>6, <1>7 DEF Asked
------------------------------------------------------------------------------
(* The stream of units.  A place in it is an SDU, counted from 1 on among   *)
(* those taken over, and how many units of it came before.                  *)

Spot(j, k) == j \in Nat /\ j > 0 /\ k \in Nat /\ k < SduUnits

\* The unit at a place, and the place behind it.
PassAt(acc, unit, j, k, j2, k2) ==
  /\ j <= Len(acc) /\ unit = <<acc[j], k + 1>>
  /\ IF k + 1 = SduUnits THEN j2 = j + 1 /\ k2 = 0 ELSE j2 = j /\ k2 = k + 1

Passes(acc, c, fj, fk) ==
  /\ \A i \in Nat : i <= Len(c) => Spot(fj[i], fk[i])
  /\ \A i \in Nat : i < Len(c) => PassAt(acc, c[i + 1], fj[i], fk[i], fj[i + 1], fk[i + 1])

\* These units are the stream between two places.
Flow(acc, c, j, k, j2, k2) ==
  \E fj, fk : /\ Passes(acc, c, fj, fk)
              /\ fj[0] = j /\ fk[0] = k /\ fj[Len(c)] = j2 /\ fk[Len(c)] = k2

LEMMA FlowEnds ==
  ASSUME NEW acc, NEW c \in Pieces, NEW j, NEW k, NEW j2, NEW k2, Flow(acc, c, j, k, j2, k2)
  PROVE  /\ Spot(j, k) /\ Spot(j2, k2)
         /\ Len(c) > 0 => j <= Len(acc) /\ c[1] = <<acc[j], k + 1>>
         /\ Len(c) = 0 => j2 = j /\ k2 = k
<1>1. PICK fj, fk : /\ Passes(acc, c, fj, fk)
                    /\ fj[0] = j /\ fk[0] = k /\ fj[Len(c)] = j2 /\ fk[Len(c)] = k2
  BY DEF Flow
<1>2. Len(c) \in Nat /\ 0 \in Nat /\ 0 <= Len(c) /\ Len(c) <= Len(c)
  BY LenProperties DEF Pieces
<1>3. Spot(j, k) /\ Spot(j2, k2)
  BY <1>1, <1>2 DEF Passes
<1>4. ASSUME Len(c) > 0 PROVE j <= Len(acc) /\ c[1] = <<acc[j], k + 1>>
  <2>1. 0 < Len(c) /\ 0 + 1 = 1
    BY <1>2, <1>4
  <2>2. PassAt(acc, c[1], fj[0], fk[0], fj[1], fk[1])
    BY <1>1, <1>2, <2>1 DEF Passes
  <2> QED
    BY <1>1, <2>2 DEF PassAt
<1> QED
  BY <1>1, <1>3, <1>4

LEMMA EmptyFlow ==
  ASSUME NEW acc, NEW j, NEW k, Spot(j, k)
  PROVE  Flow(acc, <<>>, j, k, j, k)
<1> DEFINE fj == [i \in Nat |-> j]  fk == [i \in Nat |-> k]
<1>1. Len(<<>>) = 0 /\ 0 \in Nat /\ fj[0] = j /\ fk[0] = k /\ \A i \in Nat : ~(i < 0)
  OBVIOUS
<1>2. \A i \in Nat : fj[i] = j /\ fk[i] = k
  OBVIOUS
<1> HIDE DEF fj, fk
<1>3. Passes(acc, <<>>, fj, fk)
  BY <1>1, <1>2 DEF Passes
<1> QED
  BY <1>1, <1>3 DEF Flow

\* One unit is read.
LEMMA UnitFlows ==
  ASSUME NEW acc, NEW c, Len(c) = 1, NEW j, NEW k, NEW j2, NEW k2, Spot(j, k), Spot(j2, k2),
         PassAt(acc, c[1], j, k, j2, k2)
  PROVE  Flow(acc, c, j, k, j2, k2)
<1> DEFINE fj == [i \in Nat |-> IF i = 0 THEN j ELSE j2]
           fk == [i \in Nat |-> IF i = 0 THEN k ELSE k2]
<1>1. fj[0] = j /\ fk[0] = k /\ fj[1] = j2 /\ fk[1] = k2
  OBVIOUS
<1>2. \A i \in Nat : (i <= 1 => i = 0 \/ i = 1) /\ (i < 1 => i = 0)
  OBVIOUS
<1> HIDE DEF fj, fk
<1>3. 0 + 1 = 1
  OBVIOUS
<1>4. Passes(acc, c, fj, fk)
  BY <1>1, <1>2, <1>3 DEF Passes
<1> QED
  BY <1>1, <1>4 DEF Flow

\* Two stretches, one behind the other.
LEMMA FlowJoins ==
  ASSUME NEW acc, NEW c \in Pieces, NEW d \in Pieces,
         NEW j, NEW k, NEW j1, NEW k1, NEW j2, NEW k2,
         Flow(acc, c, j, k, j1, k1), Flow(acc, d, j1, k1, j2, k2)
  PROVE  c \o d \in Pieces /\ Flow(acc, c \o d, j, k, j2, k2)
<1>1. PICK ej, ek : /\ Passes(acc, c, ej, ek)
                    /\ ej[0] = j /\ ek[0] = k /\ ej[Len(c)] = j1 /\ ek[Len(c)] = k1
  BY DEF Flow
<1>2. PICK fj, fk : /\ Passes(acc, d, fj, fk)
                    /\ fj[0] = j1 /\ fk[0] = k1 /\ fj[Len(d)] = j2 /\ fk[Len(d)] = k2
  BY DEF Flow
<1> DEFINE l == Len(c)  m == Len(d)  both == c \o d
           gj == [i \in Nat |-> IF i <= l THEN ej[i] ELSE fj[i - l]]
           gk == [i \in Nat |-> IF i <= l THEN ek[i] ELSE fk[i - l]]
<1>3. /\ both \in Pieces /\ Len(both) = l + m /\ l \in Nat /\ m \in Nat
      /\ \A i \in 1 .. l : both[i] = c[i]
      /\ \A i \in 1 .. m : both[l + i] = d[i]
  BY JoinedParts DEF Pieces
<1>4. \A i \in Nat : i <= l => gj[i] = ej[i] /\ gk[i] = ek[i]
  OBVIOUS
<1>5. \A i \in Nat : gj[l + i] = fj[i] /\ gk[l + i] = fk[i]
  <2> SUFFICES ASSUME NEW i \in Nat PROVE gj[l + i] = fj[i] /\ gk[l + i] = fk[i]
    OBVIOUS
  <2>1. l + i \in Nat /\ (l + i) - l = i /\ (l + i <= l => i = 0 /\ l + i = l)
    BY <1>3
  <2>2. CASE l + i <= l
    BY <1>1, <1>2, <2>1, <2>2
  <2>3. CASE ~(l + i <= l)
    BY <2>1, <2>3
  <2> QED
    BY <2>2, <2>3
<1> HIDE DEF gj, gk, both
<1>6. ASSUME NEW i \in Nat, i <= l + m
      PROVE  (i <= l) \/ \E q \in Nat : q <= m /\ i = l + q
  <2>1. ~(i <= l) => i - l \in Nat /\ i - l <= m /\ i = l + (i - l)
    BY <1>3, <1>6
  <2> QED
    BY <2>1
<1>7. ASSUME NEW i \in Nat, i < l + m
      PROVE  (i < l) \/ \E q \in Nat : q < m /\ i = l + q
  <2>1. ~(i < l) => i - l \in Nat /\ i - l < m /\ i = l + (i - l)
    BY <1>3, <1>7
  <2> QED
    BY <2>1
<1>8. ASSUME NEW i \in Nat, i <= l + m PROVE Spot(gj[i], gk[i])
  <2>1. CASE i <= l
    BY <1>1, <1>4, <2>1 DEF Passes
  <2>2. CASE \E q \in Nat : q <= m /\ i = l + q
    BY <1>2, <1>5, <2>2 DEF Passes
  <2> QED
    BY <1>6, <1>8, <2>1, <2>2
<1>9. ASSUME NEW i \in Nat, i < l + m
      PROVE  PassAt(acc, both[i + 1], gj[i], gk[i], gj[i + 1], gk[i + 1])
  <2>1. CASE i < l
    <3>1. i <= l /\ i + 1 <= l /\ i + 1 \in 1 .. l /\ i + 1 \in Nat
      BY <1>3, <2>1
    <3>2. PassAt(acc, c[i + 1], ej[i], ek[i], ej[i + 1], ek[i + 1])
      BY <1>1, <2>1 DEF Passes
    <3> QED
      BY <1>3, <1>4, <3>1, <3>2
  <2>2. CASE \E q \in Nat : q < m /\ i = l + q
    <3>1. PICK q \in Nat : q < m /\ i = l + q
      BY <2>2
    <3>2. q + 1 \in Nat /\ q + 1 \in 1 .. m /\ i + 1 = l + (q + 1)
      BY <1>3, <3>1
    <3>3. PassAt(acc, d[q + 1], fj[q], fk[q], fj[q + 1], fk[q + 1])
      BY <1>2, <3>1 DEF Passes
    <3>4. gj[i] = fj[q] /\ gk[i] = fk[q] /\ gj[i + 1] = fj[q + 1] /\ gk[i + 1] = fk[q + 1]
      BY <1>5, <3>1, <3>2
    <3>5. both[i + 1] = d[q + 1]
      BY <1>3, <3>2
    <3> QED
      BY <3>3, <3>4, <3>5
  <2> QED
    BY <1>7, <1>9, <2>1, <2>2
<1>10. Passes(acc, both, gj, gk)
  BY <1>3, <1>8, <1>9 DEF Passes
<1>11. gj[0] = j /\ gk[0] = k /\ gj[l + m] = j2 /\ gk[l + m] = k2
  <2>1. 0 \in Nat /\ 0 <= l
    BY <1>3
  <2>2. gj[0] = ej[0] /\ gk[0] = ek[0]
    BY <1>4, <2>1
  <2>3. gj[l + m] = fj[m] /\ gk[l + m] = fk[m]
    BY <1>3, <1>5
  <2> QED
    BY <1>1, <1>2, <2>2, <2>3
<1>12. Flow(acc, both, j, k, j2, k2)
  BY <1>3, <1>10, <1>11 DEF Flow
<1> QED
  BY <1>3, <1>12 DEF both

\* One stretch cut in two.
LEMMA FlowCuts ==
  ASSUME NEW acc, NEW c \in Pieces, NEW j, NEW k, NEW j2, NEW k2, Flow(acc, c, j, k, j2, k2),
         NEW m \in 1 .. Len(c)
  PROVE  \E j1, k1 : /\ Flow(acc, SubSeq(c, 1, m), j, k, j1, k1)
                     /\ Flow(acc, SubSeq(c, m + 1, Len(c)), j1, k1, j2, k2)
<1>1. PICK fj, fk : /\ Passes(acc, c, fj, fk)
                    /\ fj[0] = j /\ fk[0] = k /\ fj[Len(c)] = j2 /\ fk[Len(c)] = k2
  BY DEF Flow
<1> DEFINE l == Len(c)  first == SubSeq(c, 1, m)  rest == SubSeq(c, m + 1, Len(c))
           gj == [i \in Nat |-> fj[m + i]]  gk == [i \in Nat |-> fk[m + i]]
<1>2. l \in Nat /\ m \in 0 .. l /\ m \in Nat /\ m <= l
  BY LenProperties DEF Pieces
<1>3. /\ Len(first) = m /\ Len(rest) = l - m
      /\ \A i \in 1 .. m : first[i] = c[i]
      /\ \A i \in 1 .. l - m : rest[i] = c[m + i]
  BY <1>2, TwoParts DEF Pieces
<1>4. \A i \in Nat : gj[i] = fj[m + i] /\ gk[i] = fk[m + i]
  OBVIOUS
<1>5. /\ \A i \in Nat : i <= l => Spot(fj[i], fk[i])
      /\ \A i \in Nat : i < l => PassAt(acc, c[i + 1], fj[i], fk[i], fj[i + 1], fk[i + 1])
  BY <1>1 DEF Passes
<1> HIDE DEF gj, gk, first, rest
<1>6. Passes(acc, first, fj, fk)
  <2>1. \A i \in Nat : i <= m => i <= l
    BY <1>2
  <2>2. \A i \in Nat : i < m => i < l /\ i + 1 \in 1 .. m
    BY <1>2
  <2> QED
    BY <1>3, <1>5, <2>1, <2>2 DEF Passes
<1>7. ASSUME NEW i \in Nat, i <= l - m PROVE Spot(gj[i], gk[i])
  <2>1. m + i \in Nat /\ m + i <= l
    BY <1>2, <1>7
  <2> QED
    BY <1>4, <1>5, <2>1
<1>8. ASSUME NEW i \in Nat, i < l - m
      PROVE  PassAt(acc, rest[i + 1], gj[i], gk[i], gj[i + 1], gk[i + 1])
  <2>1. m + i \in Nat /\ m + i < l /\ i + 1 \in 1 .. l - m /\ (m + i) + 1 = m + (i + 1) /\ i + 1 \in Nat
    BY <1>2, <1>8
  <2>2. PassAt(acc, c[m + (i + 1)], fj[m + i], fk[m + i], fj[m + (i + 1)], fk[m + (i + 1)])
    BY <1>5, <2>1
  <2> QED
    BY <1>3, <1>4, <2>1, <2>2
<1>9. Passes(acc, rest, gj, gk)
  BY <1>3, <1>7, <1>8 DEF Passes
<1>10. gj[0] = fj[m] /\ gk[0] = fk[m] /\ gj[l - m] = j2 /\ gk[l - m] = k2
  <2>1. 0 \in Nat /\ m + 0 = m /\ l - m \in Nat /\ m + (l - m) = l
    BY <1>2
  <2> QED
    BY <1>1, <1>4, <2>1
<1>11. Flow(acc, first, j, k, fj[m], fk[m])
  BY <1>1, <1>3, <1>6 DEF Flow
<1>12. Flow(acc, rest, fj[m], fk[m], j2, k2)
  BY <1>3, <1>9, <1>10 DEF Flow
<1> QED
  BY <1>11, <1>12 DEF first, rest

\* An SDU more does not change what the stream was.
LEMMA FlowGrows ==
  ASSUME NEW acc \in Seq(1 .. NSdus), NEW s \in 1 .. NSdus, NEW c, NEW j, NEW k, NEW j2, NEW k2,
         Flow(acc, c, j, k, j2, k2)
  PROVE  Flow(Append(acc, s), c, j, k, j2, k2)
<1>1. PICK fj, fk : /\ Passes(acc, c, fj, fk)
                    /\ fj[0] = j /\ fk[0] = k /\ fj[Len(c)] = j2 /\ fk[Len(c)] = k2
  BY DEF Flow
<1> DEFINE more == Append(acc, s)
<1>2. Len(more) = Len(acc) + 1 /\ Len(acc) \in Nat /\ \A i \in 1 .. Len(acc) : more[i] = acc[i]
  BY AppendProperties, LenProperties
<1> HIDE DEF more
<1>3. ASSUME NEW i \in Nat, i < Len(c)
      PROVE  PassAt(more, c[i + 1], fj[i], fk[i], fj[i + 1], fk[i + 1])
  <2>1. PassAt(acc, c[i + 1], fj[i], fk[i], fj[i + 1], fk[i + 1])
    BY <1>1, <1>3 DEF Passes
  <2>2. Spot(fj[i], fk[i])
    <3>1. i <= Len(c) \/ ~(i <= Len(c))
      OBVIOUS
    <3> QED
      BY <1>1, <1>3 DEF Passes
  <2>3. fj[i] \in 1 .. Len(acc) /\ fj[i] <= Len(more)
    <3>1. fj[i] \in Nat /\ fj[i] > 0 /\ fj[i] <= Len(acc)
      BY <2>1, <2>2 DEF Spot, PassAt
    <3> QED
      BY <1>2, <3>1
  <2> QED
    BY <1>2, <2>1, <2>3 DEF PassAt
<1>4. Passes(more, c, fj, fk)
  BY <1>1, <1>3 DEF Passes
<1> QED
  BY <1>1, <1>4 DEF Flow, more

Accepted(acc) == acc \in Seq(1 .. NSdus)

LEMMA AcceptedAre ==
  ASSUME NEW acc, Accepted(acc)
  PROVE  Len(acc) \in Nat /\ \A i \in 1 .. Len(acc) : acc[i] \in 1 .. NSdus
BY LenProperties, ElementOfSeq DEF Accepted

\* The beginning of an SDU, and the SDUs between two places.
Begun(acc, j, k) == [i \in 1 .. k |-> <<acc[j], i>>]
Wholes(acc, j, j2) == [i \in 1 .. j2 - j |-> Sdu(acc[j + i - 1])]

\* The places of a stream that is not sent yet.
Reached(acc, j, k) == Spot(j, k) /\ j <= Len(acc) + 1 /\ (k > 0 => j <= Len(acc))

LEMMA BegunIs ==
  ASSUME NEW acc, Accepted(acc), NEW j, NEW k, j \in Nat, j > 0, k \in Nat,
         k > 0 => j <= Len(acc), k <= SduUnits
  PROVE  /\ Begun(acc, j, k) \in Pieces /\ Len(Begun(acc, j, k)) = k
         /\ \A i \in 1 .. k : Begun(acc, j, k)[i] = <<acc[j], i>>
<1>1. \A i \in 1 .. k : <<acc[j], i>> \in Units
  <2> SUFFICES ASSUME NEW i \in 1 .. k PROVE acc[j] \in 1 .. NSdus /\ i \in 1 .. SduUnits
    BY DEF Units
  <2>1. j \in 1 .. Len(acc)
    BY AcceptedAre
  <2> QED
    BY <2>1, AcceptedAre, AmConstants
<1>2. Begun(acc, j, k) \in Seq(Units)
  BY <1>1, IsASeq DEF Begun
<1>3. Len(Begun(acc, j, k)) = k
  BY <1>2, LenProperties DEF Begun
<1> QED
  BY <1>2, <1>3 DEF Begun, Pieces

LEMMA NothingBegun ==
  ASSUME NEW acc, NEW j, j \in Nat
  PROVE  Begun(acc, j, 0) = <<>> /\ Wholes(acc, j, j) = <<>>
BY DEF Begun, Wholes

LEMMA BegunGrows ==
  ASSUME NEW acc, Accepted(acc), NEW j, j \in 1 .. Len(acc), NEW k, k \in Nat, k < SduUnits
  PROVE  Append(Begun(acc, j, k), <<acc[j], k + 1>>) = Begun(acc, j, k + 1)
<1> DEFINE old == Begun(acc, j, k)  new == Begun(acc, j, k + 1)  u == <<acc[j], k + 1>>
<1>1. j \in Nat /\ j > 0 /\ j <= Len(acc) /\ k <= SduUnits /\ k + 1 <= SduUnits /\ k + 1 \in Nat
  BY AcceptedAre, AmConstants
<1>2. /\ old \in Seq(Units) /\ Len(old) = k /\ \A i \in 1 .. k : old[i] = <<acc[j], i>>
      /\ new \in Seq(Units) /\ Len(new) = k + 1 /\ \A i \in 1 .. k + 1 : new[i] = <<acc[j], i>>
  BY <1>1, BegunIs DEF Pieces
<1>3. u \in Units
  <2>1. acc[j] \in 1 .. NSdus /\ k + 1 \in 1 .. SduUnits
    BY <1>1, AcceptedAre
  <2> QED
    BY <2>1 DEF Units
<1> HIDE DEF old, new
<1>4. /\ Append(old, u) \in Seq(Units) /\ Len(Append(old, u)) = k + 1 /\ Append(old, u)[k + 1] = u
      /\ \A i \in 1 .. k : Append(old, u)[i] = old[i]
  <2> HIDE DEF u
  <2> QED
    BY <1>2, <1>3, AppendProperties
<1>5. \A i \in 1 .. k + 1 : Append(old, u)[i] = new[i]
  <2> SUFFICES ASSUME NEW i \in 1 .. k + 1 PROVE Append(old, u)[i] = new[i]
    OBVIOUS
  <2>1. CASE i = k + 1
    BY <1>2, <1>4, <2>1
  <2>2. CASE i \in 1 .. k
    BY <1>2, <1>4, <2>2
  <2>3. i = k + 1 \/ i \in 1 .. k
    OBVIOUS
  <2> QED
    BY <2>1, <2>2, <2>3
<1>6. Append(old, u) = new
  BY <1>2, <1>4, <1>5, SeqEqual
<1> QED
  BY <1>6 DEF old, new

LEMMA BegunWhole ==
  ASSUME NEW acc, NEW j
  PROVE  Begun(acc, j, SduUnits) = Sdu(acc[j])
BY DEF Begun, Sdu

LEMMA SduType ==
  ASSUME NEW n \in 1 .. NSdus
  PROVE  Sdu(n) \in Pieces /\ Len(Sdu(n)) = SduUnits /\ \A i \in 1 .. SduUnits : Sdu(n)[i] = <<n, i>>
<1>1. \A i \in 1 .. SduUnits : <<n, i>> \in Units
  BY DEF Units
<1>2. Sdu(n) \in Seq(Units)
  BY <1>1, AmConstants, IsASeq DEF Sdu
<1> QED
  BY <1>2, LenProperties, AmConstants DEF Sdu, Pieces

AreWholes(ws, acc, j, l) ==
  ws \in Seq(Pieces) /\ Len(ws) = l /\ \A i \in 1 .. l : ws[i] = Sdu(acc[j + i - 1])

LEMMA WholesAre ==
  ASSUME NEW acc, Accepted(acc), NEW j, NEW j2, j \in Nat, j > 0, j2 \in Nat, j <= j2, j2 <= Len(acc) + 1
  PROVE  AreWholes(Wholes(acc, j, j2), acc, j, j2 - j)
<1>1. \A i \in 1 .. j2 - j : Sdu(acc[j + i - 1]) \in Pieces
  <2> SUFFICES ASSUME NEW i \in 1 .. j2 - j PROVE acc[j + i - 1] \in 1 .. NSdus
    BY SduType
  <2>1. j + i - 1 \in 1 .. Len(acc)
    BY AcceptedAre
  <2> QED
    BY <2>1, AcceptedAre
<1>2. j2 - j \in Nat
  OBVIOUS
<1>3. Wholes(acc, j, j2) \in Seq(Pieces)
  BY <1>1, <1>2, IsASeq DEF Wholes
<1>4. DOMAIN Wholes(acc, j, j2) = 1 .. j2 - j
  BY DEF Wholes
<1>5. Len(Wholes(acc, j, j2)) = j2 - j
  BY <1>2, <1>3, <1>4, LenProperties
<1> QED
  BY <1>3, <1>5 DEF Wholes, AreWholes

LEMMA OneMoreWhole ==
  ASSUME NEW acc, Accepted(acc), NEW j, NEW j2, j \in Nat, j > 0, j2 \in Nat, j <= j2, j2 <= Len(acc)
  PROVE  Append(Wholes(acc, j, j2), Sdu(acc[j2])) = Wholes(acc, j, j2 + 1)
<1> DEFINE old == Wholes(acc, j, j2)  new == Wholes(acc, j, j2 + 1)  u == Sdu(acc[j2])  l == j2 - j
<1>1. /\ j2 + 1 \in Nat /\ j <= j2 + 1 /\ j2 + 1 <= Len(acc) + 1 /\ j2 <= Len(acc) + 1
      /\ l \in Nat /\ (j2 + 1) - j = l + 1 /\ j + (l + 1) - 1 = j2 /\ j2 \in 1 .. Len(acc)
  BY AcceptedAre
<1>2. AreWholes(old, acc, j, l) /\ AreWholes(new, acc, j, (j2 + 1) - j)
  BY <1>1, WholesAre
<1>3. AreWholes(new, acc, j, l + 1)
  BY <1>1, <1>2
<1> HIDE DEF old, new, l
<1>4. /\ old \in Seq(Pieces) /\ Len(old) = l /\ \A i \in 1 .. l : old[i] = Sdu(acc[j + i - 1])
      /\ new \in Seq(Pieces) /\ Len(new) = l + 1 /\ \A i \in 1 .. l + 1 : new[i] = Sdu(acc[j + i - 1])
  BY <1>2, <1>3 DEF AreWholes
<1>5. u \in Pieces
  <2>1. acc[j2] \in 1 .. NSdus
    BY <1>1, AcceptedAre
  <2> QED
    BY <2>1, SduType
<1>6. new[l + 1] = u
  BY <1>1, <1>4
<1> HIDE DEF u
<1>7. /\ Append(old, u) \in Seq(Pieces) /\ Len(Append(old, u)) = l + 1 /\ Append(old, u)[l + 1] = u
      /\ \A i \in 1 .. l : Append(old, u)[i] = old[i]
  BY <1>4, <1>5, AppendProperties
<1>8. \A i \in 1 .. l + 1 : Append(old, u)[i] = new[i]
  <2> SUFFICES ASSUME NEW i \in 1 .. l + 1 PROVE Append(old, u)[i] = new[i]
    OBVIOUS
  <2>1. CASE i = l + 1
    BY <1>6, <1>7, <2>1
  <2>2. CASE i \in 1 .. l
    BY <1>1, <1>4, <1>7, <2>2
  <2>3. i = l + 1 \/ i \in 1 .. l
    BY <1>1
  <2> QED
    BY <2>1, <2>2, <2>3
<1>9. Append(old, u) = new
  BY <1>1, <1>4, <1>7, <1>8, SeqEqual
<1> QED
  BY <1>9 DEF old, new, u

LEMMA WholesJoin ==
  ASSUME NEW acc, Accepted(acc), NEW j, NEW j1, NEW j2, j \in Nat, j > 0, j1 \in Nat, j2 \in Nat,
         j <= j1, j1 <= j2, j2 <= Len(acc) + 1
  PROVE  Wholes(acc, j, j1) \o Wholes(acc, j1, j2) = Wholes(acc, j, j2)
<1> DEFINE a == Wholes(acc, j, j1)  b == Wholes(acc, j1, j2)  c == Wholes(acc, j, j2)
           l == j1 - j  m == j2 - j1
<1>1. l \in Nat /\ m \in Nat /\ j2 - j = l + m /\ j1 <= Len(acc) + 1 /\ j <= j2 /\ j1 > 0
  BY AcceptedAre
<1>2. AreWholes(a, acc, j, l) /\ AreWholes(b, acc, j1, m) /\ AreWholes(c, acc, j, j2 - j)
  BY <1>1, WholesAre
<1>3. AreWholes(c, acc, j, l + m)
  BY <1>1, <1>2
<1>4. \A i \in 1 .. m : l + i \in 1 .. l + m /\ j + (l + i) - 1 = j1 + i - 1
  BY <1>1
<1>5. \A i \in 1 .. l : i \in 1 .. l + m
  BY <1>1
<1> HIDE DEF a, b, c, l, m
<1>6. a \in Seq(Pieces) /\ Len(a) = l /\ \A i \in 1 .. l : a[i] = Sdu(acc[j + i - 1])
  BY <1>2 DEF AreWholes
<1>7. b \in Seq(Pieces) /\ Len(b) = m /\ \A i \in 1 .. m : b[i] = Sdu(acc[j1 + i - 1])
  BY <1>2 DEF AreWholes
<1>8. c \in Seq(Pieces) /\ Len(c) = l + m /\ \A i \in 1 .. l + m : c[i] = Sdu(acc[j + i - 1])
  BY <1>3 DEF AreWholes
<1>9. \A i \in 1 .. m : c[l + i] = b[i]
  BY <1>7, <1>8, <1>4
<1>10. \A i \in 1 .. l : c[i] = a[i]
  BY <1>6, <1>8, <1>5
<1>11. /\ a \o b \in Seq(Pieces) /\ Len(a \o b) = Len(a) + Len(b)
       /\ \A i \in 1 .. Len(a) : (a \o b)[i] = a[i]
       /\ \A i \in 1 .. Len(b) : (a \o b)[Len(a) + i] = b[i]
       /\ \A k \in 1 .. Len(a) + Len(b) :
            k \in 1 .. Len(a) \/ \E i \in 1 .. Len(b) : k = Len(a) + i
  <2>1. a \in Seq(Pieces) /\ b \in Seq(Pieces)
    BY <1>6, <1>7
  <2> QED
    BY <2>1, JoinedParts
<1>12. /\ a \o b \in Seq(Pieces) /\ Len(a \o b) = l + m
       /\ \A i \in 1 .. l : (a \o b)[i] = a[i]
       /\ \A i \in 1 .. m : (a \o b)[l + i] = b[i]
       /\ \A k \in 1 .. l + m : k \in 1 .. l \/ \E i \in 1 .. m : k = l + i
  BY <1>6, <1>7, <1>11
<1>13. \A k \in 1 .. l + m : (a \o b)[k] = c[k]
  BY <1>9, <1>10, <1>12
<1>14. a \o b = c
  BY <1>1, <1>8, <1>12, <1>13, SeqEqual
<1> QED
  BY <1>14 DEF a, b, c

------------------------------------------------------------------------------
(* Cutting a stretch of the stream, and reading it. *)

Cuts == [whole : Seq(Pieces), rest : Pieces]

NothingCut == [whole |-> <<>>, rest |-> <<>>]

\* The step Cut makes with each unit.
CutStep(acc, unit) ==
  IF Ends(unit)
  THEN [whole |-> Append(acc.whole, Append(acc.rest, unit)), rest |-> <<>>]
  ELSE [acc EXCEPT !.rest = Append(@, unit)]

LEMMA CutStepType ==
  ASSUME NEW acc \in Cuts, NEW unit \in Units
  PROVE  /\ CutStep(acc, unit) \in Cuts
         /\ Ends(unit) => /\ CutStep(acc, unit).whole = Append(acc.whole, Append(acc.rest, unit))
                          /\ CutStep(acc, unit).rest = <<>>
         /\ ~Ends(unit) => /\ CutStep(acc, unit).whole = acc.whole
                           /\ CutStep(acc, unit).rest = Append(acc.rest, unit)
<1>1. acc.whole \in Seq(Pieces) /\ acc.rest \in Seq(Units)
  BY DEF Cuts, Pieces
<1>2. Append(acc.rest, unit) \in Seq(Units)
  BY <1>1, AppendProperties
<1> DEFINE piece == Append(acc.rest, unit)
<1>3. piece \in Pieces
  BY <1>2 DEF Pieces
<1> HIDE DEF piece
<1>4. Append(acc.whole, piece) \in Seq(Pieces)
  BY <1>1, <1>3, AppendProperties
<1>5. <<>> \in Pieces
  BY EmptySeq DEF Pieces
<1>6. CASE Ends(unit)
  <2>1. CutStep(acc, unit) = [whole |-> Append(acc.whole, piece), rest |-> <<>>]
    BY <1>6 DEF CutStep, piece
  <2>2. CutStep(acc, unit) \in Cuts
    BY <1>4, <1>5, <2>1 DEF Cuts
  <2> QED
    BY <1>6, <2>1, <2>2 DEF piece
<1>7. CASE ~Ends(unit)
  <2>1. CutStep(acc, unit) = [acc EXCEPT !.rest = piece]
    BY <1>7 DEF CutStep, piece
  <2>2. CutStep(acc, unit) \in Cuts
    BY <1>3, <2>1 DEF Cuts
  <2>3. CutStep(acc, unit).whole = acc.whole /\ CutStep(acc, unit).rest = piece
    BY <2>1 DEF Cuts
  <2> QED
    BY <1>7, <2>2, <2>3 DEF piece
<1> QED
  BY <1>6, <1>7

\* What cutting comes to, if with each unit a property leads to the next.
LEMMA CutByUnits ==
  ASSUME NEW units \in Pieces, NEW Good, NothingCut \in Good[0],
         \A k \in Nat : \A acc \in Cuts :
           k < Len(units) /\ acc \in Good[k] => CutStep(acc, units[k + 1]) \in Good[k + 1]
  PROVE  Cut(units) \in Cuts /\ Cut(units) \in Good[Len(units)]
<1> DEFINE n == Len(units)
           step == [x \in (1 .. n) \X Cuts |-> CutStep(x[2], units[x[1]])]
           choice == [T \in SUBSET (1 .. n) |-> Max(T)]
           rec(f) == [T \in SUBSET (1 .. n) |->
                        IF T = {} THEN NothingCut
                        ELSE LET x == Max(T) IN CutStep(f[T \ {x}], units[x])]
           fold == CHOOSE f : f = rec(f)
           Typed == [k \in Nat |-> {acc \in Cuts : acc \in Good[k]}]
<1>1. n \in Nat /\ DOMAIN units = 1 .. n /\ \A k \in 1 .. n : units[k] \in Units
  BY LenProperties DEF Pieces
<1>2. Cut(units) = fold[1 .. n]
  BY <1>1 DEF Cut, CutStep, NothingCut, FoldLeft, MapThenFoldSet
<1>3. NothingCut \in Cuts
  <2>1. <<>> \in Pieces /\ <<>> \in Seq(Pieces)
    BY EmptySeq DEF Pieces
  <2> QED
    BY <2>1 DEF NothingCut, Cuts
<1>4. fold = rec(fold)
  <2>1. step \in [(1 .. n) \X Cuts -> Cuts]
    BY <1>1, CutStepType
  <2>2. IsFiniteSet(1 .. n)
    BY <1>1, FS_Interval
  <2>3. \A T \in SUBSET (1 .. n) : T # {} => choice[T] = Max(T) /\ choice[T] \in T
    BY <1>1, MaxOfPositions
  <2>4. PICK it \in [SUBSET (1 .. n) -> Cuts] :
          IsRecursive(it, SUBSET (1 .. n), NothingCut, step, choice)
    <3> HIDE DEF step, choice, n
    <3> QED
      BY <1>3, <2>1, <2>2, <2>3, SetRecursion
  <2>5. ASSUME NEW T \in SUBSET (1 .. n), T # {}
        PROVE  step[<<choice[T], it[T \ {choice[T]}]>>] = CutStep(it[T \ {Max(T)}], units[Max(T)])
    <3>1. Max(T) \in 1 .. n /\ choice[T] = Max(T) /\ it[T \ {Max(T)}] \in Cuts
      BY <2>3, <2>4, <2>5
    <3> HIDE DEF choice
    <3> QED
      BY <3>1
  <2>6. \A T \in SUBSET (1 .. n) : it[T] = rec(it)[T]
    BY <2>4, <2>5 DEF IsRecursive
  <2>7. it = rec(it)
    BY <2>6
  <2> QED
    BY <2>7
<1>5. fold[{}] = NothingCut
  BY <1>4
<1>6. ASSUME NEW k \in Nat, k < n
      PROVE  fold[1 .. k + 1] = CutStep(fold[1 .. k], units[k + 1])
  <2>1. 1 .. k + 1 \in SUBSET (1 .. n) /\ 1 .. k + 1 # {}
    <3> HIDE DEF n
    <3> QED
      BY <1>1, <1>6, PrefixInside
  <2> DEFINE T == 1 .. k + 1
  <2> HIDE DEF fold
  <2>2. fold[T] = CutStep(fold[T \ {Max(T)}], units[Max(T)])
    BY <1>4, <2>1
  <2> QED
    BY <2>2, MaxOfPrefix
<1> HIDE DEF fold, rec, step, choice
<1>7. fold[1 .. n] \in Typed[n]
  <2>1. fold[{}] \in Typed[0]
    BY <1>3, <1>5
  <2>2. ASSUME NEW k \in Nat, k < n, fold[1 .. k] \in Typed[k]
        PROVE  fold[1 .. k + 1] \in Typed[k + 1]
    <3>1. fold[1 .. k] \in Cuts /\ fold[1 .. k] \in Good[k]
      BY <2>2
    <3>2. units[k + 1] \in Units
      BY <1>1, <2>2
    <3>3. CutStep(fold[1 .. k], units[k + 1]) \in Cuts
      BY <3>1, <3>2, CutStepType
    <3>4. CutStep(fold[1 .. k], units[k + 1]) \in Good[k + 1]
      BY <2>2, <3>1
    <3> QED
      BY <1>6, <2>2, <3>3, <3>4
  <2> HIDE DEF Typed, n
  <2> QED
    BY <1>1, <2>1, <2>2, PrefixInduction
<1> QED
  BY <1>1, <1>2, <1>7

\* States of the reassembly.
States == [expected : SNs, keepS0 : Pieces, delivered : Seq(Pieces), failed : BOOLEAN]

LEMMA CutType ==
  ASSUME NEW units \in Pieces
  PROVE  Cut(units) \in Cuts /\ Cut(units).whole \in Seq(Pieces) /\ Cut(units).rest \in Pieces
<1> DEFINE Good == [k \in Nat |-> Cuts]
<1>1. NothingCut \in Cuts
  <2>1. <<>> \in Pieces /\ <<>> \in Seq(Pieces)
    BY EmptySeq DEF Pieces
  <2> QED
    BY <2>1 DEF NothingCut, Cuts
<1>2. Len(units) \in Nat /\ \A k \in Nat : k < Len(units) => units[k + 1] \in Units
  BY LenProperties DEF Pieces
<1>3. \A k \in Nat : Good[k] = Cuts
  OBVIOUS
<1> HIDE DEF Good
<1>4. \A k \in Nat : \A acc \in Cuts :
        k < Len(units) /\ acc \in Good[k] => CutStep(acc, units[k + 1]) \in Good[k + 1]
  BY <1>2, <1>3, CutStepType
<1>5. Cut(units) \in Cuts
  BY <1>1, <1>3, <1>4, CutByUnits
<1> QED
  BY <1>5 DEF Cuts

\* What is cut in the step Reassemble makes.
CutFrom(rs, sn, units) ==
  IF rs.keepS0 # <<>> /\ sn = rs.expected /\ ~Begins(units[1]) THEN rs.keepS0 \o units
  ELSE IF Begins(units[1]) THEN units ELSE WithoutHead(units)
Impossible(rs, sn, units) == rs.keepS0 # <<>> /\ sn = rs.expected /\ Begins(units[1])

LEMMA ReassembleIs ==
  ASSUME NEW rs \in States, NEW sn \in SNs, NEW units \in Pieces
  PROVE  LET next == Reassemble(rs, sn, units)
             cut == Cut(CutFrom(rs, sn, units))
         IN /\ next.expected = Plus(sn, 1)
            /\ Impossible(rs, sn, units) =>
                 next.failed = TRUE /\ next.keepS0 = rs.keepS0 /\ next.delivered = rs.delivered
            /\ ~Impossible(rs, sn, units) =>
                 /\ next.failed = rs.failed /\ next.keepS0 = cut.rest
                 /\ next.delivered = rs.delivered \o cut.whole
            /\ DOMAIN next = {"expected", "keepS0", "delivered", "failed"}
            /\ next = [expected |-> next.expected, keepS0 |-> next.keepS0,
                       delivered |-> next.delivered, failed |-> next.failed]
<1> DEFINE cut == Cut(CutFrom(rs, sn, units))
           failing == [rs EXCEPT !.expected = Plus(sn, 1), !.failed = TRUE]
           going == [rs EXCEPT !.expected = Plus(sn, 1), !.keepS0 = cut.rest,
                               !.delivered = @ \o cut.whole]
<1>1. Reassemble(rs, sn, units) = IF Impossible(rs, sn, units) THEN failing ELSE going
  <2>1. CASE rs.keepS0 # <<>> /\ sn = rs.expected /\ Begins(units[1])
    BY <2>1 DEF Reassemble, Impossible
  <2>2. CASE rs.keepS0 # <<>> /\ sn = rs.expected /\ ~Begins(units[1])
    BY <2>2 DEF Reassemble, Impossible, CutFrom
  <2>3. CASE ~(rs.keepS0 # <<>> /\ sn = rs.expected) /\ Begins(units[1])
    BY <2>3 DEF Reassemble, Impossible, CutFrom
  <2>4. CASE ~(rs.keepS0 # <<>> /\ sn = rs.expected) /\ ~Begins(units[1])
    BY <2>4 DEF Reassemble, Impossible, CutFrom
  <2> QED
    BY <2>1, <2>2, <2>3, <2>4, Zenon
<1> HIDE DEF cut
<1>2. CASE Impossible(rs, sn, units)
  BY <1>1, <1>2 DEF States, cut
<1>3. CASE ~Impossible(rs, sn, units)
  BY <1>1, <1>3 DEF States, cut
<1> QED
  BY <1>2, <1>3

LEMMA WithoutHeadType ==
  ASSUME NEW units \in Pieces
  PROVE  WithoutHead(units) \in Pieces
<1> DEFINE E == {i \in DOMAIN units : Ends(units[i])}
<1>1. DOMAIN units = 1 .. Len(units) /\ Len(units) \in Nat /\ units \in Seq(Units)
  BY LenProperties DEF Pieces
<1>2. CASE E = {}
  <2>1. WithoutHead(units) = <<>>
    BY <1>2 DEF WithoutHead
  <2> QED
    BY <2>1, EmptySeq DEF Pieces
<1>3. CASE E # {}
  <2>1. WithoutHead(units) = SubSeq(units, Min(E) + 1, Len(units))
    BY <1>3 DEF WithoutHead
  <2>2. E \subseteq Nat /\ E \subseteq 0 .. Len(units)
    BY <1>1
  <2> HIDE DEF E
  <2>3. Min(E) \in 0 .. Len(units)
    BY <1>3, <2>2, MinOfNumbers
  <2>4. SubSeq(units, Min(E) + 1, Len(units)) \in Seq(Units)
    BY <1>1, <2>3, TwoParts
  <2> QED
    BY <2>1, <2>4 DEF Pieces
<1> QED
  BY <1>2, <1>3

LEMMA ReassembleType ==
  ASSUME NEW rs \in States, NEW sn \in SNs, NEW units \in Pieces
  PROVE  Reassemble(rs, sn, units) \in States
<1> DEFINE from == CutFrom(rs, sn, units)  cut == Cut(from)  next == Reassemble(rs, sn, units)
<1>1. rs.keepS0 \in Pieces /\ rs.delivered \in Seq(Pieces) /\ rs.failed \in BOOLEAN
  BY DEF States
<1>2. rs.keepS0 \o units \in Pieces
  BY <1>1, ConcatProperties DEF Pieces
<1>3. from \in Pieces
  BY <1>2, WithoutHeadType DEF CutFrom
<1> HIDE DEF from
<1>4. cut.whole \in Seq(Pieces) /\ cut.rest \in Pieces
  BY <1>3, CutType
<1> HIDE DEF cut
<1>5. rs.delivered \o cut.whole \in Seq(Pieces)
  BY <1>1, <1>4, ConcatProperties
<1>6. Plus(sn, 1) \in SNs
  <2>1. sn + 1 \in Nat
    BY AmConstants
  <2> QED
    BY <2>1, AmConstants, Modulo DEF Plus, SNs
<1>7. /\ next.expected = Plus(sn, 1)
      /\ next = [expected |-> next.expected, keepS0 |-> next.keepS0,
                 delivered |-> next.delivered, failed |-> next.failed]
      /\ \/ next.failed = TRUE /\ next.keepS0 = rs.keepS0 /\ next.delivered = rs.delivered
         \/ /\ next.failed = rs.failed /\ next.keepS0 = cut.rest
            /\ next.delivered = rs.delivered \o cut.whole
  BY ReassembleIs DEF cut, from
<1> HIDE DEF next
<1>8. /\ next.expected \in SNs /\ next.keepS0 \in Pieces /\ next.delivered \in Seq(Pieces)
      /\ next.failed \in BOOLEAN
  BY <1>1, <1>4, <1>5, <1>6, <1>7
<1>9. next \in States
  BY <1>7, <1>8 DEF States
<1> QED
  BY <1>9 DEF next

------------------------------------------------------------------------------
(* Stretches of the stream. *)

\* The unit q of SDU i was passed before a place.
Passed(i, q, j, k) == i < j \/ (i = j /\ q <= k)

\* A stretch contains the units between its places.
LEMMA FlowCovers ==
  ASSUME NEW acc, NEW c \in Pieces, NEW j, NEW k, NEW j2, NEW k2, Flow(acc, c, j, k, j2, k2),
         NEW i \in Nat, NEW q \in Nat, 0 < q, q <= SduUnits, ~Passed(i, q, j, k), Passed(i, q, j2, k2)
  PROVE  <<acc[i], q>> \in ToSet(c)
<1>1. PICK fj, fk : /\ Passes(acc, c, fj, fk)
                    /\ fj[0] = j /\ fk[0] = k /\ fj[Len(c)] = j2 /\ fk[Len(c)] = k2
  BY DEF Flow
<1>2. Len(c) \in Nat /\ DOMAIN c = 1 .. Len(c)
  BY LenProperties DEF Pieces
<1> SUFFICES ASSUME <<acc[i], q>> \notin ToSet(c) PROVE FALSE
  OBVIOUS
<1>3. \A m \in 1 .. Len(c) : c[m] # <<acc[i], q>>
  BY <1>2 DEF ToSet
<1> DEFINE Q == {m \in Nat : m <= Len(c) => ~Passed(i, q, fj[m], fk[m])}
<1>4. 0 \in Q
  BY <1>1
<1>5. ASSUME NEW m \in Nat, m \in Q PROVE m + 1 \in Q
  <2> SUFFICES ASSUME m + 1 <= Len(c) PROVE ~Passed(i, q, fj[m + 1], fk[m + 1])
    OBVIOUS
  <2>1. m <= Len(c) /\ m < Len(c) /\ m + 1 \in 1 .. Len(c)
    BY <1>2
  <2>2. PassAt(acc, c[m + 1], fj[m], fk[m], fj[m + 1], fk[m + 1]) /\ Spot(fj[m], fk[m])
    BY <1>1, <2>1 DEF Passes
  <2>3. ~Passed(i, q, fj[m], fk[m])
    BY <1>5, <2>1
  <2>4. c[m + 1] # <<acc[i], q>>
    BY <1>3, <2>1
  <2> HIDE DEF Q
  <2>5. ~(i = fj[m] /\ q = fk[m] + 1)
    BY <2>2, <2>4 DEF PassAt
  <2>6. SduUnits \in Nat
    BY AmConstants
  <2>7. CASE fk[m] + 1 = SduUnits
    <3>1. fj[m + 1] = fj[m] + 1 /\ fk[m + 1] = 0
      BY <2>2, <2>7 DEF PassAt
    <3> QED
      BY <2>2, <2>3, <2>5, <2>6, <2>7, <3>1 DEF Passed, Spot
  <2>8. CASE fk[m] + 1 # SduUnits
    <3>1. fj[m + 1] = fj[m] /\ fk[m + 1] = fk[m] + 1
      BY <2>2, <2>8 DEF PassAt
    <3> QED
      BY <2>2, <2>3, <2>5, <2>6, <2>8, <3>1 DEF Passed, Spot
  <2> QED
    BY <2>7, <2>8
<1> HIDE DEF Q
<1>6. Len(c) \in Q
  BY <1>2, <1>4, <1>5, Induction
<1> QED
  BY <1>1, <1>2, <1>6 DEF Q

\* The beginning of an SDU is a stretch.
LEMMA BegunFlows ==
  ASSUME NEW acc, Accepted(acc), NEW j, NEW k, Reached(acc, j, k)
  PROVE  Begun(acc, j, k) \in Pieces /\ Flow(acc, Begun(acc, j, k), j, 0, j, k)
<1> DEFINE b == Begun(acc, j, k)  fj == [i \in Nat |-> j]  fk == [i \in Nat |-> i]
<1>1. j \in Nat /\ j > 0 /\ k \in Nat /\ k < SduUnits /\ (k > 0 => j <= Len(acc)) /\ SduUnits \in Nat
  BY AmConstants DEF Reached, Spot
<1>2. b \in Pieces /\ Len(b) = k /\ \A i \in 1 .. k : b[i] = <<acc[j], i>>
  BY <1>1, BegunIs
<1>3. \A i \in Nat : fj[i] = j /\ fk[i] = i /\ fk[i + 1] = i + 1 /\ fj[i + 1] = j
  OBVIOUS
<1> HIDE DEF b, fj, fk
<1>4. ASSUME NEW i \in Nat, i <= k PROVE Spot(fj[i], fk[i])
  <2>1. fj[i] = j /\ fk[i] = i
    BY <1>3
  <2>2. i < SduUnits
    BY <1>1, <1>4
  <2> QED
    BY <1>1, <2>1, <2>2 DEF Spot
<1>5. ASSUME NEW i \in Nat, i < k
      PROVE  PassAt(acc, b[i + 1], fj[i], fk[i], fj[i + 1], fk[i + 1])
  <2>1. i + 1 \in 1 .. k /\ i + 1 # SduUnits /\ j <= Len(acc)
    BY <1>1, <1>5
  <2>2. b[i + 1] = <<acc[j], i + 1>>
    BY <1>2, <2>1
  <2> QED
    BY <1>3, <2>1, <2>2 DEF PassAt
<1>6. Passes(acc, b, fj, fk)
  BY <1>2, <1>4, <1>5 DEF Passes
<1>7. fj[0] = j /\ fk[0] = 0 /\ fj[k] = j /\ fk[k] = k
  BY <1>1, <1>3
<1>8. Flow(acc, b, j, 0, j, k)
  BY <1>2, <1>6, <1>7 DEF Flow
<1> QED
  BY <1>2, <1>8 DEF b

\* So is an SDU.
LEMMA SduFlows ==
  ASSUME NEW acc, Accepted(acc), NEW j, j \in 1 .. Len(acc)
  PROVE  Sdu(acc[j]) \in Pieces /\ Flow(acc, Sdu(acc[j]), j, 0, j + 1, 0)
<1> DEFINE b == Begun(acc, j, SduUnits)
           fj == [i \in Nat |-> IF i < SduUnits THEN j ELSE j + 1]
           fk == [i \in Nat |-> IF i < SduUnits THEN i ELSE 0]
<1>1. j \in Nat /\ j > 0 /\ j <= Len(acc) /\ SduUnits \in Nat /\ SduUnits > 0 /\ SduUnits <= SduUnits
  BY AcceptedAre, AmConstants
<1>2. b \in Pieces /\ Len(b) = SduUnits /\ \A i \in 1 .. SduUnits : b[i] = <<acc[j], i>>
  BY <1>1, BegunIs
<1>3. /\ \A i \in Nat : i < SduUnits => fj[i] = j /\ fk[i] = i
      /\ \A i \in Nat : ~(i < SduUnits) => fj[i] = j + 1 /\ fk[i] = 0
  OBVIOUS
<1> HIDE DEF b, fj, fk
<1>4. \A i \in Nat : Spot(fj[i], fk[i])
  <2> SUFFICES ASSUME NEW i \in Nat PROVE Spot(fj[i], fk[i])
    OBVIOUS
  <2>1. CASE i < SduUnits
    BY <1>1, <1>3, <2>1 DEF Spot
  <2>2. CASE ~(i < SduUnits)
    BY <1>1, <1>3, <2>2 DEF Spot
  <2> QED
    BY <2>1, <2>2
<1>5. ASSUME NEW i \in Nat, i < SduUnits
      PROVE  PassAt(acc, b[i + 1], fj[i], fk[i], fj[i + 1], fk[i + 1])
  <2>1. i + 1 \in 1 .. SduUnits /\ i + 1 \in Nat
    BY <1>1, <1>5
  <2>2. b[i + 1] = <<acc[j], i + 1>> /\ fj[i] = j /\ fk[i] = i
    BY <1>2, <1>3, <1>5, <2>1
  <2>3. CASE i + 1 = SduUnits
    <3>1. fj[i + 1] = j + 1 /\ fk[i + 1] = 0
      BY <1>1, <1>3, <2>1, <2>3
    <3> QED
      BY <1>1, <2>2, <2>3, <3>1 DEF PassAt
  <2>4. CASE i + 1 # SduUnits
    <3>1. fj[i + 1] = j /\ fk[i + 1] = i + 1
      BY <1>1, <1>3, <2>1, <2>4
    <3> QED
      BY <1>1, <2>2, <2>4, <3>1 DEF PassAt
  <2> QED
    BY <2>3, <2>4
<1>6. Passes(acc, b, fj, fk)
  BY <1>2, <1>4, <1>5 DEF Passes
<1>7. fj[0] = j /\ fk[0] = 0 /\ fj[SduUnits] = j + 1 /\ fk[SduUnits] = 0
  BY <1>1, <1>3
<1>8. Flow(acc, b, j, 0, j + 1, 0)
  BY <1>2, <1>6, <1>7 DEF Flow
<1> QED
  BY <1>2, <1>8, BegunWhole DEF b

\* A stretch that begins with an SDU is cut into whole SDUs and the beginning of
\* the one that is not complete.
LEMMA CutFlows ==
  ASSUME NEW acc, Accepted(acc), NEW c \in Pieces, NEW j, NEW j2, NEW k2, Flow(acc, c, j, 0, j2, k2)
  PROVE  j <= j2 /\ Cut(c).whole = Wholes(acc, j, j2) /\ Cut(c).rest = Begun(acc, j2, k2)
<1>1. PICK fj, fk : /\ Passes(acc, c, fj, fk)
                    /\ fj[0] = j /\ fk[0] = 0 /\ fj[Len(c)] = j2 /\ fk[Len(c)] = k2
  BY DEF Flow
<1>2. Len(c) \in Nat /\ \A i \in 1 .. Len(c) : c[i] \in Units
  BY LenProperties, ElementOfSeq DEF Pieces
<1>3. /\ \A i \in Nat : i <= Len(c) => Spot(fj[i], fk[i])
      /\ \A i \in Nat : i < Len(c) => PassAt(acc, c[i + 1], fj[i], fk[i], fj[i + 1], fk[i + 1])
  BY <1>1 DEF Passes
<1>4. j \in Nat /\ j > 0
  BY <1>1, <1>2, <1>3 DEF Spot
<1> DEFINE Right(cut, i) == /\ j <= fj[i] /\ cut.whole = Wholes(acc, j, fj[i])
                            /\ cut.rest = Begun(acc, fj[i], fk[i])
           Good == [i \in Nat |-> {cut \in Cuts : Right(cut, i)}]
<1>5. NothingCut \in Good[0]
  <2>1. NothingCut \in Cuts
    <3>1. <<>> \in Pieces /\ <<>> \in Seq(Pieces)
      BY EmptySeq DEF Pieces
    <3> QED
      BY <3>1 DEF NothingCut, Cuts
  <2>2. Right(NothingCut, 0)
    BY <1>1, <1>4, NothingBegun DEF NothingCut
  <2> HIDE DEF Right
  <2> QED
    BY <2>1, <2>2
<1>6. ASSUME NEW i \in Nat, NEW cut \in Cuts, i < Len(c), Right(cut, i)
      PROVE  CutStep(cut, c[i + 1]) \in Cuts /\ Right(CutStep(cut, c[i + 1]), i + 1)
  <2> DEFINE u == c[i + 1]  next == CutStep(cut, u)
  <2>1. i + 1 \in 1 .. Len(c) /\ i <= Len(c)
    BY <1>2, <1>6
  <2>2. u \in Units
    BY <1>2, <2>1
  <2>3. PassAt(acc, u, fj[i], fk[i], fj[i + 1], fk[i + 1]) /\ Spot(fj[i], fk[i])
    BY <1>3, <1>6, <2>1
  <2>4. /\ fj[i] \in Nat /\ fj[i] > 0 /\ fk[i] \in Nat /\ fk[i] < SduUnits /\ fj[i] <= Len(acc)
        /\ u = <<acc[fj[i]], fk[i] + 1>> /\ (Ends(u) <=> fk[i] + 1 = SduUnits)
    BY <2>3 DEF PassAt, Spot, Ends
  <2>5. fj[i] \in 1 .. Len(acc)
    BY <2>4, AcceptedAre
  <2>6. j <= fj[i] /\ cut.whole = Wholes(acc, j, fj[i]) /\ cut.rest = Begun(acc, fj[i], fk[i])
    BY <1>6
  <2>7. Append(cut.rest, u) = Begun(acc, fj[i], fk[i] + 1)
    BY <2>4, <2>5, <2>6, BegunGrows
  <2>8. /\ next \in Cuts
        /\ Ends(u) => next.whole = Append(cut.whole, Append(cut.rest, u)) /\ next.rest = <<>>
        /\ ~Ends(u) => next.whole = cut.whole /\ next.rest = Append(cut.rest, u)
    BY <2>2, CutStepType
  <2> HIDE DEF u, next, Right, Good
  <2>9. CASE Ends(u)
    <3>1. fj[i + 1] = fj[i] + 1 /\ fk[i + 1] = 0
      BY <2>3, <2>4, <2>9 DEF PassAt
    <3>2. Append(cut.rest, u) = Sdu(acc[fj[i]])
      BY <2>4, <2>7, <2>9, BegunWhole
    <3>3. next.whole = Wholes(acc, j, fj[i] + 1)
      <4>1. Append(Wholes(acc, j, fj[i]), Sdu(acc[fj[i]])) = Wholes(acc, j, fj[i] + 1)
        BY <1>4, <2>4, <2>6, OneMoreWhole
      <4> QED
        BY <2>6, <2>8, <2>9, <3>2, <4>1
    <3>4. next.rest = Begun(acc, fj[i + 1], 0) /\ j <= fj[i] + 1
      <4>1. fj[i + 1] \in Nat /\ j <= fj[i] + 1
        BY <1>4, <2>4, <2>6, <3>1
      <4>2. Begun(acc, fj[i + 1], 0) = <<>>
        BY <4>1, NothingBegun
      <4> QED
        BY <2>8, <2>9, <4>1, <4>2
    <3> QED
      BY <2>8, <3>1, <3>3, <3>4 DEF Right, next, u
  <2>10. CASE ~Ends(u)
    <3>1. fj[i + 1] = fj[i] /\ fk[i + 1] = fk[i] + 1
      BY <2>3, <2>4, <2>10 DEF PassAt
    <3> QED
      BY <2>6, <2>7, <2>8, <2>10, <3>1 DEF Right, next, u
  <2> QED
    BY <2>9, <2>10
<1>7. \A i \in Nat : \A cut \in Cuts :
        i < Len(c) /\ cut \in Good[i] => CutStep(cut, c[i + 1]) \in Good[i + 1]
  <2> SUFFICES ASSUME NEW i \in Nat, NEW cut \in Cuts, i < Len(c), cut \in Good[i]
               PROVE  CutStep(cut, c[i + 1]) \in Good[i + 1]
    OBVIOUS
  <2> HIDE DEF Right
  <2>1. Right(cut, i)
    OBVIOUS
  <2>2. CutStep(cut, c[i + 1]) \in Cuts /\ Right(CutStep(cut, c[i + 1]), i + 1)
    BY <1>6, <2>1
  <2>3. i + 1 \in Nat
    OBVIOUS
  <2> QED
    BY <2>2, <2>3
<1> HIDE DEF Right
<1>8. \A i \in Nat : \A cut : cut \in Good[i] => Right(cut, i)
  OBVIOUS
<1> HIDE DEF Good
<1>9. Cut(c) \in Good[Len(c)]
  BY <1>5, <1>7, CutByUnits
<1>10. Right(Cut(c), Len(c))
  BY <1>2, <1>8, <1>9
<1> QED
  BY <1>1, <1>10 DEF Right

\* A stretch begins and ends at places of the stream.
LEMMA FlowReaches ==
  ASSUME NEW acc, Accepted(acc), NEW c \in Pieces, NEW j, NEW k, NEW j2, NEW k2,
         Flow(acc, c, j, k, j2, k2), Len(c) > 0
  PROVE  Reached(acc, j, k) /\ j <= Len(acc) /\ Reached(acc, j2, k2)
<1>1. PICK fj, fk : /\ Passes(acc, c, fj, fk)
                    /\ fj[0] = j /\ fk[0] = k /\ fj[Len(c)] = j2 /\ fk[Len(c)] = k2
  BY DEF Flow
<1>2. Len(c) \in Nat /\ Len(c) - 1 \in Nat /\ Len(c) - 1 <= Len(c) /\ Len(c) - 1 < Len(c) /\ (Len(c) - 1) + 1 = Len(c)
  BY LenProperties DEF Pieces
<1>3. Len(acc) \in Nat
  BY AcceptedAre
<1>4. Spot(j, k) /\ Spot(j2, k2) /\ j <= Len(acc)
  BY FlowEnds
<1>5. Reached(acc, j, k)
  BY <1>3, <1>4 DEF Reached, Spot
<1> DEFINE i == Len(c) - 1
<1>6. /\ Spot(fj[i], fk[i])
      /\ PassAt(acc, c[i + 1], fj[i], fk[i], fj[i + 1], fk[i + 1]) /\ fj[i + 1] = j2 /\ fk[i + 1] = k2
  BY <1>1, <1>2 DEF Passes
<1> HIDE DEF i
<1>7. fj[i] \in Nat /\ fj[i] <= Len(acc) /\ ((j2 = fj[i] + 1 /\ k2 = 0) \/ j2 = fj[i])
  BY <1>6 DEF PassAt, Spot
<1>8. j2 <= Len(acc) + 1 /\ (k2 > 0 => j2 <= Len(acc))
  BY <1>3, <1>4, <1>7 DEF Spot
<1> QED
  BY <1>4, <1>5, <1>8 DEF Reached

------------------------------------------------------------------------------
(* Reading PDUs. *)

\* What is read up to PDU n, and up to a place of the stream.
ReadIs(rs, acc, n, j, k) ==
  /\ Reached(acc, j, k) /\ rs \in States /\ rs.expected = No(n) /\ rs.failed = FALSE
  /\ rs.keepS0 = Begun(acc, j, k) /\ rs.delivered = Wholes(acc, 1, j)

LEMMA DeliverType ==
  ASSUME NEW rs \in States, NEW sn \in SNs, NEW units \in Pieces
  PROVE  ReassembleAndDeliver(rs, sn, units) \in States
<1>1. Reassemble(rs, sn, units) \in States
  BY ReassembleType
<1>2. Plus(sn, 1) \in SNs
  <2>1. sn + 1 \in Nat
    BY AmConstants
  <2> QED
    BY <2>1, AmConstants, Modulo DEF Plus, SNs
<1>3. [rs EXCEPT !.expected = Plus(sn, 1), !.failed = TRUE] \in States
  BY <1>2 DEF States
<1> QED
  BY <1>1, <1>3 DEF ReassembleAndDeliver

\* A PDU that follows what was read is joined with what was kept: its transition
\* is possible.
LEMMA PduIsRead ==
  ASSUME NEW acc, Accepted(acc), NEW c \in Pieces, NEW j, NEW k, NEW j2, NEW k2,
         Flow(acc, c, j, k, j2, k2), Len(c) > 0, NEW n \in Nat, NEW rs, ReadIs(rs, acc, n, j, k)
  PROVE  j <= j2 /\ ReadIs(ReassembleAndDeliver(rs, No(n), c), acc, n + 1, j2, k2)
<1> DEFINE kept == Begun(acc, j, k)  both == kept \o c
           next == ReassembleAndDeliver(rs, No(n), c)
<1>1. /\ rs \in States /\ rs.expected = No(n) /\ rs.failed = FALSE
      /\ rs.keepS0 = kept /\ rs.delivered = Wholes(acc, 1, j)
  BY DEF ReadIs
<1>2. Reached(acc, j, k) /\ j <= Len(acc) /\ Reached(acc, j2, k2)
  BY FlowReaches
<1>3. /\ j \in Nat /\ j > 0 /\ k \in Nat /\ k < SduUnits /\ j2 \in Nat /\ j2 > 0 /\ k2 \in Nat
      /\ k2 < SduUnits /\ j2 <= Len(acc) + 1
  BY <1>2 DEF Reached, Spot
<1>4. c[1] = <<acc[j], k + 1>>
  BY FlowEnds
<1>5. kept \in Pieces /\ Flow(acc, kept, j, 0, j, k)
  BY <1>2, BegunFlows
<1>6. Len(kept) = k
  BY <1>2, <1>3, AmConstants, BegunIs
<1>7. Begins(c[1]) <=> k = 0
  BY <1>3, <1>4 DEF Begins
<1>8. kept = <<>> <=> k = 0
  <2>1. kept \in Seq(Units)
    BY <1>5 DEF Pieces
  <2> QED
    BY <1>6, <2>1, EmptySeq
<1> HIDE DEF kept
<1>9. both \in Pieces /\ Flow(acc, both, j, 0, j2, k2)
  BY <1>5, FlowJoins
<1>10. j <= j2 /\ Cut(both).whole = Wholes(acc, j, j2) /\ Cut(both).rest = Begun(acc, j2, k2)
  BY <1>9, CutFlows
<1>11. No(n) \in SNs /\ Plus(No(n), 1) = No(n + 1)
  BY SumOfNumbers
<1>12. ReassembleAndDeliver(rs, No(n), c) = Reassemble(rs, No(n), c)
  BY <1>1, <1>7, <1>8 DEF ReassembleAndDeliver
<1>13. ~Impossible(rs, No(n), c) /\ CutFrom(rs, No(n), c) = both
  <2>1. CASE k = 0
    <3>1. both = c
      <4>1. kept = <<>> /\ c \in Seq(Units)
        BY <1>8, <2>1 DEF Pieces
      <4> QED
        BY <4>1, ConcatEmptySeq
    <3> QED
      BY <1>1, <1>7, <1>8, <2>1, <3>1 DEF Impossible, CutFrom
  <2>2. CASE k # 0
    BY <1>1, <1>7, <1>8, <2>2 DEF Impossible, CutFrom
  <2> QED
    BY <2>1, <2>2
<1>14. /\ next.expected = Plus(No(n), 1) /\ next.failed = rs.failed /\ next.keepS0 = Cut(both).rest
       /\ next.delivered = rs.delivered \o Cut(both).whole
  <2> HIDE DEF both, next
  <2>1. LET re == Reassemble(rs, No(n), c)
            cut == Cut(CutFrom(rs, No(n), c))
        IN /\ re.expected = Plus(No(n), 1)
           /\ ~Impossible(rs, No(n), c) =>
                /\ re.failed = rs.failed /\ re.keepS0 = cut.rest /\ re.delivered = rs.delivered \o cut.whole
    BY <1>1, <1>11, ReassembleIs
  <2> QED
    BY <1>12, <1>13, <2>1 DEF next
<1>15. next \in States
  BY <1>1, <1>11, DeliverType
<1>16. Wholes(acc, 1, j) \o Wholes(acc, j, j2) = Wholes(acc, 1, j2)
  <2>1. 1 \in Nat /\ 1 > 0 /\ 1 <= j
    BY <1>3
  <2> QED
    BY <1>3, <1>10, <2>1, WholesJoin
<1> HIDE DEF next, both
<1>17. ReadIs(next, acc, n + 1, j2, k2)
  BY <1>1, <1>2, <1>10, <1>11, <1>14, <1>15, <1>16 DEF ReadIs
<1> QED
  BY <1>10, <1>17 DEF next

\* What is read in a row of PDUs, if with each a property leads to the next.
LEMMA ReadByNumbers ==
  ASSUME NEW placed, Buffered(placed), NEW rs \in States, NEW r \in Nat, NEW n \in Nat,
         NEW Good, rs \in Good[0],
         \A k \in Nat : \A q \in States :
           k < n /\ q \in Good[k] =>
             ReassembleAndDeliver(q, No(r + k), placed[No(r + k)].units) \in Good[k + 1]
  PROVE  Read(rs, placed, r, r + n) \in States /\ Read(rs, placed, r, r + n) \in Good[n]
<1> DEFINE sns == [i \in 1 .. n |-> No(r + i - 1)]
           one(q, sn) == ReassembleAndDeliver(q, sn, placed[sn].units)
           step == [x \in (1 .. n) \X States |-> one(x[2], sns[x[1]])]
           choice == [T \in SUBSET (1 .. n) |-> Max(T)]
           rec(f) == [T \in SUBSET (1 .. n) |->
                        IF T = {} THEN rs
                        ELSE LET x == Max(T) IN one(f[T \ {x}], sns[x])]
           fold == CHOOSE f : f = rec(f)
           Typed == [k \in Nat |-> {q \in States : q \in Good[k]}]
<1>1. DOMAIN sns = 1 .. n /\ \A k \in 1 .. n : sns[k] \in SNs /\ sns[k] = No(r + k - 1)
  <2>1. \A k \in 1 .. n : r + k - 1 \in Nat
    OBVIOUS
  <2>2. \A k \in 1 .. n : No(r + k - 1) \in SNs
    BY <2>1, SumOfNumbers
  <2> QED
    BY <2>2
<1>2. Read(rs, placed, r, r + n) = fold[1 .. n]
  <2>1. (r + n) - r = n
    OBVIOUS
  <2>2. Read(rs, placed, r, r + n)
          = FoldLeft(LAMBDA q, sn : ReassembleAndDeliver(q, sn, placed[sn].units), rs, sns)
    BY <2>1, Zenon DEF Read
  <2> HIDE DEF sns
  <2> QED
    BY <1>1, <2>2, Zenon DEF FoldLeft, MapThenFoldSet
<1>3. ASSUME NEW q \in States, NEW sn \in SNs PROVE one(q, sn) \in States
  <2>1. placed[sn].units \in Pieces
    BY DEF Buffered, Entries
  <2> QED
    BY <2>1, DeliverType
<1> HIDE DEF sns, one
<1>4. fold = rec(fold)
  <2>1. step \in [(1 .. n) \X States -> States]
    BY <1>1, <1>3
  <2>2. IsFiniteSet(1 .. n)
    BY FS_Interval
  <2>3. \A T \in SUBSET (1 .. n) : T # {} => choice[T] = Max(T) /\ choice[T] \in T
    BY MaxOfPositions
  <2>4. PICK it \in [SUBSET (1 .. n) -> States] :
          IsRecursive(it, SUBSET (1 .. n), rs, step, choice)
    <3> HIDE DEF step, choice
    <3> QED
      BY <2>1, <2>2, <2>3, SetRecursion
  <2>5. ASSUME NEW T \in SUBSET (1 .. n), T # {}
        PROVE  step[<<choice[T], it[T \ {choice[T]}]>>] = one(it[T \ {Max(T)}], sns[Max(T)])
    <3>1. Max(T) \in 1 .. n /\ choice[T] = Max(T) /\ it[T \ {Max(T)}] \in States
      BY <2>3, <2>4, <2>5
    <3> HIDE DEF choice
    <3> QED
      BY <3>1
  <2>6. \A T \in SUBSET (1 .. n) : it[T] = rec(it)[T]
    BY <2>4, <2>5 DEF IsRecursive
  <2>7. it = rec(it)
    BY <2>6
  <2> QED
    BY <2>7
<1>5. fold[{}] = rs
  BY <1>4
<1>6. ASSUME NEW k \in Nat, k < n
      PROVE  fold[1 .. k + 1] = one(fold[1 .. k], sns[k + 1])
  <2>1. 1 .. k + 1 \in SUBSET (1 .. n) /\ 1 .. k + 1 # {}
    BY <1>6, PrefixInside
  <2> DEFINE T == 1 .. k + 1
  <2> HIDE DEF fold
  <2>2. fold[T] = one(fold[T \ {Max(T)}], sns[Max(T)])
    BY <1>4, <2>1
  <2> QED
    BY <2>2, MaxOfPrefix
<1> HIDE DEF fold, rec, step, choice
<1>7. fold[1 .. n] \in Typed[n]
  <2>1. fold[{}] \in Typed[0]
    BY <1>5
  <2>2. ASSUME NEW k \in Nat, k < n, fold[1 .. k] \in Typed[k]
        PROVE  fold[1 .. k + 1] \in Typed[k + 1]
    <3>1. fold[1 .. k] \in States /\ fold[1 .. k] \in Good[k]
      BY <2>2
    <3>2. k + 1 \in 1 .. n /\ r + (k + 1) - 1 = r + k
      BY <2>2
    <3>3. sns[k + 1] = No(r + k) /\ sns[k + 1] \in SNs
      BY <1>1, <3>2
    <3>4. one(fold[1 .. k], sns[k + 1]) \in States
      BY <1>3, <3>1, <3>3
    <3>5. one(fold[1 .. k], sns[k + 1]) \in Good[k + 1]
      BY <2>2, <3>1, <3>3 DEF one
    <3> QED
      BY <1>6, <2>2, <3>4, <3>5
  <2> HIDE DEF Typed
  <2> QED
    BY <2>1, <2>2, PrefixInduction
<1> QED
  BY <1>2, <1>7

\* The places of the stream where PDUs begin.
PlacesAre(acc, sent, s, pj, pk) ==
  \A n \in Nat : n < s => Len(sent[n]) > 0 /\ Flow(acc, sent[n], pj[n], pk[n], pj[n + 1], pk[n + 1])

LEMMA PdusAreRead ==
  ASSUME NEW acc, Accepted(acc), NEW sent, Sent(sent), NEW s, s \in Nat, NEW pj, NEW pk,
         PlacesAre(acc, sent, s, pj, pk), NEW r, r \in Nat, NEW r2, r2 \in Nat, r <= r2, r2 <= s,
         NEW placed, Buffered(placed), WholeFrom(placed, sent, r, r2),
         NEW rs, ReadIs(rs, acc, r, pj[r], pk[r])
  PROVE  ReadIs(Read(rs, placed, r, r2), acc, r2, pj[r2], pk[r2]) /\ pj[r] <= pj[r2]
<1> DEFINE n == r2 - r
           Good == [i \in Nat |-> {q \in States : ReadIs(q, acc, r + i, pj[r + i], pk[r + i]) /\ pj[r] <= pj[r + i]}]
<1>1. n \in Nat /\ r + n = r2 /\ r + 0 = r
  OBVIOUS
<1>2. rs \in States /\ pj[r] \in Nat
  BY DEF ReadIs, Reached, Spot
<1>3. rs \in Good[0]
  BY <1>1, <1>2
<1>4. ASSUME NEW i \in Nat, NEW q \in States, i < n,
             ReadIs(q, acc, r + i, pj[r + i], pk[r + i]), pj[r] <= pj[r + i]
      PROVE  LET next == ReassembleAndDeliver(q, No(r + i), placed[No(r + i)].units)
             IN /\ next \in States /\ ReadIs(next, acc, r + (i + 1), pj[r + (i + 1)], pk[r + (i + 1)])
                /\ pj[r] <= pj[r + (i + 1)]
  <2> DEFINE m == r + i  next == ReassembleAndDeliver(q, No(m), placed[No(m)].units)
  <2>1. m \in Nat /\ r <= m /\ m < r2 /\ m < s /\ m + 1 = r + (i + 1)
    BY <1>1, <1>4
  <2>2. ReadIs(q, acc, m, pj[m], pk[m]) /\ pj[r] <= pj[m]
    BY <1>4
  <2> HIDE DEF m
  <2>3. placed[No(m)].units = sent[m]
    BY <2>1 DEF WholeFrom
  <2>4. sent[m] \in Pieces /\ Len(sent[m]) > 0 /\ Flow(acc, sent[m], pj[m], pk[m], pj[m + 1], pk[m + 1])
    BY <2>1 DEF Sent, PlacesAre
  <2>5. pj[m] <= pj[m + 1] /\ ReadIs(ReassembleAndDeliver(q, No(m), sent[m]), acc, m + 1, pj[m + 1], pk[m + 1])
    BY <2>1, <2>2, <2>4, PduIsRead
  <2>6. pj[m] \in Nat /\ pj[m + 1] \in Nat
    BY <2>4, FlowEnds DEF Spot
  <2>7. pj[r] <= pj[m + 1]
    BY <1>2, <2>2, <2>5, <2>6
  <2>8. ReadIs(next, acc, m + 1, pj[m + 1], pk[m + 1])
    BY <2>3, <2>5
  <2>9. next \in States
    BY <2>8 DEF ReadIs
  <2> QED
    BY <2>1, <2>7, <2>8, <2>9 DEF m
<1>5. \A i \in Nat : \A q : q \in Good[i] <=>
        q \in States /\ ReadIs(q, acc, r + i, pj[r + i], pk[r + i]) /\ pj[r] <= pj[r + i]
  OBVIOUS
<1> HIDE DEF Good, n
<1>6. \A i \in Nat : \A q \in States :
        i < n /\ q \in Good[i] =>
          ReassembleAndDeliver(q, No(r + i), placed[No(r + i)].units) \in Good[i + 1]
  <2> SUFFICES ASSUME NEW i \in Nat, NEW q \in States, i < n, q \in Good[i]
               PROVE  ReassembleAndDeliver(q, No(r + i), placed[No(r + i)].units) \in Good[i + 1]
    OBVIOUS
  <2>1. ReadIs(q, acc, r + i, pj[r + i], pk[r + i]) /\ pj[r] <= pj[r + i]
    BY <1>5
  <2>2. i + 1 \in Nat
    OBVIOUS
  <2> QED
    BY <1>4, <1>5, <2>1, <2>2
<1>7. Read(rs, placed, r, r + n) \in Good[n]
  BY <1>1, <1>2, <1>3, <1>6, ReadByNumbers
<1> QED
  BY <1>1, <1>5, <1>7

------------------------------------------------------------------------------
(* The stream: what was read, what was sent behind it, and what waits to be  *)
(* sent, one after the other.                                              *)

StreamIs(sent, s, r, pj, pk) ==
  /\ PlacesAre(accepted, sent, s, pj, pk)
  /\ Flow(accepted, txon, pj[s], pk[s], Len(accepted) + 1, 0)
  /\ ReadIs(reassembly, accepted, r, pj[r], pk[r])

\* The stream after a step, in which more is accepted or more is read.
StreamMoves(sent2, s2, r2, j) ==
  \E pj, pk : /\ StreamIs(sent2, s2, r2, pj, pk)' /\ j <= pj[r2]
              /\ \/ accepted' = accepted
                 \/ pj[r2] = j /\ \E sdu \in 1 .. NSdus : accepted' = Append(accepted, sdu)

\* An SDU more does not change what was read.
LEMMA ReadStays ==
  ASSUME NEW acc, Accepted(acc), NEW sdu \in 1 .. NSdus, NEW rs, NEW n, NEW j, NEW k, ReadIs(rs, acc, n, j, k)
  PROVE  ReadIs(rs, Append(acc, sdu), n, j, k)
<1> DEFINE more == Append(acc, sdu)
<1>1. Len(acc) \in Nat /\ Len(more) = Len(acc) + 1 /\ \A i \in 1 .. Len(acc) : more[i] = acc[i]
  <2>1. acc \in Seq(1 .. NSdus)
    BY DEF Accepted
  <2> QED
    BY <2>1, AppendProperties, LenProperties
<1>2. j \in Nat /\ j > 0 /\ k \in Nat /\ j <= Len(acc) + 1 /\ (k > 0 => j <= Len(acc)) /\ Spot(j, k)
  BY DEF ReadIs, Reached, Spot
<1> HIDE DEF more
<1>3. Reached(more, j, k)
  BY <1>1, <1>2 DEF Reached
<1>4. Begun(more, j, k) = Begun(acc, j, k)
  <2>1. CASE k > 0
    <3>1. more[j] = acc[j]
      BY <1>1, <1>2, <2>1
    <3> QED
      BY <3>1 DEF Begun
  <2>2. CASE k = 0
    BY <1>2, <2>2, NothingBegun
  <2> QED
    BY <1>2, <2>1, <2>2
<1>5. Wholes(more, 1, j) = Wholes(acc, 1, j)
  <2>1. \A i \in 1 .. j - 1 : 1 + i - 1 \in 1 .. Len(acc)
    BY <1>1, <1>2
  <2>2. \A i \in 1 .. j - 1 : Sdu(more[1 + i - 1]) = Sdu(acc[1 + i - 1])
    BY <1>1, <2>1
  <2> QED
    BY <2>2 DEF Wholes
<1> QED
  BY <1>4, <1>5, <1>3 DEF ReadIs, more

LEMMA StreamGetsSdu ==
  ASSUME AmTypes, AmTypes', NEW sent, Sent(sent), NEW s, s \in Nat, NEW r, r \in Nat, r <= s,
         NEW pj, NEW pk, StreamIs(sent, s, r, pj, pk), DoTransmitPdcpPdu, reassembly' = reassembly
  PROVE  StreamMoves(sent, s, r, pj[r])
<1>1. Accepted(accepted) /\ txon \in Pieces /\ Len(txon) <= MaxTxBuffer /\ HistoryTypes
  BY DEF AmTypes, SenderTypes, HistoryTypes, Accepted
<1>2. \/ txon' = txon /\ accepted' = accepted
      \/ \E sdu \in 1 .. NSdus : txon' = txon \o Sdu(sdu) /\ accepted' = Append(accepted, sdu)
  BY <1>1, SduIsHandedIn
<1>3. pj[r] <= pj[r]
  BY DEF StreamIs, ReadIs, Reached, Spot
<1>4. /\ PlacesAre(accepted, sent, s, pj, pk)
      /\ Flow(accepted, txon, pj[s], pk[s], Len(accepted) + 1, 0)
      /\ ReadIs(reassembly, accepted, r, pj[r], pk[r])
  BY DEF StreamIs
<1>5. CASE txon' = txon /\ accepted' = accepted
  <2>1. StreamIs(sent, s, r, pj, pk)'
    BY <1>4, <1>5 DEF StreamIs
  <2> QED
    BY <1>3, <1>5, <2>1 DEF StreamMoves
<1>6. CASE \E sdu \in 1 .. NSdus : txon' = txon \o Sdu(sdu) /\ accepted' = Append(accepted, sdu)
  <2>1. PICK sdu \in 1 .. NSdus : txon' = txon \o Sdu(sdu) /\ accepted' = Append(accepted, sdu)
    BY <1>6
  <2> DEFINE more == Append(accepted, sdu)
  <2>2. /\ more \in Seq(1 .. NSdus) /\ Len(more) = Len(accepted) + 1 /\ more[Len(accepted) + 1] = sdu
        /\ Len(accepted) \in Nat
    <3>1. accepted \in Seq(1 .. NSdus)
      BY <1>1 DEF Accepted
    <3> QED
      BY <3>1, AppendProperties, LenProperties
  <2>3. \A c, j, k, j2, k2 : Flow(accepted, c, j, k, j2, k2) => Flow(more, c, j, k, j2, k2)
    BY <1>1, FlowGrows DEF Accepted
  <2> HIDE DEF more
  <2>4. PlacesAre(more, sent, s, pj, pk)
    BY <1>4, <2>3 DEF PlacesAre
  <2>5. ReadIs(reassembly, more, r, pj[r], pk[r])
    BY <1>1, <1>4, ReadStays DEF more
  <2>6. Flow(more, txon \o Sdu(sdu), pj[s], pk[s], Len(more) + 1, 0)
    <3>1. Flow(more, txon, pj[s], pk[s], Len(accepted) + 1, 0)
      BY <1>4, <2>3
    <3>2. Accepted(more) /\ Len(accepted) + 1 \in 1 .. Len(more)
      BY <2>2 DEF Accepted
    <3>3. /\ Sdu(more[Len(accepted) + 1]) \in Pieces
          /\ Flow(more, Sdu(more[Len(accepted) + 1]), Len(accepted) + 1, 0, (Len(accepted) + 1) + 1, 0)
      BY <3>2, SduFlows
    <3>4. Sdu(sdu) \in Pieces /\ Flow(more, Sdu(sdu), Len(accepted) + 1, 0, Len(more) + 1, 0)
      BY <2>2, <3>3
    <3> QED
      BY <1>1, <3>1, <3>4, FlowJoins
  <2>7. StreamIs(sent, s, r, pj, pk)'
    BY <2>1, <2>4, <2>5, <2>6 DEF StreamIs, more
  <2> QED
    BY <1>3, <2>1, <2>7 DEF StreamMoves
<1> QED
  BY <1>2, <1>5, <1>6

LEMMA StreamIsSent ==
  ASSUME AmTypes, NEW sent, Sent(sent), NEW s, s \in Nat, NEW r, r \in Nat, r <= s,
         NEW pj, NEW pk, StreamIs(sent, s, r, pj, pk), NEW sent2, NEW s2, Sends(sent, s, sent2, s2),
         reassembly' = reassembly, accepted' = accepted
  PROVE  StreamMoves(sent2, s2, r, pj[r])
<1>1. Accepted(accepted) /\ txon \in Pieces
  BY DEF AmTypes, SenderTypes, HistoryTypes, Accepted
<1>2. pj[r] <= pj[r]
  BY DEF StreamIs, ReadIs, Reached, Spot
<1>3. /\ PlacesAre(accepted, sent, s, pj, pk)
      /\ Flow(accepted, txon, pj[s], pk[s], Len(accepted) + 1, 0)
      /\ ReadIs(reassembly, accepted, r, pj[r], pk[r])
  BY DEF StreamIs
<1>4. CASE sent2 = sent /\ s2 = s /\ txon' = txon
  <2>1. StreamIs(sent2, s2, r, pj, pk)'
    BY <1>3, <1>4 DEF StreamIs
  <2> QED
    BY <1>2, <2>1 DEF StreamMoves
<1>5. CASE \E m \in 1 .. Len(txon) :
             /\ sent2 = [sent EXCEPT ![s] = SubSeq(txon, 1, m)] /\ s2 = s + 1
             /\ txon' = SubSeq(txon, m + 1, Len(txon))
  <2>1. PICK m \in 1 .. Len(txon) :
             /\ sent2 = [sent EXCEPT ![s] = SubSeq(txon, 1, m)] /\ s2 = s + 1
             /\ txon' = SubSeq(txon, m + 1, Len(txon))
    BY <1>5
  <2>2. Len(txon) \in Nat /\ m \in Nat /\ m > 0 /\ m \in 0 .. Len(txon)
    BY <1>1, LenProperties DEF Pieces
  <2>3. PICK j1, k1 : /\ Flow(accepted, SubSeq(txon, 1, m), pj[s], pk[s], j1, k1)
                      /\ Flow(accepted, SubSeq(txon, m + 1, Len(txon)), j1, k1, Len(accepted) + 1, 0)
    BY <1>1, <1>3, FlowCuts
  <2>4. Len(SubSeq(txon, 1, m)) = m
    <3>1. txon \in Seq(Units)
      BY <1>1 DEF Pieces
    <3> QED
      BY <2>2, <3>1, TwoParts
  <2> DEFINE qj == [n \in Nat |-> IF n = s + 1 THEN j1 ELSE pj[n]]
             qk == [n \in Nat |-> IF n = s + 1 THEN k1 ELSE pk[n]]
             first == SubSeq(txon, 1, m)
  <2>5. /\ \A n \in Nat : n <= s => qj[n] = pj[n] /\ qk[n] = pk[n]
        /\ qj[s + 1] = j1 /\ qk[s + 1] = k1
    OBVIOUS
  <2> HIDE DEF qj, qk, first
  <2>6. sent2[s] = first /\ \A n \in Nat : n # s => sent2[n] = sent[n]
    BY <2>1 DEF Sent, first
  <2>7. PlacesAre(accepted, sent2, s2, qj, qk)
    <3> SUFFICES ASSUME NEW n \in Nat, n < s2
                 PROVE  Len(sent2[n]) > 0 /\ Flow(accepted, sent2[n], qj[n], qk[n], qj[n + 1], qk[n + 1])
      BY DEF PlacesAre
    <3>1. CASE n < s
      <4>1. n <= s /\ n + 1 <= s /\ n # s /\ n + 1 \in Nat
        BY <3>1
      <4>2. Len(sent[n]) > 0 /\ Flow(accepted, sent[n], pj[n], pk[n], pj[n + 1], pk[n + 1])
        BY <1>3, <3>1 DEF PlacesAre
      <4> QED
        BY <2>5, <2>6, <4>1, <4>2
    <3>2. CASE ~(n < s)
      <4>1. n = s /\ s <= s
        BY <2>1, <3>2
      <4> QED
        BY <2>2, <2>3, <2>4, <2>5, <2>6, <4>1 DEF first
    <3> QED
      BY <3>1, <3>2
  <2>8. qj[r] = pj[r] /\ qk[r] = pk[r] /\ qj[s2] = j1 /\ qk[s2] = k1
    BY <2>1, <2>5
  <2>9. StreamIs(sent2, s2, r, qj, qk)'
    BY <1>3, <2>1, <2>3, <2>7, <2>8 DEF StreamIs
  <2> QED
    BY <1>2, <2>8, <2>9 DEF StreamMoves
<1> QED
  BY <1>4, <1>5 DEF Sends

LEMMA StreamIsRead ==
  ASSUME AmTypes, NEW sent, Sent(sent), NEW s, s \in Nat, NEW r, r \in Nat, r <= s, NEW r2, r2 \in Nat,
         NEW pj, NEW pk, StreamIs(sent, s, r, pj, pk), Reads(sent, s, r, r2),
         txon' = txon, accepted' = accepted
  PROVE  StreamMoves(sent, s, r2, pj[r])
<1>1. Accepted(accepted) /\ txon \in Pieces
  BY DEF AmTypes, SenderTypes, HistoryTypes, Accepted
<1>2. pj[r] \in Nat
  BY DEF StreamIs, ReadIs, Reached, Spot
<1>3. /\ PlacesAre(accepted, sent, s, pj, pk)
      /\ Flow(accepted, txon, pj[s], pk[s], Len(accepted) + 1, 0)
      /\ ReadIs(reassembly, accepted, r, pj[r], pk[r])
  BY DEF StreamIs
<1>4. ReadIs(reassembly', accepted, r2, pj[r2], pk[r2]) /\ pj[r] <= pj[r2]
  <2>1. CASE r2 = r /\ reassembly' = reassembly
    BY <1>2, <1>3, <2>1
  <2>2. CASE \E placed : /\ r <= r2 /\ r2 <= s /\ Buffered(placed) /\ WholeFrom(placed, sent, r, r2)
                         /\ reassembly' = Read(reassembly, placed, r, r2)
    <3>1. PICK placed : /\ r <= r2 /\ r2 <= s /\ Buffered(placed) /\ WholeFrom(placed, sent, r, r2)
                        /\ reassembly' = Read(reassembly, placed, r, r2)
      BY <2>2
    <3>2. ReadIs(Read(reassembly, placed, r, r2), accepted, r2, pj[r2], pk[r2]) /\ pj[r] <= pj[r2]
      BY <1>1, <1>2, <1>3, <3>1, PdusAreRead
    <3> QED
      BY <3>1, <3>2
  <2> QED
    BY <2>1, <2>2 DEF Reads
<1>5. StreamIs(sent, s, r2, pj, pk)'
  BY <1>3, <1>4 DEF StreamIs
<1> QED
  BY <1>4, <1>5 DEF StreamMoves

------------------------------------------------------------------------------
(* The invariant. *)

AmHas(sent, a, s, r, ms, h, x, num, low, ack, nack, pj, pk) ==
  Holds(sent, a, s, r, ms, h, x, num, low, ack, nack) /\ StreamIs(sent, s, r, pj, pk)

AmInv ==
  AmTypes /\ \E sent, a, s, r, ms, h, x, num, low, ack, nack, pj, pk :
               AmHas(sent, a, s, r, ms, h, x, num, low, ack, nack, pj, pk)

\* What the sending and the receiving entity know is the same stream.
LEMMA BothEnds ==
  ASSUME AmTypes, NEW sent, NEW a, NEW s, NEW r, NEW ms, NEW h, NEW x, NEW num, NEW low, NEW ack, NEW nack,
         Holds(sent, a, s, r, ms, h, x, num, low, ack, nack)
  PROVE  /\ Accepted(accepted) /\ txon \in Pieces /\ Sent(sent)
         /\ s \in Nat /\ r \in Nat /\ a \in Nat /\ a <= r /\ r <= s
<1>1. Accepted(accepted) /\ txon \in Pieces
  BY DEF AmTypes, SenderTypes, HistoryTypes, Accepted
<1>2. /\ Sent(sent) /\ s \in Nat /\ r \in Nat /\ a \in Nat /\ a <= r
      /\ ms \in Nat /\ h \in Nat /\ r <= ms /\ ms <= h /\ h <= s
  BY DEF Holds, SenderHas, StatusHas, ReceiverHas, ReceiverIs
<1> QED
  BY <1>1, <1>2

\* A step the invariant keeps, and what is read before and after it.
AmAdvances(j) ==
  \E sent, a, s, r, ms, h, x, num, low, ack, nack, pj, pk :
    /\ AmHas(sent, a, s, r, ms, h, x, num, low, ack, nack, pj, pk)' /\ j <= pj[r]
    /\ \/ accepted' = accepted
       \/ pj[r] = j /\ \E sdu \in 1 .. NSdus : accepted' = Append(accepted, sdu)

LEMMA AmStep ==
  ASSUME AmTypes, NEW sent, NEW a, NEW s, NEW r, NEW ms, NEW h, NEW x, NEW num, NEW low, NEW ack, NEW nack,
         NEW pj, NEW pk, AmHas(sent, a, s, r, ms, h, x, num, low, ack, nack, pj, pk),
         ~StatusOvertakes, [Next]_vars
  PROVE  AmTypes' /\ AmAdvances(pj[r])
<1>1. Holds(sent, a, s, r, ms, h, x, num, low, ack, nack) /\ StreamIs(sent, s, r, pj, pk)
  BY DEF AmHas
<1>2. /\ Accepted(accepted) /\ txon \in Pieces /\ Sent(sent)
      /\ s \in Nat /\ r \in Nat /\ r <= s
  BY <1>1, BothEnds
<1>3. AmTypes' /\ AmMoves(sent, s, r)
  <2>1. CASE Next
    BY <1>1, <2>1, NextMoves
  <2>2. CASE UNCHANGED vars
    BY <1>1, <2>2, StutterMoves
  <2> QED
    BY <2>1, <2>2
<1>4. PICK sent2, a2, s2, r2, ms2, h2, x2, num2, low2, ack2, nack2 :
             /\ Moves(sent, s, r, sent2, s2, r2)
             /\ Holds(sent2, a2, s2, r2, ms2, h2, x2, num2, low2, ack2, nack2)'
  BY <1>3 DEF AmMoves
<1>5. r2 \in Nat
  BY <1>4 DEF Holds, ReceiverHas
<1>6. StreamMoves(sent2, s2, r2, pj[r])
  <2>1. CASE sent2 = sent /\ s2 = s /\ r2 = r /\ reassembly' = reassembly /\ DoTransmitPdcpPdu
    BY <1>1, <1>2, <1>3, <2>1, StreamGetsSdu
  <2>2. CASE /\ Sends(sent, s, sent2, s2) /\ r2 = r /\ reassembly' = reassembly
             /\ accepted' = accepted /\ offered' = offered
    BY <1>1, <1>2, <2>2, StreamIsSent
  <2>3. CASE /\ sent2 = sent /\ s2 = s /\ Reads(sent, s, r, r2)
             /\ txon' = txon /\ accepted' = accepted /\ offered' = offered
    BY <1>1, <1>2, <1>5, <2>3, StreamIsRead
  <2> QED
    BY <1>4, <2>1, <2>2, <2>3 DEF Moves
<1>7. PICK pj2, pk2 :
        /\ StreamIs(sent2, s2, r2, pj2, pk2)' /\ pj[r] <= pj2[r2]
        /\ \/ accepted' = accepted
           \/ pj2[r2] = pj[r] /\ \E sdu \in 1 .. NSdus : accepted' = Append(accepted, sdu)
  BY <1>6 DEF StreamMoves
<1>8. AmHas(sent2, a2, s2, r2, ms2, h2, x2, num2, low2, ack2, nack2, pj2, pk2)'
  BY <1>4, <1>7 DEF AmHas
<1>9. AmAdvances(pj[r])
  BY <1>7, <1>8 DEF AmAdvances
<1> QED
  BY <1>3, <1>9

LEMMA AmInitially ==
  ASSUME Init
  PROVE  AmInv
<1> DEFINE zero == [i \in Nat |-> 0]  names == [i \in Nat |-> {}]  ones == [i \in Nat |-> 1]
<1>1. AmTypes
  BY InitTypes
<1>2. Holds(NothingSent, 0, 0, 0, 0, 0, 0, zero, zero, zero, names)
  BY InitHolds
<1>3. zero[0] = 0 /\ ones[0] = 1
  OBVIOUS
<1> HIDE DEF zero, names, ones
<1>4. txon = <<>> /\ accepted = <<>> /\ reassembly = InitialReassembly
  BY DEF Init
<1>5. Len(accepted) = 0 /\ Len(accepted) + 1 = 1
  BY <1>4
<1>6. PlacesAre(accepted, NothingSent, 0, ones, zero)
  <2>1. \A n \in Nat : ~(n < 0)
    OBVIOUS
  <2> QED
    BY <2>1 DEF PlacesAre
<1>7. Flow(accepted, txon, ones[0], zero[0], Len(accepted) + 1, 0)
  <2>1. Spot(1, 0)
    BY AmConstants DEF Spot
  <2> QED
    BY <1>3, <1>4, <1>5, <2>1, EmptyFlow
<1>8. ReadIs(reassembly, accepted, 0, ones[0], zero[0])
  <2>1. No(0) = 0 /\ 0 \in SNs
    BY AmConstants, Modulo DEF No
  <2>2. <<>> \in Pieces /\ <<>> \in Seq(Pieces)
    BY EmptySeq DEF Pieces
  <2>3. InitialReassembly \in States
    BY <2>1, <2>2 DEF InitialReassembly, States
  <2>4. Begun(accepted, 1, 0) = <<>> /\ Wholes(accepted, 1, 1) = <<>>
    BY NothingBegun
  <2>5. Reached(accepted, 1, 0)
    BY <1>5, AmConstants DEF Reached, Spot
  <2> QED
    BY <1>3, <1>4, <2>1, <2>3, <2>4, <2>5 DEF ReadIs, InitialReassembly
<1>9. StreamIs(NothingSent, 0, 0, ones, zero)
  BY <1>6, <1>7, <1>8 DEF StreamIs
<1>10. AmHas(NothingSent, 0, 0, 0, 0, 0, 0, zero, zero, zero, names, ones, zero)
  BY <1>2, <1>9 DEF AmHas
<1> QED
  BY <1>1, <1>10 DEF AmInv

LEMMA AmInvIsKept ==
  ASSUME AmInv, ~StatusOvertakes, [Next]_vars
  PROVE  AmInv'
<1>1. AmTypes
  BY DEF AmInv
<1>2. PICK sent, a, s, r, ms, h, x, num, low, ack, nack, pj, pk :
             AmHas(sent, a, s, r, ms, h, x, num, low, ack, nack, pj, pk)
  BY DEF AmInv
<1>3. AmTypes' /\ AmAdvances(pj[r])
  BY <1>1, <1>2, AmStep
<1> QED
  BY <1>3 DEF AmAdvances, AmInv

------------------------------------------------------------------------------
(* What follows for the stream. *)

\* The SDUs among the packets handed up.
Packets(delivered) ==
  [i \in DOMAIN delivered |->
     IF delivered[i] = Sdu(delivered[i][1][1]) THEN delivered[i][1][1] ELSE 0]

\* What was handed up is the beginning of what was accepted.
LEMMA PacketsAre ==
  ASSUME NEW acc, Accepted(acc), NEW rs, NEW n, NEW j, NEW k, ReadIs(rs, acc, n, j, k)
  PROVE  Packets(rs.delivered) = SubSeq(acc, 1, j - 1) /\ Len(SubSeq(acc, 1, j - 1)) = j - 1
<1>1. j \in Nat /\ j > 0 /\ j <= Len(acc) + 1 /\ Len(acc) \in Nat /\ j - 1 \in 0 .. Len(acc)
  BY AcceptedAre DEF ReadIs, Reached, Spot
<1> DEFINE packets == rs.delivered
<1>2. packets = Wholes(acc, 1, j)
  BY DEF ReadIs
<1>3. DOMAIN packets = 1 .. j - 1
  BY <1>2 DEF Wholes
<1> HIDE DEF packets
<1>4. ASSUME NEW i \in 1 .. j - 1
      PROVE  Packets(packets)[i] = acc[i]
  <2>1. i \in 1 .. Len(acc) /\ 1 + i - 1 = i
    BY <1>1
  <2>2. packets[i] = Sdu(acc[i])
    BY <1>2, <2>1 DEF Wholes
  <2>3. 1 \in 1 .. SduUnits
    BY AmConstants
  <2>4. Sdu(acc[i])[1][1] = acc[i]
    BY <2>3 DEF Sdu
  <2> QED
    BY <1>3, <2>2, <2>4 DEF Packets
<1>5. Packets(packets) = [i \in 1 .. j - 1 |-> acc[i]]
  <2>1. DOMAIN Packets(packets) = 1 .. j - 1
    BY <1>3 DEF Packets
  <2>2. Packets(packets) = [i \in DOMAIN Packets(packets) |-> Packets(packets)[i]]
    BY DEF Packets
  <2> QED
    BY <1>4, <2>1, <2>2
<1>6. acc \in Seq(1 .. NSdus)
  BY DEF Accepted
<1>7. SubSeq(acc, 1, j - 1) = [i \in 1 .. j - 1 |-> acc[i]]
  BY <1>1, <1>6 DEF SubSeq
<1>8. Len(SubSeq(acc, 1, j - 1)) = j - 1
  BY <1>1, <1>6, TwoParts
<1> QED
  BY <1>5, <1>7, <1>8 DEF packets

\* A unit that was accepted is passed up, waits to be sent, or is in a PDU sent
\* but not passed up.
LEMMA UnitIsSomewhere ==
  ASSUME Accepted(accepted), txon \in Pieces, NEW sent, Sent(sent), NEW s, s \in Nat, NEW r, r \in Nat, r <= s,
         NEW pj, NEW pk, StreamIs(sent, s, r, pj, pk),
         NEW i \in 1 .. Len(accepted), NEW q \in 1 .. SduUnits
  PROVE  \/ Passed(i, q, pj[r], pk[r])
         \/ <<accepted[i], q>> \in ToSet(txon)
         \/ \E n \in Nat : r <= n /\ n < s /\ <<accepted[i], q>> \in ToSet(sent[n])
<1> DEFINE u == <<accepted[i], q>>
<1> SUFFICES ASSUME ~Passed(i, q, pj[r], pk[r]), u \notin ToSet(txon),
                    \A n \in Nat : r <= n /\ n < s => u \notin ToSet(sent[n])
             PROVE  FALSE
  OBVIOUS
<1>1. i \in Nat /\ q \in Nat /\ 0 < q /\ q <= SduUnits /\ i <= Len(accepted) /\ Len(accepted) \in Nat
  BY AcceptedAre, AmConstants
<1>2. /\ PlacesAre(accepted, sent, s, pj, pk)
      /\ Flow(accepted, txon, pj[s], pk[s], Len(accepted) + 1, 0)
  BY DEF StreamIs
<1> DEFINE Q == {n \in Nat : r + n <= s => ~Passed(i, q, pj[r + n], pk[r + n])}
<1>3. 0 \in Q
  <2>1. r + 0 = r
    OBVIOUS
  <2> QED
    BY <2>1
<1>4. ASSUME NEW n \in Nat, n \in Q PROVE n + 1 \in Q
  <2> SUFFICES ASSUME r + (n + 1) <= s PROVE ~Passed(i, q, pj[r + (n + 1)], pk[r + (n + 1)])
    OBVIOUS
  <2> DEFINE m == r + n
  <2>1. m \in Nat /\ r <= m /\ m < s /\ m <= s /\ m + 1 = r + (n + 1)
    OBVIOUS
  <2>2. ~Passed(i, q, pj[m], pk[m])
    BY <1>4, <2>1
  <2> HIDE DEF m, Q, u
  <2>3. sent[m] \in Pieces /\ Flow(accepted, sent[m], pj[m], pk[m], pj[m + 1], pk[m + 1])
    BY <1>2, <2>1 DEF PlacesAre, Sent
  <2>4. u \notin ToSet(sent[m])
    BY <2>1
  <2>5. ~Passed(i, q, pj[m + 1], pk[m + 1])
    BY <1>1, <2>2, <2>3, <2>4, FlowCovers DEF u
  <2> QED
    BY <2>1, <2>5
<1> HIDE DEF Q
<1>5. s - r \in Nat /\ r + (s - r) = s /\ s <= s
  OBVIOUS
<1>6. s - r \in Q
  BY <1>3, <1>4, <1>5, Induction
<1>7. ~Passed(i, q, pj[s], pk[s])
  BY <1>5, <1>6 DEF Q
<1>8. Passed(i, q, Len(accepted) + 1, 0)
  BY <1>1 DEF Passed
<1> QED
  BY <1>1, <1>2, <1>7, <1>8, FlowCovers

\* Such a PDU is waiting, or its units are in the reception buffer.
LEMMA PduIsHeld ==
  ASSUME NEW sent, NEW a, NEW s, NEW r, NEW ms, NEW h, NEW x, NEW num, NEW low, NEW ack, NEW nack,
         Holds(sent, a, s, r, ms, h, x, num, low, ack, nack), NEW n \in Nat, r <= n, n < s
  PROVE  ToSet(sent[n]) \subseteq HeldBySender \cup HeldByReceiver
<1> DEFINE sn == No(n)
<1>1. SenderHas(sent, a, s) /\ ReceiverHas(sent, r, ms, h, x, s) /\ StatusHas(low, ack, nack, r, h, s, a)
  BY DEF Holds
<1>2. a \in Nat /\ r \in Nat /\ a <= r /\ a <= n
  <2>1. a \in Nat /\ r \in Nat /\ a <= r
    BY <1>1 DEF SenderHas, ReceiverHas, StatusHas
  <2> QED
    BY <2>1
<1>3. sn \in SNs
  BY SumOfNumbers
<1>4. Waits(txed, retx, retxSeg, sent[n], sn)
  BY <1>1, <1>2 DEF SenderHas, SenderIs
<1> HIDE DEF sn
<1>5. CASE txed[sn] # <<>> \/ retx[sn] # <<>>
  <2>1. txed[sn] = sent[n] \/ retx[sn] = sent[n]
    BY <1>4, <1>5 DEF Waits
  <2> QED
    BY <1>3, <2>1 DEF HeldBySender
<1>6. CASE txed[sn] = <<>> /\ retx[sn] = <<>>
  <2>1. n \in Gone(txed, retx, a, s)
    BY <1>2, <1>6 DEF Gone, sn
  <2>2. n \in Have(rxon, r, h)
    BY <1>1, <2>1 DEF StatusHas, BeliefsAre
  <2>3. n < h /\ rxon[sn].complete = TRUE
    BY <1>2, <2>2 DEF Have, sn
  <2>4. EntryIs(rxon[sn], sent[n])
    BY <1>1, <2>3 DEF ReceiverHas, ReceiverIs, HeldIs, sn
  <2>5. rxon[sn].units = sent[n]
    BY <2>3, <2>4 DEF EntryIs, NoPdu
  <2> QED
    BY <1>3, <2>3, <2>5 DEF HeldByReceiver
<1> QED
  BY <1>5, <1>6

LEMMA NothingIsLost ==
  ASSUME AmInv
  PROVE  AckedIsReceived
<1>1. PICK sent, a, s, r, ms, h, x, num, low, ack, nack, pj, pk :
             AmHas(sent, a, s, r, ms, h, x, num, low, ack, nack, pj, pk)
  BY DEF AmInv
<1>2. AmTypes
  BY DEF AmInv
<1>3. Holds(sent, a, s, r, ms, h, x, num, low, ack, nack) /\ StreamIs(sent, s, r, pj, pk)
  BY <1>1 DEF AmHas
<1>4. /\ Accepted(accepted) /\ txon \in Pieces /\ Sent(sent)
      /\ s \in Nat /\ r \in Nat /\ a \in Nat /\ a <= r /\ r <= s
  BY <1>2, <1>3, BothEnds
<1>5. Reached(accepted, pj[r], pk[r]) /\ ReadIs(reassembly, accepted, r, pj[r], pk[r])
  BY <1>3 DEF StreamIs, ReadIs
<1> DEFINE j == pj[r]  k == pk[r]
<1>6. /\ j \in Nat /\ j > 0 /\ k \in Nat /\ j <= Len(accepted) + 1 /\ Len(accepted) \in Nat
      /\ reassembly.keepS0 = Begun(accepted, j, k) /\ reassembly.delivered = Wholes(accepted, 1, j)
  BY <1>4, <1>5, AcceptedAre DEF Reached, Spot, ReadIs
<1> HIDE DEF j, k
<1>7. ASSUME NEW i \in 1 .. Len(accepted), NEW q \in 1 .. SduUnits
      PROVE  <<accepted[i], q>> \in HeldBySender \cup HeldByReceiver
  <2> DEFINE u == <<accepted[i], q>>
  <2>1. CASE Passed(i, q, j, k)
    <3>1. CASE i < j
      <4>1. i \in 1 .. j - 1 /\ 1 + i - 1 = i
        BY <1>6, <3>1
      <4>2. reassembly.delivered[i] = Sdu(accepted[i]) /\ i \in DOMAIN reassembly.delivered
        BY <1>6, <4>1 DEF Wholes
      <4>3. Sdu(accepted[i]) \in ToSet(reassembly.delivered)
        BY <4>2 DEF ToSet
      <4>4. u \in ToSet(Sdu(accepted[i]))
        BY DEF ToSet, Sdu
      <4> QED
        BY <4>3, <4>4 DEF HeldByReceiver
    <3>2. CASE i = j /\ q <= k
      <4>1. q \in 1 .. k
        BY <1>6, <3>2, AmConstants
      <4>2. reassembly.keepS0[q] = u /\ q \in DOMAIN reassembly.keepS0
        BY <1>6, <3>2, <4>1 DEF Begun
      <4>3. u \in ToSet(reassembly.keepS0)
        BY <4>2 DEF ToSet
      <4> QED
        BY <4>3 DEF HeldByReceiver
    <3> QED
      BY <2>1, <3>1, <3>2 DEF Passed
  <2>2. CASE u \in ToSet(txon)
    BY <2>2 DEF HeldBySender
  <2>3. CASE \E n \in Nat : r <= n /\ n < s /\ u \in ToSet(sent[n])
    <3>1. PICK n \in Nat : r <= n /\ n < s /\ u \in ToSet(sent[n])
      BY <2>3
    <3>2. ToSet(sent[n]) \subseteq HeldBySender \cup HeldByReceiver
      BY <1>3, <3>1, PduIsHeld
    <3> QED
      BY <3>1, <3>2
  <2> QED
    BY <1>3, <1>4, <2>1, <2>2, <2>3, UnitIsSomewhere DEF j, k
<1>8. ASSUME NEW sdu \in ToSet(accepted), NEW u \in ToSet(Sdu(sdu))
      PROVE  u \in HeldBySender \cup HeldByReceiver
  <2>1. PICK i \in 1 .. Len(accepted) : sdu = accepted[i]
    <3>1. DOMAIN accepted = 1 .. Len(accepted)
      BY <1>4, LenProperties DEF Accepted
    <3> QED
      BY <3>1 DEF ToSet
  <2>2. PICK q \in 1 .. SduUnits : u = <<sdu, q>>
    BY DEF ToSet, Sdu
  <2> QED
    BY <1>7, <2>1, <2>2
<1> QED
  BY <1>8 DEF AckedIsReceived

LEMMA StepIsOfChannel ==
  ASSUME AmInv, ~StatusOvertakes, [Next]_vars
  PROVE  [Channel!Next]_<<accepted, HandedUp>>
<1>1. AmTypes
  BY DEF AmInv
<1>2. PICK sent, a, s, r, ms, h, x, num, low, ack, nack, pj, pk :
             AmHas(sent, a, s, r, ms, h, x, num, low, ack, nack, pj, pk)
  BY DEF AmInv
<1> DEFINE j == pj[r]
<1>3. Accepted(accepted) /\ ReadIs(reassembly, accepted, r, j, pk[r])
  BY <1>1, <1>2 DEF AmTypes, HistoryTypes, Accepted, AmHas, StreamIs
<1>4. HandedUp = SubSeq(accepted, 1, j - 1) /\ Len(HandedUp) = j - 1
  <2>1. HandedUp = Packets(reassembly.delivered)
    BY Zenon DEF HandedUp, Packets
  <2> QED
    BY <1>3, <2>1, PacketsAre
<1>5. AmTypes' /\ AmAdvances(j)
  BY <1>1, <1>2, AmStep
<1>6. PICK sent2, a2, s2, r2, ms2, h2, x2, num2, low2, ack2, nack2, pj2, pk2 :
        /\ AmHas(sent2, a2, s2, r2, ms2, h2, x2, num2, low2, ack2, nack2, pj2, pk2)' /\ j <= pj2[r2]
        /\ \/ accepted' = accepted
           \/ pj2[r2] = j /\ \E sdu \in 1 .. NSdus : accepted' = Append(accepted, sdu)
  BY <1>5 DEF AmAdvances
<1> DEFINE j2 == pj2[r2]
<1>7. Accepted(accepted') /\ ReadIs(reassembly', accepted', r2, j2, pk2[r2])
  BY <1>5, <1>6 DEF AmTypes, HistoryTypes, Accepted, AmHas, StreamIs
<1>8. HandedUp' = SubSeq(accepted', 1, j2 - 1) /\ j2 \in Nat /\ j2 <= Len(accepted') + 1 /\ Len(accepted') \in Nat
  <2>1. HandedUp' = Packets(reassembly'.delivered)
    BY Zenon DEF HandedUp, Packets
  <2>2. j2 \in Nat /\ j2 <= Len(accepted') + 1
    BY <1>7 DEF ReadIs, Reached, Spot
  <2> HIDE DEF j2
  <2> QED
    BY <1>7, <2>1, <2>2, PacketsAre, AcceptedAre
<1>9. j \in Nat /\ j > 0 /\ j <= Len(accepted) + 1 /\ Len(accepted) \in Nat
  BY <1>3, AcceptedAre DEF ReadIs, Reached, Spot
<1> HIDE DEF j, j2
<1>10. CASE accepted' = accepted
  <2>1. j <= j2
    BY <1>6 DEF j2
  <2>2. CASE j2 = j
    <3>1. HandedUp' = HandedUp
      BY <1>4, <1>8, <1>10, <2>2
    <3> QED
      BY <1>10, <3>1
  <2>3. CASE j2 # j
    <3>1. j2 - 1 \in Len(HandedUp) + 1 .. Len(accepted)
      BY <1>4, <1>8, <1>9, <1>10, <2>1, <2>3
    <3>2. HandedUp' = SubSeq(accepted, 1, j2 - 1)
      BY <1>8, <1>10
    <3>3. Channel!Deliver
      BY <1>10, <3>1, <3>2 DEF Channel!Deliver
    <3> QED
      BY <3>3 DEF Channel!Next
  <2> QED
    BY <2>2, <2>3
<1>11. CASE j2 = j /\ \E sdu \in 1 .. NSdus : accepted' = Append(accepted, sdu)
  <2>1. PICK sdu \in 1 .. NSdus : accepted' = Append(accepted, sdu)
    BY <1>11
  <2>2. ReadIs(reassembly, accepted', r, j, pk[r])
    BY <1>3, <2>1, ReadStays
  <2>3. HandedUp = SubSeq(accepted', 1, j - 1)
    <3>1. HandedUp = Packets(reassembly.delivered)
      BY Zenon DEF HandedUp, Packets
    <3> QED
      BY <1>7, <2>2, <3>1, PacketsAre
  <2>4. HandedUp' = HandedUp
    BY <1>8, <1>11, <2>3
  <2>5. Channel!Accept(sdu)
    BY <2>1, <2>4 DEF Channel!Accept
  <2> QED
    BY <2>5 DEF Channel!Next
<1> QED
  BY <1>6, <1>10, <1>11 DEF j2

------------------------------------------------------------------------------
(* The theorems. *)

\* Type correctness of the model of LteRlcAm.
THEOREM AmTypeCorrect ==
  ASSUME ~StatusOvertakes
  PROVE  Spec => []TypeOK
<1>1. Init => AmInv
  BY AmInitially
<1>2. AmInv /\ [Next]_vars => AmInv'
  BY AmInvIsKept
<1>3. AmInv => TypeOK
  BY TypesAreRight DEF AmInv
<1> QED
  BY <1>1, <1>2, <1>3, PTL DEF Spec

\* DoNotifyTxOpportunity and DoReceiveStatusPdu of LteRlcAm: a PDU that is not
\* acknowledged waits in one of the two buffers, nothing outside the window does,
\* and the first unacknowledged PDU, which DoReportBufferStatus reads without
\* asking, is there.
THEOREM FirstUnackedStaysKept ==
  ASSUME ~StatusOvertakes
  PROVE  Spec => []FirstUnackedIsKept
<1>1. Init => AmInv
  BY AmInitially
<1>2. AmInv /\ [Next]_vars => AmInv'
  BY AmInvIsKept
<1>3. AmInv => FirstUnackedIsKept
  BY UnackedIsKept DEF AmInv, AmHas, Holds, StatusHas
<1> QED
  BY <1>1, <1>2, <1>3, PTL DEF Spec

\* ExpirePollRetransmitTimer, RetxPolls and DoReceiveStatusPdu of LteRlcAm: when
\* PDUs are not acknowledged and nothing can be sent, t-PollRetransmit runs, or
\* has run out and the next PDU, which the window has room for, polls; unless
\* retransmissions are cut.
THEOREM OutstandingStaysWatched ==
  ASSUME ~StatusOvertakes
  PROVE  Spec => []OutstandingIsWatched
<1>1. Init => AmInv
  BY AmInitially
<1>2. AmInv /\ [Next]_vars => AmInv'
  BY AmInvIsKept
<1>3. AmInv => OutstandingIsWatched
  <2> SUFFICES ASSUME AmInv PROVE OutstandingIsWatched
    OBVIOUS
  <2>1. PICK sent, a, s, r, ms, h, x, num, low, ack, nack, pj, pk :
               AmHas(sent, a, s, r, ms, h, x, num, low, ack, nack, pj, pk)
    BY DEF AmInv
  <2>2. AmTypes /\ SenderHas(sent, a, s) /\ (bigEnough = TRUE => Watch(a, s))
    BY <2>1 DEF AmInv, AmHas, Holds
  <2> QED
    BY <2>2, PollIsWatched
<1> QED
  BY <1>1, <1>2, <1>3, PTL DEF Spec

\* ReassembleAndDeliver of LteRlcAm: the PDUs that come out of the reception
\* buffer fit together, whatever was lost, overtaken, sent again or cut into
\* segments on the way.
THEOREM TransitionStaysPossible ==
  ASSUME ~StatusOvertakes
  PROVE  Spec => []TransitionPossible
<1>1. Init => AmInv
  BY AmInitially
<1>2. AmInv /\ [Next]_vars => AmInv'
  BY AmInvIsKept
<1>3. AmInv => TransitionPossible
  BY DEF AmInv, AmHas, StreamIs, ReadIs, TransitionPossible
<1> QED
  BY <1>1, <1>2, <1>3, PTL DEF Spec

\* DoReceiveStatusPdu and DoReceivePdu of LteRlcAm: the sending entity lets go
\* of a unit only when the receiving entity has it.
THEOREM NothingIsLetGo ==
  ASSUME ~StatusOvertakes
  PROVE  Spec => []AckedIsReceived
<1>1. Init => AmInv
  BY AmInitially
<1>2. AmInv /\ [Next]_vars => AmInv'
  BY AmInvIsKept
<1>3. AmInv => AckedIsReceived
  BY NothingIsLost
<1> QED
  BY <1>1, <1>2, <1>3, PTL DEF Spec

\* LteRlcAm implements the channel: what is handed up are the SDUs that were
\* taken over, whole, in their order and once each, for any window, sizes,
\* opportunities, losses and order of arrival of the data PDUs.
THEOREM AmImplementsChannel ==
  ASSUME ~StatusOvertakes
  PROVE  Spec => ImplementsRlcChannel
<1>1. Init => AmInv
  BY AmInitially
<1>2. AmInv /\ [Next]_vars => AmInv'
  BY AmInvIsKept
<1>3. Init => Channel!Init
  BY DEF Init, InitialReassembly, HandedUp, Channel!Init
<1>4. AmInv /\ [Next]_vars => [Channel!Next]_<<accepted, HandedUp>>
  BY StepIsOfChannel
<1> QED
  BY <1>1, <1>2, <1>3, <1>4, PTL DEF Spec, ImplementsRlcChannel

==============================================================================
