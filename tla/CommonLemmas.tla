----------------------------- MODULE CommonLemmas -----------------------------
(***************************************************************************)
(* Facts that the proofs of several components need: induction, what the   *)
(* folds and sums of the community modules compute, and what insertion     *)
(* into a list and removal from it do to its elements.                     *)
(***************************************************************************)
EXTENDS EventKeys, FiniteSets, FiniteSetsExt, SequencesExt, FiniteSetTheorems, SequenceTheorems,
        WellFoundedInduction, TLAPS

\* The least-number principle.
LEMMA LeastNumber ==
  ASSUME NEW T, T \subseteq Nat, T # {}
  PROVE  \E x \in T : \A y \in T : x <= y
<1>1. PICK x \in T : \A y \in T : <<y, x>> \notin OpToRel(<, Nat)
  BY NatLessThanWellFounded, WFMin
<1>2. \A y \in T : ~(y < x)
  BY <1>1 DEF OpToRel
<1> QED
  BY <1>2

\* Induction over the natural numbers, with a set for the predicate.
LEMMA Induction ==
  ASSUME NEW Q, 0 \in Q, \A n \in Nat : n \in Q => n + 1 \in Q
  PROVE  Nat \subseteq Q
<1> SUFFICES ASSUME Nat \ Q # {} PROVE FALSE
  OBVIOUS
<1>1. PICK least \in Nat \ Q : \A m \in Nat \ Q : least <= m
  BY LeastNumber
<1>2. least - 1 \in Nat /\ (least - 1) + 1 = least
  OBVIOUS
<1>3. least - 1 \in Q
  BY <1>1, <1>2
<1> QED
  BY <1>2, <1>3

------------------------------------------------------------------------------
(* Folds.  MapThenFoldSet, and with it FoldLeft and MapThenSumSet, is a      *)
(* recursive function on the subsets of a set: SetRecursion says that there *)
(* is such a function.                                                     *)

\* The equation that defines a function by recursion on the subsets of S.
IsRecursive(it, Domain, base, step, choice) ==
  \A T \in Domain :
    it[T] = IF T = {} THEN base ELSE step[<<choice[T], it[T \ {choice[T]}]>>]

\* Taking one chosen element away at a time from a finite set comes to an end.
LEMMA SetRecursion ==
  ASSUME NEW S, IsFiniteSet(S), NEW Val, NEW base \in Val, NEW step \in [S \X Val -> Val],
         NEW choice, \A T \in SUBSET S : T # {} => choice[T] \in T
  PROVE  \E it \in [SUBSET S -> Val] : IsRecursive(it, SUBSET S, base, step, choice)
<1> DEFINE Upto(n) == {T \in SUBSET S : Cardinality(T) <= n}
           Q == {n \in Nat : \E it \in [Upto(n) -> Val] :
                               IsRecursive(it, Upto(n), base, step, choice)}
<1>1. \A T \in SUBSET S : IsFiniteSet(T) /\ Cardinality(T) \in Nat
  BY FS_Subset, FS_CardinalityType
<1>2. ASSUME NEW T \in SUBSET S, T # {}, NEW n \in Nat, Cardinality(T) <= n + 1
      PROVE  T \ {choice[T]} \in Upto(n)
  BY <1>1, <1>2, FS_RemoveElement
<1>3. \A n \in Nat : Upto(n) \subseteq Upto(n + 1)
  BY <1>1
<1>4. \A T \in SUBSET S : Cardinality(T) = 0 <=> T = {}
  BY <1>1, FS_EmptySet
<1>5. 0 \in Q
  <2> DEFINE it == [T \in Upto(0) |-> base]
  <2>1. \A T \in Upto(0) : T = {}
    BY <1>1, <1>4
  <2>2. it \in [Upto(0) -> Val] /\ IsRecursive(it, Upto(0), base, step, choice)
    BY <2>1 DEF IsRecursive
  <2> QED
    BY <2>2
<1>6. ASSUME NEW n \in Nat, n \in Q PROVE n + 1 \in Q
  <2>1. PICK g \in [Upto(n) -> Val] : IsRecursive(g, Upto(n), base, step, choice)
    BY <1>6
  <2> DEFINE it == [T \in Upto(n + 1) |->
                      IF T = {} THEN base ELSE step[<<choice[T], g[T \ {choice[T]}]>>]]
  <2>2. \A T \in Upto(n + 1) : T # {} => T \ {choice[T]} \in Upto(n) /\ choice[T] \in S
    BY <1>2
  <2> HIDE DEF Upto
  <2>3. it \in [Upto(n + 1) -> Val]
    BY <2>2
  <2>4. \A T \in Upto(n) : it[T] = g[T]
    BY <1>3, <2>1 DEF IsRecursive
  <2>5. IsRecursive(it, Upto(n + 1), base, step, choice)
    BY <2>2, <2>4 DEF IsRecursive
  <2> HIDE DEF it
  <2> QED
    BY <2>3, <2>5
<1>7. Cardinality(S) \in Q
  <2> HIDE DEF Q
  <2> QED
    BY <1>1, <1>5, <1>6, Induction
<1>8. Upto(Cardinality(S)) = SUBSET S
  <2>1. \A T \in SUBSET S : Cardinality(T) <= Cardinality(S)
    BY FS_Subset
  <2> QED
    BY <2>1
<1>9. PICK it \in [Upto(Cardinality(S)) -> Val] :
        IsRecursive(it, Upto(Cardinality(S)), base, step, choice)
  BY <1>7
<1> HIDE DEF Upto, Q
<1> QED
  BY <1>8, <1>9

\* A set of positions has a last one.
LEMMA MaxOfPositions ==
  ASSUME NEW n \in Nat, NEW T \in SUBSET (1 .. n), T # {}
  PROVE  Max(T) \in T /\ \A x \in T : x <= Max(T)
<1> DEFINE Q == {k \in Nat : \A U \in SUBSET (1 .. k) :
                               U # {} => \E m \in U : \A x \in U : x <= m}
<1>1. 0 \in Q
  <2>1. 1 .. 0 = {}
    OBVIOUS
  <2> QED
    BY <2>1
<1>2. ASSUME NEW k \in Nat, k \in Q PROVE k + 1 \in Q
  <2> SUFFICES ASSUME NEW U \in SUBSET (1 .. k + 1), U # {}
               PROVE  \E m \in U : \A x \in U : x <= m
    OBVIOUS
  <2>1. CASE k + 1 \in U
    BY <2>1
  <2>2. CASE k + 1 \notin U
    <3>1. U \in SUBSET (1 .. k)
      BY <2>2
    <3> QED
      BY <1>2, <3>1
  <2> QED
    BY <2>1, <2>2
<1>3. n \in Q
  <2> HIDE DEF Q
  <2> QED
    BY <1>1, <1>2, Induction
<1>4. PICK m \in T : \A x \in T : x <= m
  BY <1>3
<1> QED
  BY <1>4 DEF Max

\* The last of the first positions.
LEMMA MaxOfPrefix ==
  ASSUME NEW k \in Nat
  PROVE  /\ Max(1 .. k + 1) = k + 1
         /\ (1 .. k + 1) \ {k + 1} = 1 .. k
<1> DEFINE T == 1 .. k + 1
<1>1. k + 1 \in Nat /\ T \in SUBSET (1 .. k + 1) /\ T # {} /\ k + 1 \in T
  OBVIOUS
<1> HIDE DEF T
<1>2. Max(T) \in T /\ k + 1 <= Max(T)
  BY <1>1, MaxOfPositions
<1> USE DEF T
<1>3. Max(1 .. k + 1) \in 1 .. k + 1 /\ k + 1 <= Max(1 .. k + 1)
  BY <1>2
<1> QED
  BY <1>3

LEMMA PrefixInside ==
  ASSUME NEW n \in Nat, NEW k \in Nat, k < n
  PROVE  1 .. k + 1 \in SUBSET (1 .. n) /\ 1 .. k + 1 # {}
<1>1. k + 1 <= n /\ 1 \in 1 .. k + 1
  OBVIOUS
<1> QED
  BY <1>1

\* Induction over the prefixes 1 .. k of the positions of a sequence, for a
\* fold from left to right: Good[k] is the set of what there may be after k
\* elements.
LEMMA PrefixInduction ==
  ASSUME NEW n \in Nat, NEW it, NEW Good, it[{}] \in Good[0],
         \A k \in Nat : k < n /\ it[1 .. k] \in Good[k] => it[1 .. k + 1] \in Good[k + 1]
  PROVE  it[1 .. n] \in Good[n]
<1> DEFINE Q == {k \in Nat : k <= n => it[1 .. k] \in Good[k]}
<1>1. 0 \in Q
  <2>1. 1 .. 0 = {}
    OBVIOUS
  <2> QED
    BY <2>1
<1>2. \A k \in Nat : k \in Q => k + 1 \in Q
  OBVIOUS
<1> HIDE DEF Q
<1>3. n \in Q
  BY <1>1, <1>2, Induction
<1> QED
  BY <1>3 DEF Q

------------------------------------------------------------------------------
(* Sums. *)

\* Induction over the subsets of a finite set, with a set for the predicate and
\* a function that chooses the element that comes last.
LEMMA SubsetInduction ==
  ASSUME NEW S, IsFiniteSet(S), NEW Q, {} \in Q, NEW choice,
         \A T \in SUBSET S : T # {} => choice[T] \in T,
         \A T \in SUBSET S : T # {} /\ T \ {choice[T]} \in Q => T \in Q
  PROVE  SUBSET S \subseteq Q
<1> DEFINE P == {n \in Nat : \A T \in SUBSET S : Cardinality(T) <= n => T \in Q}
<1>1. \A T \in SUBSET S : IsFiniteSet(T) /\ Cardinality(T) \in Nat
  BY FS_Subset, FS_CardinalityType
<1>2. \A T \in SUBSET S : Cardinality(T) = 0 <=> T = {}
  BY <1>1, FS_EmptySet
<1>3. 0 \in P
  <2>1. \A T \in SUBSET S : Cardinality(T) <= 0 => T = {}
    BY <1>1, <1>2
  <2> QED
    BY <2>1
<1>4. ASSUME NEW n \in Nat, n \in P PROVE n + 1 \in P
  <2>1. ASSUME NEW T \in SUBSET S, Cardinality(T) <= n + 1, T # {}
        PROVE  T \in Q
    <3>1. Cardinality(T \ {choice[T]}) = Cardinality(T) - 1
      BY <1>1, <2>1, FS_RemoveElement
    <3>2. T \ {choice[T]} \in SUBSET S /\ Cardinality(T \ {choice[T]}) <= n
      BY <1>1, <2>1, <3>1
    <3>3. T \ {choice[T]} \in Q
      BY <1>4, <3>2
    <3> QED
      BY <2>1, <3>3
  <2>2. \A T \in SUBSET S : Cardinality(T) <= n + 1 => T \in Q
    BY <2>1
  <2> QED
    BY <2>2
<1>5. Nat \subseteq P
  <2> HIDE DEF P
  <2> QED
    BY <1>3, <1>4, Induction
<1> QED
  BY <1>1, <1>5

\* The sum over a finite set is taken in some order, the same for all functions.
SumTo(f, it, S) ==
  \A T \in SUBSET S :
    it[T] = IF T = {} THEN 0
            ELSE f[CHOOSE x \in T : TRUE] + it[T \ {CHOOSE x \in T : TRUE}]

LEMMA SumIsRecursive ==
  ASSUME NEW S, IsFiniteSet(S), NEW f \in [S -> Nat]
  PROVE  \E it \in [SUBSET S -> Nat] :
           SumTo(f, it, S) /\ MapThenSumSet(LAMBDA x : f[x], S) = it[S]
<1> DEFINE rec(g) == [T \in SUBSET S |->
                        IF T = {} THEN 0
                        ELSE LET x == CHOOSE x \in T : TRUE IN f[x] + g[T \ {x}]]
           fold == CHOOSE g : g = rec(g)
           step == [x \in S \X Nat |-> f[x[1]] + x[2]]
           choice == [T \in SUBSET S |-> CHOOSE x \in T : TRUE]
<1>1. MapThenSumSet(LAMBDA x : f[x], S) = fold[S]
  BY DEF MapThenSumSet, MapThenFoldSet
<1>2. step \in [S \X Nat -> Nat]
  OBVIOUS
<1>3. \A T \in SUBSET S : T # {} => choice[T] \in T /\ choice[T] = CHOOSE x \in T : TRUE
  OBVIOUS
<1>4. PICK it \in [SUBSET S -> Nat] : IsRecursive(it, SUBSET S, 0, step, choice)
  <2> HIDE DEF step, choice
  <2> QED
    BY <1>2, <1>3, SetRecursion
<1>5. ASSUME NEW T \in SUBSET S, T # {}
      PROVE  it[T] = f[choice[T]] + it[T \ {choice[T]}]
  <2>1. it[T] = step[<<choice[T], it[T \ {choice[T]}]>>]
    BY <1>4, <1>5 DEF IsRecursive
  <2>2. choice[T] \in S /\ it[T \ {choice[T]}] \in Nat
    BY <1>3, <1>5
  <2> HIDE DEF choice
  <2> QED
    BY <2>1, <2>2
<1>6. it[{}] = 0
  BY <1>4 DEF IsRecursive
<1>7. SumTo(f, it, S)
  BY <1>3, <1>5, <1>6 DEF SumTo
<1>8. it = rec(it)
  BY <1>7 DEF SumTo
<1>9. fold = rec(fold)
  BY <1>8
<1>10. SumTo(f, fold, S) /\ fold \in [SUBSET S -> Nat]
  <2>1. SumTo(f, fold, S)
    <3> HIDE DEF fold
    <3> QED
      BY <1>9 DEF SumTo
  <2> DEFINE Q == {T \in SUBSET S : fold[T] \in Nat}
  <2> HIDE DEF fold
  <2>2. {} \in Q
    <3>1. {} \in SUBSET S
      OBVIOUS
    <3>2. fold[{}] = 0
      BY <2>1, <3>1 DEF SumTo
    <3> QED
      BY <3>1, <3>2
  <2>3. ASSUME NEW T \in SUBSET S, T # {}, T \ {choice[T]} \in Q
        PROVE  T \in Q
    <3>1. fold[T] = f[choice[T]] + fold[T \ {choice[T]}]
      BY <1>3, <2>1, <2>3 DEF SumTo
    <3> QED
      BY <1>3, <2>3, <3>1
  <2>4. SUBSET S \subseteq Q
    <3>1. \A T \in SUBSET S : T # {} => choice[T] \in T
      BY <1>3
    <3> HIDE DEF Q, choice
    <3>2. \A T \in SUBSET S : T # {} /\ T \ {choice[T]} \in Q => T \in Q
      BY <2>3
    <3> QED
      BY <2>2, <3>1, <3>2, SubsetInduction
  <2> QED
    BY <1>9, <2>1, <2>4
<1> QED
  BY <1>1, <1>10

\* A sum of natural numbers changes by as much as the one summand that changes.
LEMMA SumUpdate ==
  ASSUME NEW S, IsFiniteSet(S), NEW f \in [S -> Nat], NEW g \in [S -> Nat],
         NEW r \in S, \A x \in S : x # r => g[x] = f[x]
  PROVE  /\ MapThenSumSet(LAMBDA x : f[x], S) \in Nat
         /\ MapThenSumSet(LAMBDA x : g[x], S) \in Nat
         /\ MapThenSumSet(LAMBDA x : g[x], S) = MapThenSumSet(LAMBDA x : f[x], S) - f[r] + g[r]
<1> DEFINE choice == [T \in SUBSET S |-> CHOOSE x \in T : TRUE]
<1>1. PICK before \in [SUBSET S -> Nat] :
        SumTo(f, before, S) /\ MapThenSumSet(LAMBDA x : f[x], S) = before[S]
  BY SumIsRecursive
<1>2. PICK after \in [SUBSET S -> Nat] :
        SumTo(g, after, S) /\ MapThenSumSet(LAMBDA x : g[x], S) = after[S]
  BY SumIsRecursive
<1> DEFINE Q == {T \in SUBSET S :
                   after[T] = IF r \in T THEN before[T] - f[r] + g[r] ELSE before[T]}
<1>3. \A T \in SUBSET S : T # {} => choice[T] \in T /\ choice[T] = CHOOSE x \in T : TRUE
  OBVIOUS
<1>4. {} \in Q
  BY <1>1, <1>2 DEF SumTo
<1>5. ASSUME NEW T \in SUBSET S, T # {}, T \ {choice[T]} \in Q
      PROVE  T \in Q
  <2> DEFINE c == choice[T]  rest == T \ {c}
  <2>1. c \in T /\ c \in S /\ rest \in SUBSET S
    BY <1>3, <1>5
  <2>2. before[T] = f[c] + before[rest] /\ after[T] = g[c] + after[rest]
    BY <1>1, <1>2, <1>3, <1>5 DEF SumTo
  <2>3. after[rest] = IF r \in rest THEN before[rest] - f[r] + g[r] ELSE before[rest]
    BY <1>5
  <2>4. r \in rest <=> r \in T /\ r # c
    OBVIOUS
  <2>5. /\ f[c] \in Nat /\ g[c] \in Nat /\ f[r] \in Nat /\ g[r] \in Nat
        /\ before[rest] \in Nat /\ after[rest] \in Nat
    BY <2>1
  <2> HIDE DEF rest, c, choice
  <2>6. after[T] = IF r \in T THEN before[T] - f[r] + g[r] ELSE before[T]
    <3>1. CASE r = c
      BY <2>1, <2>2, <2>3, <2>4, <2>5, <3>1
    <3>2. CASE r # c
      BY <2>1, <2>2, <2>3, <2>4, <2>5, <3>2
    <3> QED
      BY <3>1, <3>2
  <2> QED
    BY <2>6
<1>6. S \in Q
  <2>1. \A T \in SUBSET S : T # {} => choice[T] \in T
    BY <1>3
  <2> HIDE DEF Q, choice
  <2>2. \A T \in SUBSET S : T # {} /\ T \ {choice[T]} \in Q => T \in Q
    BY <1>5
  <2>3. SUBSET S \subseteq Q
    BY <1>4, <2>1, <2>2, SubsetInduction
  <2> QED
    BY <2>3
<1> QED
  BY <1>1, <1>2, <1>6

\* No summand is greater than the sum.
LEMMA SummandBelowSum ==
  ASSUME NEW S, IsFiniteSet(S), NEW f \in [S -> Nat], NEW r \in S
  PROVE  /\ MapThenSumSet(LAMBDA x : f[x], S) \in Nat
         /\ f[r] <= MapThenSumSet(LAMBDA x : f[x], S)
<1> DEFINE g == [f EXCEPT ![r] = 0]
<1>1. g \in [S -> Nat] /\ g[r] = 0 /\ f[r] \in Nat /\ \A x \in S : x # r => g[x] = f[x]
  OBVIOUS
<1> HIDE DEF g
<1>2. \A x \in S : x # r => g[x] = f[x]
  BY <1>1
<1>3. g \in [S -> Nat]
  BY <1>1
<1>4. /\ MapThenSumSet(LAMBDA x : f[x], S) \in Nat /\ MapThenSumSet(LAMBDA x : g[x], S) \in Nat
      /\ MapThenSumSet(LAMBDA x : g[x], S) = MapThenSumSet(LAMBDA x : f[x], S) - f[r] + g[r]
  BY <1>2, <1>3, SumUpdate
<1> QED
  BY <1>1, <1>4

\* A sum of noughts.
LEMMA SumOfNoughts ==
  ASSUME NEW S, IsFiniteSet(S), NEW f \in [S -> Nat], \A x \in S : f[x] = 0
  PROVE  MapThenSumSet(LAMBDA x : f[x], S) = 0
<1> DEFINE choice == [T \in SUBSET S |-> CHOOSE x \in T : TRUE]
<1>1. PICK it \in [SUBSET S -> Nat] :
        SumTo(f, it, S) /\ MapThenSumSet(LAMBDA x : f[x], S) = it[S]
  BY SumIsRecursive
<1> DEFINE Q == {T \in SUBSET S : it[T] = 0}
<1>2. \A T \in SUBSET S : T # {} => choice[T] \in T /\ choice[T] = CHOOSE x \in T : TRUE
  OBVIOUS
<1>3. {} \in Q
  BY <1>1 DEF SumTo
<1>4. ASSUME NEW T \in SUBSET S, T # {}, T \ {choice[T]} \in Q
      PROVE  T \in Q
  <2>1. it[T] = f[choice[T]] + it[T \ {choice[T]}]
    BY <1>1, <1>2, <1>4 DEF SumTo
  <2> QED
    BY <1>2, <1>4, <2>1
<1>5. S \in Q
  <2>1. \A T \in SUBSET S : T # {} => choice[T] \in T
    BY <1>2
  <2> HIDE DEF Q, choice
  <2>2. \A T \in SUBSET S : T # {} /\ T \ {choice[T]} \in Q => T \in Q
    BY <1>4
  <2>3. SUBSET S \subseteq Q
    BY <1>3, <2>1, <2>2, SubsetInduction
  <2> QED
    BY <2>3
<1> QED
  BY <1>1, <1>5

------------------------------------------------------------------------------
(* Lists. *)

\* longer is list with e in position k.
Lengthened(list, longer, k, e) ==
  /\ k \in 1 .. Len(list) + 1
  /\ Len(longer) = Len(list) + 1
  /\ longer[k] = e
  /\ \A i \in 1 .. Len(list) : longer[IF i < k THEN i ELSE i + 1] = list[i]

LEMMA InsertAtLengthens ==
  ASSUME NEW S, NEW list \in Seq(S), NEW e \in S, NEW k \in 1 .. Len(list) + 1
  PROVE  InsertAt(list, k, e) \in Seq(S) /\ Lengthened(list, InsertAt(list, k, e), k, e)
<1> DEFINE front == SubSeq(list, 1, k - 1)  back == SubSeq(list, k, Len(list))  n == Len(list)
<1>1. n \in Nat /\ k \in Nat /\ k >= 1 /\ k <= n + 1
  BY LenProperties
<1>2. /\ front \in Seq(S) /\ Len(front) = k - 1
      /\ \A i \in 1 .. k - 1 : front[i] = list[i]
  BY <1>1
<1>3. /\ back \in Seq(S) /\ Len(back) = n - k + 1
      /\ \A i \in 1 .. n - k + 1 : back[i] = list[i + k - 1]
  BY <1>1
<1> HIDE DEF front, back, n
<1> DEFINE longer == front \o <<e>> \o back
<1>4. /\ longer \in Seq(S) /\ Len(longer) = n + 1
      /\ longer[k] = e
      /\ \A i \in 1 .. k - 1 : longer[i] = front[i]
      /\ \A i \in k + 1 .. n + 1 : longer[i] = back[i - k]
  <2> DEFINE first == Append(front, e)
  <2>1. /\ first \in Seq(S) /\ Len(first) = k
        /\ first[k] = e /\ \A i \in 1 .. k - 1 : first[i] = front[i]
    BY <1>1, <1>2, AppendProperties
  <2>2. longer = first \o back
    BY <1>2
  <2> HIDE DEF first, longer
  <2>3. /\ longer \in Seq(S) /\ Len(longer) = k + (n - k + 1)
        /\ \A i \in 1 .. k + (n - k + 1) : longer[i] = IF i <= k THEN first[i] ELSE back[i - k]
    <3>1. /\ longer \in Seq(S) /\ Len(longer) = Len(first) + Len(back)
          /\ \A i \in 1 .. Len(first) + Len(back) :
               longer[i] = IF i <= Len(first) THEN first[i] ELSE back[i - Len(first)]
      BY <1>3, <2>1, <2>2, ConcatProperties, Zenon
    <3> QED
      BY <1>3, <2>1, <3>1
  <2> QED
    BY <1>1, <2>1, <2>3
<1> HIDE DEF longer
<1>5. ASSUME NEW i \in 1 .. n
      PROVE  longer[IF i < k THEN i ELSE i + 1] = list[i]
  <2>1. CASE i < k
    <3>1. i \in 1 .. k - 1
      BY <1>1, <2>1
    <3> QED
      BY <1>2, <1>4, <2>1, <3>1
  <2>2. CASE ~(i < k)
    <3>1. i + 1 \in k + 1 .. n + 1 /\ i + 1 - k \in 1 .. n - k + 1 /\ (i + 1 - k) + k - 1 = i
      BY <1>1, <2>2
    <3> QED
      BY <1>3, <1>4, <2>2, <3>1
  <2> QED
    BY <2>1, <2>2
<1>6. Lengthened(list, longer, k, e)
  BY <1>1, <1>4, <1>5 DEF Lengthened, n
<1> QED
  BY <1>4, <1>6 DEF InsertAt, longer, front, back, n

LEMMA RemoveAtShortens ==
  ASSUME NEW S, NEW list \in Seq(S), NEW k \in DOMAIN list
  PROVE  RemoveAt(list, k) \in Seq(S) /\ Lengthened(RemoveAt(list, k), list, k, list[k])
<1> DEFINE front == SubSeq(list, 1, k - 1)  back == SubSeq(list, k + 1, Len(list))  n == Len(list)
<1>1. n \in Nat /\ k \in Nat /\ k >= 1 /\ k <= n
  BY LenProperties
<1>2. /\ front \in Seq(S) /\ Len(front) = k - 1
      /\ \A i \in 1 .. k - 1 : front[i] = list[i]
  BY <1>1
<1>3. /\ back \in Seq(S) /\ Len(back) = n - k
      /\ \A i \in 1 .. n - k : back[i] = list[i + k]
  BY <1>1
<1> HIDE DEF front, back, n
<1> DEFINE shorter == front \o back
<1>4. /\ shorter \in Seq(S) /\ Len(shorter) = n - 1
      /\ \A i \in 1 .. k - 1 : shorter[i] = front[i]
      /\ \A i \in k .. n - 1 : shorter[i] = back[i - k + 1]
  <2>1. /\ shorter \in Seq(S) /\ Len(shorter) = (k - 1) + (n - k)
        /\ \A i \in 1 .. (k - 1) + (n - k) :
             shorter[i] = IF i <= k - 1 THEN front[i] ELSE back[i - (k - 1)]
    <3>1. /\ shorter \in Seq(S) /\ Len(shorter) = Len(front) + Len(back)
          /\ \A i \in 1 .. Len(front) + Len(back) :
               shorter[i] = IF i <= Len(front) THEN front[i] ELSE back[i - Len(front)]
      BY <1>2, <1>3, ConcatProperties, Zenon
    <3> HIDE DEF shorter
    <3> QED
      BY <1>2, <1>3, <3>1
  <2> HIDE DEF shorter
  <2>2. \A i \in k .. n - 1 : ~(i <= k - 1) /\ i - (k - 1) = i - k + 1
    BY <1>1
  <2> QED
    BY <1>1, <2>1, <2>2
<1> HIDE DEF shorter
<1>5. ASSUME NEW i \in 1 .. n - 1
      PROVE  list[IF i < k THEN i ELSE i + 1] = shorter[i]
  <2>1. CASE i < k
    <3>1. i \in 1 .. k - 1
      BY <1>1, <2>1
    <3> QED
      BY <1>2, <1>4, <2>1, <3>1
  <2>2. CASE ~(i < k)
    <3>1. i \in k .. n - 1 /\ i - k + 1 \in 1 .. n - k /\ (i - k + 1) + k = i + 1
      BY <1>1, <2>2
    <3> QED
      BY <1>3, <1>4, <2>2, <3>1
  <2> QED
    BY <2>1, <2>2
<1>6. Lengthened(shorter, list, k, list[k])
  <2>1. k \in 1 .. Len(shorter) + 1 /\ n = Len(shorter) + 1 /\ n - 1 = Len(shorter)
    BY <1>1, <1>4
  <2> QED
    BY <1>5, <2>1 DEF Lengthened, n
<1> QED
  BY <1>4, <1>6 DEF RemoveAt, shorter, front, back, n

LEMMA TailShortens ==
  ASSUME NEW S, NEW list \in Seq(S), list # <<>>
  PROVE  Tail(list) \in Seq(S) /\ Lengthened(Tail(list), list, 1, list[1])
<1>1. /\ Tail(list) \in Seq(S) /\ Len(Tail(list)) = Len(list) - 1 /\ Len(list) \in Nat \ {0}
      /\ \A i \in 1 .. Len(list) - 1 : Tail(list)[i] = list[i + 1]
  BY LenProperties
<1> QED
  BY <1>1 DEF Lengthened

LEMMA AppendLengthens ==
  ASSUME NEW S, NEW list \in Seq(S), NEW e \in S
  PROVE  Append(list, e) \in Seq(S) /\ Lengthened(list, Append(list, e), Len(list) + 1, e)
<1> DEFINE longer == Append(list, e)  l == Len(list)
<1>1. /\ longer \in Seq(S) /\ Len(longer) = l + 1 /\ longer[l + 1] = e
      /\ \A i \in 1 .. l : longer[i] = list[i]
  BY AppendProperties
<1>2. l \in Nat /\ DOMAIN list = 1 .. l /\ DOMAIN longer = 1 .. l + 1
  BY <1>1, LenProperties
<1> HIDE DEF longer, l
<1>3. (\A i \in 1 .. l : i < l + 1) /\ l + 1 \in 1 .. l + 1
  BY <1>2
<1>4. Len(list) = l
  BY DEF l
<1>5. Lengthened(list, longer, l + 1, e)
  BY <1>1, <1>2, <1>3, <1>4 DEF Lengthened
<1> QED
  BY <1>1, <1>4, <1>5 DEF longer

\* The elements of the longer list.
LEMMA ElementsOfLengthened ==
  ASSUME NEW S, NEW list \in Seq(S), NEW longer \in Seq(S), NEW k, NEW e,
         Lengthened(list, longer, k, e)
  PROVE  /\ k \in DOMAIN longer
         /\ \A i \in DOMAIN list : \E j \in DOMAIN longer : longer[j] = list[i]
         /\ \A j \in DOMAIN longer : longer[j] = e \/ \E i \in DOMAIN list : longer[j] = list[i]
<1>1. /\ DOMAIN list = 1 .. Len(list) /\ Len(list) \in Nat
      /\ DOMAIN longer = 1 .. Len(list) + 1
      /\ k \in 1 .. Len(list) + 1
  BY LenProperties DEF Lengthened
<1>2. ASSUME NEW i \in DOMAIN list
      PROVE  \E j \in DOMAIN longer : longer[j] = list[i]
  <2>1. (IF i < k THEN i ELSE i + 1) \in DOMAIN longer
    BY <1>1
  <2> QED
    BY <1>1, <2>1 DEF Lengthened
<1>3. ASSUME NEW j \in DOMAIN longer, j # k
      PROVE  \E i \in DOMAIN list : longer[j] = list[i]
  <2>1. CASE j < k
    <3>1. j \in 1 .. Len(list)
      BY <1>1, <2>1
    <3> QED
      BY <1>1, <2>1, <3>1 DEF Lengthened
  <2>2. CASE j > k
    <3>1. j - 1 \in 1 .. Len(list) /\ ~(j - 1 < k) /\ (j - 1) + 1 = j
      BY <1>1, <2>2
    <3> QED
      BY <1>1, <3>1 DEF Lengthened
  <2> QED
    BY <1>1, <1>3, <2>1, <2>2
<1> QED
  BY <1>1, <1>2, <1>3 DEF Lengthened

\* How many elements of a list are in T.
CountIn(list, T) == Cardinality({i \in DOMAIN list : list[i] \in T})

LEMMA CountOfLengthened ==
  ASSUME NEW S, NEW list \in Seq(S), NEW longer \in Seq(S), NEW k, NEW e,
         Lengthened(list, longer, k, e), NEW T
  PROVE  /\ CountIn(list, T) \in Nat /\ CountIn(longer, T) \in Nat
         /\ CountIn(longer, T) = CountIn(list, T) + IF e \in T THEN 1 ELSE 0
<1> DEFINE A == {i \in DOMAIN list : list[i] \in T}
           B == {i \in DOMAIN longer : longer[i] \in T}
           shift == [i \in A |-> IF i < k THEN i ELSE i + 1]
<1>1. /\ DOMAIN list = 1 .. Len(list) /\ Len(list) \in Nat
      /\ DOMAIN longer = 1 .. Len(list) + 1
      /\ k \in 1 .. Len(list) + 1 /\ longer[k] = e
      /\ \A i \in 1 .. Len(list) : longer[IF i < k THEN i ELSE i + 1] = list[i]
  BY LenProperties DEF Lengthened
<1>2. IsFiniteSet(A) /\ IsFiniteSet(B) /\ Cardinality(A) \in Nat /\ Cardinality(B) \in Nat
  <2>1. IsFiniteSet(DOMAIN list) /\ IsFiniteSet(DOMAIN longer)
    BY <1>1, FS_Interval
  <2>2. A \in SUBSET DOMAIN list /\ B \in SUBSET DOMAIN longer
    OBVIOUS
  <2> QED
    BY <2>1, <2>2, FS_Subset, FS_CardinalityType
<1>3. \A i \in A : shift[i] \in B \ {k}
  BY <1>1
<1>4. \A i, j \in A : shift[i] = shift[j] => i = j
  BY <1>1
<1>5. ASSUME NEW j \in B \ {k}
      PROVE  \E i \in A : shift[i] = j
  <2>1. CASE j < k
    <3>1. j \in 1 .. Len(list) /\ list[j] = longer[j]
      BY <1>1, <2>1
    <3> QED
      BY <1>1, <2>1, <3>1
  <2>2. CASE j > k
    <3>1. j - 1 \in 1 .. Len(list) /\ ~(j - 1 < k) /\ (j - 1) + 1 = j
      BY <1>1, <2>2
    <3>2. list[j - 1] = longer[j]
      BY <1>1, <3>1
    <3> QED
      BY <1>1, <3>1, <3>2
  <2> QED
    BY <1>1, <2>1, <2>2
<1> HIDE DEF A, B, shift
<1>6. shift \in [A -> B \ {k}]
  BY <1>3 DEF shift
<1>7. Cardinality(B \ {k}) = Cardinality(A)
  <2>1. shift \in Bijection(A, B \ {k})
    BY <1>4, <1>5, <1>6 DEF Bijection, Injection, IsInjective, Surjection
  <2> QED
    BY <1>2, <2>1, FS_Bijection DEF ExistsBijection
<1>8. Cardinality(B \ {k}) = IF k \in B THEN Cardinality(B) - 1 ELSE Cardinality(B)
  BY <1>2, FS_RemoveElement
<1>9. k \in B <=> e \in T
  BY <1>1 DEF B
<1> QED
  BY <1>2, <1>7, <1>8, <1>9 DEF CountIn, A, B

\* Positions with no gap before them are the first ones.
LEMMA FirstPositions ==
  ASSUME NEW n \in Nat, NEW T \in SUBSET (1 .. n),
         \A i \in T : \A j \in 1 .. n : j <= i => j \in T
  PROVE  Cardinality(T) \in 0 .. n /\ T = 1 .. Cardinality(T)
<1>1. CASE T = {}
  <2>1. Cardinality(T) = 0
    BY <1>1, FS_EmptySet
  <2> QED
    BY <1>1, <2>1
<1>2. CASE T # {}
  <2> DEFINE m == Max(T)
  <2>1. m \in T /\ \A x \in T : x <= m
    BY <1>2, MaxOfPositions
  <2> HIDE DEF m
  <2>2. m \in 1 .. n
    BY <2>1
  <2>3. T = 1 .. m
    <3>1. \A x \in T : x \in 1 .. m
      BY <2>1, <2>2
    <3>2. \A x \in 1 .. m : x \in T
      BY <2>1, <2>2
    <3> QED
      BY <3>1, <3>2
  <2>4. Cardinality(T) = m
    BY <2>2, <2>3, FS_Interval
  <2> QED
    BY <2>2, <2>3, <2>4
<1> QED
  BY <1>1, <1>2

\* A non-empty set of natural numbers has a least element, which Min returns.
LEMMA MinOfNumbers ==
  ASSUME NEW T, T \subseteq Nat, T # {}
  PROVE  Min(T) \in T /\ \A x \in T : Min(T) <= x
<1>1. PICK x \in T : \A y \in T : x <= y
  BY LeastNumber
<1> QED
  BY <1>1 DEF Min

\* Sequences put together and taken apart.
LEMMA JoinedParts ==
  ASSUME NEW S, NEW s \in Seq(S), NEW t \in Seq(S)
  PROVE  /\ s \o t \in Seq(S) /\ Len(s \o t) = Len(s) + Len(t)
         /\ Len(s) \in Nat /\ Len(t) \in Nat
         /\ \A i \in 1 .. Len(s) : (s \o t)[i] = s[i]
         /\ \A i \in 1 .. Len(t) : (s \o t)[Len(s) + i] = t[i]
         /\ \A k \in 1 .. Len(s) + Len(t) :
              k \in 1 .. Len(s) \/ \E i \in 1 .. Len(t) : k = Len(s) + i
<1> DEFINE l == Len(s)  n == Len(t)  joined == s \o t
<1>1. l \in Nat /\ n \in Nat
  BY LenProperties
<1>2. /\ joined \in Seq(S) /\ Len(joined) = l + n
      /\ \A i \in 1 .. l + n : joined[i] = IF i <= l THEN s[i] ELSE t[i - l]
  BY ConcatProperties
<1> HIDE DEF l, n, joined
<1>3. ASSUME NEW i \in 1 .. l PROVE joined[i] = s[i]
  BY <1>1, <1>2
<1>4. ASSUME NEW i \in 1 .. n PROVE joined[l + i] = t[i]
  <2>1. l + i \in 1 .. l + n /\ ~(l + i <= l) /\ (l + i) - l = i
    BY <1>1
  <2> QED
    BY <1>2, <2>1
<1>5. ASSUME NEW k \in 1 .. l + n, ~(k \in 1 .. l)
      PROVE  \E i \in 1 .. n : k = l + i
  <2>1. k - l \in 1 .. n /\ k = l + (k - l)
    BY <1>1, <1>5
  <2> QED
    BY <2>1
<1> QED
  BY <1>1, <1>2, <1>3, <1>4, <1>5 DEF l, n, joined

LEMMA TwoParts ==
  ASSUME NEW S, NEW s \in Seq(S), NEW m \in 0 .. Len(s)
  PROVE  /\ SubSeq(s, 1, m) \in Seq(S) /\ Len(SubSeq(s, 1, m)) = m
         /\ \A i \in 1 .. m : SubSeq(s, 1, m)[i] = s[i]
         /\ SubSeq(s, m + 1, Len(s)) \in Seq(S) /\ Len(SubSeq(s, m + 1, Len(s))) = Len(s) - m
         /\ \A i \in 1 .. Len(s) - m : SubSeq(s, m + 1, Len(s))[i] = s[m + i]
<1> DEFINE n == Len(s)  first == SubSeq(s, 1, m)  low == m + 1  rest == SubSeq(s, low, n)
<1>1. n \in Nat /\ m \in Nat /\ m <= n /\ \A i \in 1 .. n : s[i] \in S
  BY LenProperties, ElementOfSeq
<1>2. \A i \in 1 .. m : s[i] \in S
  BY <1>1
<1>3. /\ first \in Seq(S) /\ Len(first) = IF 1 <= m THEN m - 1 + 1 ELSE 0
      /\ \A i \in 1 .. m - 1 + 1 : first[i] = s[1 + i - 1]
  BY <1>1, <1>2, SubSeqProperties
<1>4. low \in Nat /\ \A i \in low .. n : s[i] \in S
  BY <1>1
<1>5. low = m + 1
  OBVIOUS
<1> HIDE DEF n, low, first
<1>6. /\ rest \in Seq(S) /\ Len(rest) = IF low <= n THEN n - low + 1 ELSE 0
      /\ \A i \in 1 .. n - low + 1 : rest[i] = s[low + i - 1]
  BY <1>1, <1>4, SubSeqProperties
<1> HIDE DEF rest
<1>7. Len(first) = m /\ Len(rest) = n - m
  BY <1>1, <1>3, <1>5, <1>6
<1>8. ASSUME NEW i \in 1 .. m PROVE first[i] = s[i]
  <2>1. i \in 1 .. m - 1 + 1 /\ 1 + i - 1 = i
    BY <1>1
  <2> QED
    BY <1>3, <2>1
<1>9. ASSUME NEW i \in 1 .. n - m PROVE rest[i] = s[m + i]
  <2>1. i \in 1 .. n - low + 1 /\ low + i - 1 = m + i
    BY <1>1, <1>5
  <2> QED
    BY <1>6, <2>1
<1> QED
  BY <1>3, <1>5, <1>6, <1>7, <1>8, <1>9 DEF n, first, low, rest

------------------------------------------------------------------------------
(* Event lists. *)

\* Events have times; a list of them is processed in their order.
HaveTimes(S) == \A e \in S : e.ts \in Nat
Ordered(list) == \A i, j \in DOMAIN list : i <= j => list[i].ts <= list[j].ts

\* Scheduler::Insert, behind all events of the same time.
Inserted(list, event) ==
  InsertAt(list, Cardinality({i \in DOMAIN list : list[i].ts <= event.ts}) + 1, event)

LEMMA TimesOfEvents ==
  ASSUME NEW S, HaveTimes(S)
  PROVE  /\ \A e \in S : e.ts \in Nat
         /\ \A list \in Seq(S) :
              /\ DOMAIN list = 1 .. Len(list) /\ Len(list) \in Nat
              /\ \A i \in DOMAIN list : list[i] \in S /\ list[i].ts \in Nat
<1>1. ASSUME NEW list \in Seq(S)
      PROVE  /\ DOMAIN list = 1 .. Len(list) /\ Len(list) \in Nat
             /\ \A i \in DOMAIN list : list[i] \in S
  BY LenProperties, ElementOfSeq
<1> QED
  BY <1>1 DEF HaveTimes

\* Scheduler::Insert keeps the order.
LEMMA InsertedIsOrdered ==
  ASSUME NEW S, HaveTimes(S), NEW list \in Seq(S), NEW event \in S
  PROVE  /\ Inserted(list, event) \in Seq(S)
         /\ \E k : Lengthened(list, Inserted(list, event), k, event)
         /\ Ordered(list) => Ordered(Inserted(list, event))
<1> DEFINE T == {i \in DOMAIN list : list[i].ts <= event.ts}
           n == Cardinality(T)
           longer == Inserted(list, event)
<1>1. /\ DOMAIN list = 1 .. Len(list) /\ Len(list) \in Nat /\ event.ts \in Nat
      /\ \A i \in DOMAIN list : list[i].ts \in Nat
  BY TimesOfEvents
<1>2. T \in SUBSET (1 .. Len(list))
  BY <1>1
<1>3. n \in Nat /\ n <= Len(list)
  <2>1. IsFiniteSet(1 .. Len(list)) /\ Cardinality(1 .. Len(list)) = Len(list)
    <3> DEFINE l == Len(list)
    <3>1. l \in Nat
      BY <1>1
    <3> HIDE DEF l
    <3> QED
      BY <3>1, FS_Interval DEF l
  <2> HIDE DEF T
  <2> QED
    BY <1>2, <2>1, FS_Subset, FS_CardinalityType
<1>4. longer = InsertAt(list, n + 1, event)
  BY DEF Inserted
<1> HIDE DEF longer, n
<1>5. n + 1 \in 1 .. Len(list) + 1
  BY <1>1, <1>3
<1>6. longer \in Seq(S) /\ Lengthened(list, longer, n + 1, event)
  BY <1>4, <1>5, InsertAtLengthens
<1>7. ASSUME Ordered(list)
      PROVE  Ordered(longer)
  <2>1. T = 1 .. n
    <3>1. \A i \in T : \A j \in 1 .. Len(list) : j <= i => j \in T
      BY <1>1, <1>7 DEF Ordered
    <3> HIDE DEF T
    <3> QED
      BY <1>1, <1>2, <3>1, FirstPositions DEF n
  <2>2. DOMAIN longer = 1 .. Len(list) + 1
    BY <1>6, TimesOfEvents DEF Lengthened
  <2>3. longer[n + 1] = event
    BY <1>6 DEF Lengthened
  <2>4. \A j \in 1 .. n : longer[j] = list[j] /\ j \in DOMAIN list /\ list[j].ts <= event.ts
    <3>1. \A j \in 1 .. n : j \in DOMAIN list /\ list[j].ts <= event.ts /\ j < n + 1
      BY <1>3, <2>1
    <3> QED
      BY <1>1, <1>6, <3>1 DEF Lengthened
  <2>5. \A j \in n + 2 .. Len(list) + 1 :
          longer[j] = list[j - 1] /\ j - 1 \in DOMAIN list /\ event.ts <= list[j - 1].ts
    <3>1. \A j \in n + 2 .. Len(list) + 1 :
            /\ j - 1 \in DOMAIN list /\ ~(j - 1 < n + 1) /\ (j - 1) + 1 = j
            /\ j - 1 \notin 1 .. n
      BY <1>1, <1>3
    <3>2. \A j \in n + 2 .. Len(list) + 1 : event.ts <= list[j - 1].ts
      BY <1>1, <2>1, <3>1
    <3> QED
      BY <1>1, <1>6, <3>1, <3>2 DEF Lengthened
  <2>6. \A j \in DOMAIN longer : j \in 1 .. n \/ j = n + 1 \/ j \in n + 2 .. Len(list) + 1
    BY <1>1, <1>3, <2>2
  <2> SUFFICES ASSUME NEW i \in DOMAIN longer, NEW j \in DOMAIN longer, i <= j
               PROVE  longer[i].ts <= longer[j].ts
    BY DEF Ordered
  <2>7. CASE i \in 1 .. n
    <3>1. CASE j \in 1 .. n
      BY <1>7, <2>4, <2>7, <3>1 DEF Ordered
    <3>2. CASE j = n + 1
      BY <2>3, <2>4, <2>7, <3>2
    <3>3. CASE j \in n + 2 .. Len(list) + 1
      BY <1>1, <2>4, <2>5, <2>7, <3>3
    <3> QED
      BY <2>6, <3>1, <3>2, <3>3
  <2>8. CASE i = n + 1
    <3>1. j = n + 1 \/ j \in n + 2 .. Len(list) + 1
      BY <1>3, <2>6, <2>8
    <3> QED
      BY <1>1, <2>3, <2>5, <2>8, <3>1
  <2>9. CASE i \in n + 2 .. Len(list) + 1
    <3>1. j \in n + 2 .. Len(list) + 1 /\ i - 1 <= j - 1
      BY <1>3, <2>6, <2>9
    <3> QED
      BY <1>7, <2>5, <2>9, <3>1 DEF Ordered
  <2> QED
    BY <2>6, <2>7, <2>8, <2>9
<1> QED
  BY <1>6, <1>7 DEF longer

\* The next event is the earliest, and taking it leaves the order as it is.
LEMMA TailIsOrdered ==
  ASSUME NEW S, HaveTimes(S), NEW list \in Seq(S), list # <<>>, Ordered(list)
  PROVE  /\ list[1] \in S /\ \A i \in DOMAIN list : list[1].ts <= list[i].ts
         /\ Tail(list) \in Seq(S) /\ Ordered(Tail(list))
         /\ Lengthened(Tail(list), list, 1, list[1])
<1>1. DOMAIN list = 1 .. Len(list) /\ Len(list) \in Nat /\ Len(list) # 0
  BY TimesOfEvents
<1>2. 1 \in DOMAIN list
  BY <1>1
<1>3. list[1] \in S /\ \A i \in DOMAIN list : list[1].ts <= list[i].ts
  BY <1>1, <1>2, TimesOfEvents DEF Ordered
<1>4. /\ Tail(list) \in Seq(S) /\ Lengthened(Tail(list), list, 1, list[1])
      /\ DOMAIN Tail(list) = 1 .. Len(list) - 1
      /\ \A i \in 1 .. Len(list) - 1 : Tail(list)[i] = list[i + 1] /\ i + 1 \in DOMAIN list
  BY <1>1, TailShortens
<1> DEFINE tail == Tail(list)
<1> HIDE DEF tail
<1>5. Ordered(tail)
  <2> SUFFICES ASSUME NEW i \in 1 .. Len(list) - 1, NEW j \in 1 .. Len(list) - 1, i <= j
               PROVE  list[i + 1].ts <= list[j + 1].ts
    BY <1>4 DEF Ordered, tail
  <2> QED
    BY <1>1, <1>4 DEF Ordered
<1> QED
  BY <1>3, <1>4, <1>5 DEF tail

------------------------------------------------------------------------------
(* Tables of numbers. *)

Changed(table, r, t, k) == [table EXCEPT ![r][t] = @ + k]

\* One number in a table changes.
LEMMA TableUpdate ==
  ASSUME NEW S, NEW T, NEW f \in [S -> [T -> Nat]], NEW g \in [S -> [T -> Nat]],
         NEW r \in S, NEW t \in T, NEW c \in Nat,
         \A n \in S : \A s \in T : g[n][s] = IF n = r /\ s = t THEN c ELSE f[n][s]
  PROVE  g = [f EXCEPT ![r][t] = c]
<1>1. g[r] = [f[r] EXCEPT ![t] = c]
  OBVIOUS
<1>2. \A n \in S : n # r => g[n] = f[n]
  OBVIOUS
<1> QED
  BY <1>1, <1>2

------------------------------------------------------------------------------
(* Keys of events: their order is the one scheduler.h:263 demands of         *)
(* operator<, and an event list that is not empty has an earliest event.     *)

\* A set of events, whatever else they carry, has keys of natural numbers.
HaveKeys(S) == \A e \in S : e.ts \in Nat /\ e.uid \in Nat

\* operator< is irreflexive, antisymmetric and transitive, and operator> is
\* its converse, as the comment on operator< in scheduler.h requires.
THEOREM LessIsStrictOrder ==
  ASSUME NEW S, HaveKeys(S)
  PROVE  /\ \A a \in S : ~Less(a, a)
         /\ \A a, b \in S : ~(Less(a, b) /\ Less(b, a))
         /\ \A a, b, c \in S : Less(a, b) /\ Less(b, c) => Less(a, c)
         /\ \A a, b \in S : Greater(a, b) <=> Less(b, a)
BY DEF HaveKeys, Less, Greater

\* Two events that neither precede each other have the same time and uid.
LEMMA LessIsTotal ==
  ASSUME NEW S, HaveKeys(S), NEW a \in S, NEW b \in S, ~Less(a, b), ~Less(b, a)
  PROVE  a.ts = b.ts /\ a.uid = b.uid
BY DEF HaveKeys, Less

\* PeekNext and RemoveNext on an ordered set are well defined: an event list
\* that is not empty has an event that no other event precedes.
THEOREM EarliestIsEarliest ==
  ASSUME NEW S, HaveKeys(S), S # {}
  PROVE  IsEarliest(Earliest(S), S)
<1> DEFINE T == {e.ts : e \in S}
<1>1. PICK t \in T : \A y \in T : t <= y
  BY LeastNumber DEF HaveKeys
<1> DEFINE U == {e.uid : e \in {f \in S : f.ts = t}}
<1>2. PICK u \in U : \A y \in U : u <= y
  <2>1. U \subseteq Nat /\ U # {}
    BY DEF HaveKeys
  <2> QED
    BY <2>1, LeastNumber
<1>3. PICK e \in S : e.ts = t /\ e.uid = u
  OBVIOUS
<1>4. \A f \in S : ~Less(f, e)
  <2> SUFFICES ASSUME NEW f \in S PROVE ~Less(f, e)
    OBVIOUS
  <2>1. t <= f.ts
    BY <1>1
  <2>2. f.ts = t => u <= f.uid
    BY <1>2
  <2>3. /\ f.ts \in Nat /\ f.uid \in Nat
        /\ e.ts \in Nat /\ e.uid \in Nat
    BY DEF HaveKeys
  <2> HIDE DEF T, U
  <2> QED
    BY <2>1, <2>2, <2>3, <1>3 DEF Less
<1> QED
  BY <1>3, <1>4 DEF Earliest, IsEarliest

==============================================================================
