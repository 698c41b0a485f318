---------------------------- MODULE FiniteLemmas ----------------------------
(***************************************************************************)
(* Facts about numbers, finite sets, sums and histories that the proofs of *)
(* several components need.  Induction is over a set of numbers, not a     *)
(* predicate: the provers cannot instantiate an operator parameter.        *)
(***************************************************************************)
EXTENDS Histories, FiniteSetTheorems, FunctionTheorems, SequenceTheorems, WellFoundedInduction, TLAPS

(* The least and the greatest of a set of numbers *)

Below == {p \in Nat \X Nat : p[1] < p[2]}

LEMMA BelowIsWellFounded == IsWellFoundedOn(Below, Nat)
BY NatLessThanWellFounded DEF Below, OpToRel

\* Min is in its set, and no element is below it.
LEMMA LeastExists ==
    ASSUME NEW S, S \subseteq Nat, S # {}
    PROVE  Min(S) \in S /\ \A n \in S : Min(S) <= n
<1>1. PICK m \in S : \A n \in S : <<n, m>> \notin Below
    BY BelowIsWellFounded, WFMin
<1>2. ASSUME NEW n \in S
      PROVE  m <= n
    <2>1. m \in Nat /\ n \in Nat
        OBVIOUS
    <2>2. n < m => <<n, m>> \in Below
        BY <2>1 DEF Below
    <2> QED
        BY <1>1, <2>1, <2>2
<1> QED
    BY <1>2 DEF Min

\* Max of numbers up to N is one of them.
LEMMA GreatestExists ==
    ASSUME NEW N \in Nat, NEW S, S \subseteq 0..N, S # {}
    PROVE  Max(S) \in S /\ \A n \in S : Max(S) >= n
<1> DEFINE T == {N - n : n \in S}
<1>1. PICK m \in T : \A n \in T : m <= n
    <2>1. ASSUME NEW n \in S
          PROVE  N - n \in Nat
        <3>1. n \in 0..N
            OBVIOUS
        <3> QED
            BY <3>1
    <2>2. T \subseteq Nat /\ T # {}
        BY <2>1
    <2> QED
        BY <2>2, LeastExists
<1>2. PICK k \in S : m = N - k
    OBVIOUS
<1>3. \A n \in S : k >= n
    BY <1>1, <1>2
<1> QED
    BY <1>3 DEF Max

\* Max of two numbers.
LEMMA MaxOfTwo ==
    ASSUME NEW a \in Int, NEW b \in Int
    PROVE  Max({a, b}) = IF a >= b THEN a ELSE b
BY DEF Max

-----------------------------------------------------------------------------
(* Induction *)

\* A set of numbers with 0 and every successor has all of them.
LEMMA NatInduct ==
    ASSUME NEW A, 0 \in A, \A n \in Nat : n \in A => n + 1 \in A
    PROVE  \A n \in Nat : n \in A
<1> SUFFICES ASSUME NEW m \in Nat, m \notin A PROVE FALSE
    OBVIOUS
<1> DEFINE B == {n \in Nat : n \notin A}
<1>1. PICK x \in B : \A y \in B : <<y, x>> \notin Below
    <2>1. B \subseteq Nat /\ B # {}
        OBVIOUS
    <2> QED BY <2>1, BelowIsWellFounded, WFMin
<1>2. x # 0
    OBVIOUS
<1>3. x - 1 \in Nat
    BY <1>2
<1>4. <<x - 1, x>> \in Below
    BY <1>3 DEF Below
<1> QED BY <1>1, <1>3, <1>4

-----------------------------------------------------------------------------
(* Sums over finite sets *)

\* The element a sum takes next.
First(s) == CHOOSE x \in s : TRUE

\* it sums F over the sets of T, which has with a set what is left of it.
SumOn(T, F, it) ==
    it = [s \in T |-> IF s = {} THEN 0 ELSE F[First(s)] + it[s \ {First(s)}]]

\* There is such a function on the subsets of a finite set: the sum is well defined.
LEMMA SumExists ==
    ASSUME NEW S, IsFiniteSet(S), NEW F
    PROVE  \E it : SumOn(SUBSET S, F, it)
<1> DEFINE T(n) == {s \in SUBSET S : Cardinality(s) <= n}
           A == {n \in Nat : \E it : SumOn(T(n), F, it)}
<1>1. 0 \in A
    <2> DEFINE it == [s \in T(0) |-> 0]
    <2>1. \A s \in T(0) : s = {}
        BY FS_Subset, FS_EmptySet, FS_CardinalityType
    <2>2. SumOn(T(0), F, it)
        BY <2>1 DEF SumOn
    <2> QED BY <2>2
<1>2. ASSUME NEW n \in Nat, n \in A PROVE n + 1 \in A
    <2>1. PICK g : SumOn(T(n), F, g)
        BY <1>2
    <2> DEFINE it == [s \in T(n+1) |-> IF s = {} THEN 0 ELSE F[First(s)] + g[s \ {First(s)}]]
    <2>2. ASSUME NEW s \in T(n+1), s # {}
          PROVE  s \ {First(s)} \in T(n)
        <3>1. First(s) \in s
            BY <2>2 DEF First
        <3>2. IsFiniteSet(s)
            BY FS_Subset
        <3>3. Cardinality(s \ {First(s)}) = Cardinality(s) - 1 /\ Cardinality(s) \in Nat
            BY <3>1, <3>2, FS_RemoveElement, FS_CardinalityType
        <3> QED BY <3>3
    <2>3. \A s \in T(n) : s \in T(n+1)
        BY FS_Subset, FS_CardinalityType
    <2>4. ASSUME NEW s \in T(n) PROVE it[s] = g[s]
        <3>1. g[s] = IF s = {} THEN 0 ELSE F[First(s)] + g[s \ {First(s)}]
            BY <2>1 DEF SumOn
        <3> QED BY <2>3, <3>1
    <2>5. ASSUME NEW s \in T(n+1)
          PROVE it[s] = IF s = {} THEN 0 ELSE F[First(s)] + it[s \ {First(s)}]
        <3> HIDE DEF T
        <3>1. CASE s = {}
            BY <3>1
        <3>2. CASE s # {}
            <4>1. it[s \ {First(s)}] = g[s \ {First(s)}]
                BY <2>2, <2>4, <3>2
            <4> HIDE DEF it
            <4>2. it[s] = F[First(s)] + g[s \ {First(s)}]
                BY <3>2 DEF it
            <4> QED BY <4>1, <4>2, <3>2
        <3> QED BY <3>1, <3>2
    <2>6. it = [s \in T(n+1) |-> it[s]]
        OBVIOUS
    <2> HIDE DEF it, T
    <2>7. SumOn(T(n+1), F, it)
        BY <2>5, <2>6 DEF SumOn
    <2> QED BY <2>7
<1>3. Cardinality(S) \in A
    <2> HIDE DEF A
    <2> QED BY <1>1, <1>2, NatInduct, FS_CardinalityType
<1>4. T(Cardinality(S)) = SUBSET S
    BY FS_Subset
<1> QED BY <1>3, <1>4

LEMMA SumIsNat ==
    ASSUME NEW S, IsFiniteSet(S), NEW F \in [S -> Nat], NEW it, SumOn(SUBSET S, F, it)
    PROVE  it[S] \in Nat
<1> DEFINE A == {n \in Nat : \A s \in SUBSET S : Cardinality(s) = n => it[s] \in Nat}
<1>0. \A s \in SUBSET S : it[s] = IF s = {} THEN 0 ELSE F[First(s)] + it[s \ {First(s)}]
    BY DEF SumOn
<1>1. 0 \in A
    <2>1. \A s \in SUBSET S : Cardinality(s) = 0 => s = {}
        BY FS_Subset, FS_EmptySet
    <2>2. {} \in SUBSET S /\ it[{}] = 0
        BY <1>0
    <2>3. ASSUME NEW s \in SUBSET S, Cardinality(s) = 0 PROVE it[s] \in Nat
        BY <2>1, <2>2, <2>3
    <2> QED BY <2>3
<1>2. ASSUME NEW n \in Nat, n \in A PROVE n + 1 \in A
    <2> SUFFICES ASSUME NEW s \in SUBSET S, Cardinality(s) = n + 1 PROVE it[s] \in Nat
        OBVIOUS
    <2>1. IsFiniteSet(s) /\ s # {}
        BY FS_Subset, FS_EmptySet
    <2>2. First(s) \in s
        BY <2>1 DEF First
    <2>3. Cardinality(s \ {First(s)}) = Cardinality(s) - 1
        BY <2>1, <2>2, FS_RemoveElement
    <2>4. s \ {First(s)} \in SUBSET S /\ Cardinality(s \ {First(s)}) = n
        BY <2>3
    <2>5. it[s \ {First(s)}] \in Nat
        BY <1>2, <2>4
    <2>6. First(s) \in S
        BY <2>2
    <2> QED BY <1>0, <2>1, <2>5, <2>6
<1>3. Cardinality(S) \in A
    <2> HIDE DEF A
    <2> QED BY <1>1, <1>2, NatInduct, FS_CardinalityType
<1> QED BY <1>3

\* A sum of numbers that are at least 0 is at least 0.
LEMMA SumOfNats ==
    ASSUME NEW S, IsFiniteSet(S), NEW F \in [S -> Nat]
    PROVE  MapThenSumSet(LAMBDA r : F[r], S) \in Nat
<1> DEFINE it == CHOOSE it : SumOn(SUBSET S, F, it)
<1>1. SumOn(SUBSET S, F, it)
    BY SumExists
<1>2. it[S] \in Nat
    <2> HIDE DEF it
    <2> QED BY <1>1, SumIsNat
<1>3. it[S] = MapThenSumSet(LAMBDA r : F[r], S)
    BY DEF MapThenSumSet, MapThenFoldSet, SumOn, First
<1> QED BY <1>2, <1>3

\* A finite set of numbers has a greatest one.
LEMMA FiniteMax ==
    ASSUME NEW S, S \subseteq Int, IsFiniteSet(S), S # {}
    PROVE  Max(S) \in S /\ \A n \in S : Max(S) >= n
<1> DEFINE A == {k \in Nat : \A T \in SUBSET S : T # {} /\ Cardinality(T) = k =>
                                \E m \in T : \A n \in T : m >= n}
<1>1. 0 \in A
    <2>1. ASSUME NEW T \in SUBSET S, Cardinality(T) = 0 PROVE T = {}
        BY <2>1, FS_Subset, FS_EmptySet
    <2> QED BY <2>1
<1>2. ASSUME NEW k \in Nat, k \in A PROVE k + 1 \in A
    <2> SUFFICES ASSUME NEW T \in SUBSET S, T # {}, Cardinality(T) = k + 1
                 PROVE  \E m \in T : \A n \in T : m >= n
        OBVIOUS
    <2>1. PICK x \in T : TRUE
        OBVIOUS
    <2> DEFINE U == T \ {x}
    <2>2. IsFiniteSet(T) /\ Cardinality(U) = Cardinality(T) - 1
        BY <2>1, FS_Subset, FS_RemoveElement
    <2>3. U \in SUBSET S /\ Cardinality(U) = k
        BY <2>2
    <2>4. CASE U = {}
        BY <2>1, <2>4
    <2>5. CASE U # {}
        <3>1. PICK m \in U : \A n \in U : m >= n
            BY <1>2, <2>3, <2>5
        <3>2. m \in Int /\ x \in Int /\ m \in T
            BY <3>1
        <3>3. CASE m >= x
            BY <3>1, <3>2, <3>3
        <3>4. CASE ~(m >= x)
            <4>1. ASSUME NEW n \in T PROVE x >= n
                <5>1. n \in Int
                    OBVIOUS
                <5>2. n = x \/ m >= n
                    BY <3>1
                <5> QED BY <3>2, <3>4, <5>1, <5>2
            <4> QED BY <2>1, <4>1
        <3> QED BY <3>3, <3>4
    <2> QED BY <2>4, <2>5
<1>3. Cardinality(S) \in A
    <2> HIDE DEF A
    <2> QED BY <1>1, <1>2, NatInduct, FS_CardinalityType
<1>4. PICK m \in S : \A n \in S : m >= n
    BY <1>3
<1> QED
    BY <1>4 DEF Max

-----------------------------------------------------------------------------
(* Histories *)

\* The smaller of two numbers.
LEMMA MinOfTwo ==
    ASSUME NEW a \in Int, NEW b \in Int
    PROVE  Min({a, b}) = IF a <= b THEN a ELSE b
BY DEF Min

\* kept is what KeptAt computes, up to a place n.
KeptUpTo(s, P, n, kept) ==
    kept = [i \in 0..n |->
               IF i = 0 THEN <<>>
               ELSE IF i \in P THEN Append(kept[i - 1], s[i]) ELSE kept[i - 1]]

\* The recursive function by which KeptAt walks a history exists.
LEMMA KeptExists ==
    ASSUME NEW s, NEW P, NEW n \in Nat
    PROVE  \E kept : KeptUpTo(s, P, n, kept)
<1> DEFINE A == {m \in Nat : \E kept : KeptUpTo(s, P, m, kept)}
<1>1. 0 \in A
    <2> DEFINE kept == [i \in 0..0 |-> <<>>]
    <2>1. KeptUpTo(s, P, 0, kept)
        BY DEF KeptUpTo
    <2> QED BY <2>1
<1>2. ASSUME NEW m \in Nat, m \in A PROVE m + 1 \in A
    <2>1. PICK g : KeptUpTo(s, P, m, g)
        BY <1>2
    <2> DEFINE kept == [i \in 0..(m + 1) |->
               IF i = 0 THEN <<>>
               ELSE IF i \in P THEN Append(g[i - 1], s[i]) ELSE g[i - 1]]
    <2>2. ASSUME NEW i \in 0..m PROVE kept[i] = g[i]
        <3>1. g[i] = IF i = 0 THEN <<>>
                     ELSE IF i \in P THEN Append(g[i - 1], s[i]) ELSE g[i - 1]
            BY <2>1, Zenon DEF KeptUpTo
        <3>2. i \in 0..(m + 1)
            OBVIOUS
        <3> QED BY <3>1, <3>2, Zenon
    <2>3. ASSUME NEW i \in 0..(m + 1), i # 0
          PROVE  kept[i] = IF i \in P THEN Append(kept[i - 1], s[i]) ELSE kept[i - 1]
        <3>1. i - 1 \in 0..m
            BY <2>3
        <3>2. kept[i - 1] = g[i - 1]
            BY <3>1, <2>2
        <3> QED BY <3>2, <2>3
    <2>4. kept[0] = <<>> /\ kept = [i \in 0..(m + 1) |-> kept[i]]
        OBVIOUS
    <2> HIDE DEF kept
    <2>5. KeptUpTo(s, P, m + 1, kept)
        BY <2>3, <2>4 DEF KeptUpTo
    <2> QED BY <2>5
<1> HIDE DEF A
<1>3. n \in A
    BY <1>1, <1>2, NatInduct
<1> QED BY <1>3 DEF A

\* place says where in s the elements of r stand: in their order, at the places of P.
StandAt(s, P, n, r, place) ==
    /\ place \in [1..Len(r) -> P \cap (1..n)]
    /\ \A i, j \in 1..Len(r) : i < j => place[i] < place[j]
    /\ \A k \in P \cap (1..n) : \E i \in 1..Len(r) : place[i] = k
    /\ \A i \in 1..Len(r) : r[i] = s[place[i]]

\* One more place of the history: its element is taken at the places of P, and
\* no other.
LEMMA KeptStep ==
    ASSUME NEW S, NEW s \in Seq(S), NEW P, NEW n \in Nat, n < Len(s), NEW r \in Seq(S),
           NEW place, StandAt(s, P, n, r, place)
    PROVE  /\ n + 1 \in P => Append(r, s[n + 1]) \in Seq(S)
                  /\ \E p : StandAt(s, P, n + 1, Append(r, s[n + 1]), p)
           /\ n + 1 \notin P => StandAt(s, P, n + 1, r, place)
<1>1. CASE n + 1 \notin P
    <2>1. P \cap (1..(n + 1)) = P \cap (1..n)
        BY <1>1
    <2> QED BY <1>1, <2>1 DEF StandAt
<1>2. CASE n + 1 \in P
    <2> DEFINE t == Append(r, s[n + 1])
               p == [i \in 1..(Len(r) + 1) |-> IF i = Len(r) + 1 THEN n + 1 ELSE place[i]]
    <2>1. s[n + 1] \in S
        OBVIOUS
    <2>2. t \in Seq(S) /\ Len(t) = Len(r) + 1
          /\ t[Len(r) + 1] = s[n + 1] /\ \A i \in 1..Len(r) : t[i] = r[i]
        BY <2>1
    <2>3. Len(r) \in Nat
        OBVIOUS
    <2> HIDE DEF t
    <2>4. p \in [1..Len(t) -> P \cap (1..(n + 1))]
        <3>1. ASSUME NEW i \in 1..(Len(r) + 1), i # Len(r) + 1
              PROVE  place[i] \in P \cap (1..(n + 1))
            <4>1. i \in 1..Len(r)
                BY <3>1, <2>3
            <4>2. place[i] \in P \cap (1..n)
                BY <4>1 DEF StandAt
            <4> QED BY <4>2
        <3> QED BY <3>1, <2>2, <2>3, <1>2
    <2>5. ASSUME NEW i \in 1..Len(t), NEW j \in 1..Len(t), i < j PROVE p[i] < p[j]
        <3>1. i \in 1..Len(r) /\ p[i] = place[i]
            BY <2>5, <2>2, <2>3
        <3>2. place[i] \in 1..n
            BY <3>1 DEF StandAt
        <3>3. CASE j = Len(r) + 1
            BY <3>1, <3>2, <3>3, <2>2, <2>3
        <3>4. CASE j # Len(r) + 1
            <4>1. j \in 1..Len(r) /\ p[j] = place[j]
                BY <3>4, <2>2, <2>3
            <4> QED BY <3>1, <4>1, <2>5 DEF StandAt
        <3> QED BY <3>3, <3>4
    <2>6. ASSUME NEW k \in P \cap (1..(n + 1)) PROVE \E i \in 1..Len(t) : p[i] = k
        <3>1. CASE k = n + 1
            BY <3>1, <2>2, <2>3
        <3>2. CASE k # n + 1
            <4>1. k \in P \cap (1..n)
                BY <3>2
            <4>2. PICK i \in 1..Len(r) : place[i] = k
                BY <4>1 DEF StandAt
            <4> QED BY <4>2, <2>2, <2>3
        <3> QED BY <3>1, <3>2
    <2>7. ASSUME NEW i \in 1..Len(t) PROVE t[i] = s[p[i]]
        <3>1. CASE i = Len(r) + 1
            BY <3>1, <2>2, <2>3
        <3>2. CASE i # Len(r) + 1
            <4>1. i \in 1..Len(r)
                BY <3>2, <2>2, <2>3
            <4> QED BY <4>1, <2>2, <2>3, <3>2 DEF StandAt
        <3> QED BY <3>1, <3>2
    <2> HIDE DEF p
    <2>8. StandAt(s, P, n + 1, t, p)
        BY <2>4, <2>5, <2>6, <2>7 DEF StandAt
    <2> QED BY <1>2, <2>2, <2>8 DEF t
<1> QED BY <1>1, <1>2

\* What KeptAt returns: the elements at the places of P, all of them and in order.
LEMMA KeptProperties ==
    ASSUME NEW S, NEW s \in Seq(S), NEW P
    PROVE  KeptAt(s, P) \in Seq(S) /\ \E place : StandAt(s, P, Len(s), KeptAt(s, P), place)
<1> DEFINE kept == CHOOSE k : KeptUpTo(s, P, Len(s), k)
<1>1. KeptUpTo(s, P, Len(s), kept)
    BY KeptExists
<1>2. KeptAt(s, P) = kept[Len(s)]
    BY DEF KeptAt, KeptUpTo
<1> HIDE DEF kept
<1> DEFINE A == {n \in Nat : n <= Len(s) =>
                    kept[n] \in Seq(S) /\ \E place : StandAt(s, P, n, kept[n], place)}
<1>3. 0 \in A
    <2>1. kept[0] = <<>>
        BY <1>1 DEF KeptUpTo
    <2>2. StandAt(s, P, 0, <<>>, <<>>)
        BY DEF StandAt
    <2>3. kept[0] \in Seq(S) /\ \E place : StandAt(s, P, 0, kept[0], place)
        BY <2>1, <2>2
    <2> QED BY <2>3
<1>4. ASSUME NEW n \in Nat, n \in A PROVE n + 1 \in A
    <2> SUFFICES ASSUME n + 1 <= Len(s)
                 PROVE  kept[n + 1] \in Seq(S) /\ \E place : StandAt(s, P, n + 1, kept[n + 1], place)
        OBVIOUS
    <2>1. n + 1 \in 0..Len(s) /\ n + 1 # 0 /\ n < Len(s) /\ (n + 1) - 1 = n
        OBVIOUS
    <2>2. kept[n + 1] = IF n + 1 \in P THEN Append(kept[n], s[n + 1]) ELSE kept[n]
        <3>1. \A i \in 0..Len(s) : i # 0 => kept[i] = IF i \in P THEN Append(kept[i - 1], s[i]) ELSE kept[i - 1]
            BY <1>1 DEF KeptUpTo
        <3> QED BY <3>1, <2>1
    <2>3. PICK place : kept[n] \in Seq(S) /\ StandAt(s, P, n, kept[n], place)
        BY <1>4, <2>1
    <2> HIDE DEF A
    <2> QED BY <2>1, <2>2, <2>3, KeptStep
<1>5. Len(s) \in A
    <2>1. Len(s) \in Nat
        OBVIOUS
    <2> HIDE DEF A
    <2> QED BY <1>3, <1>4, <2>1, NatInduct
<1> QED BY <1>2, <1>5

\* The newest n of a history are its beginning, the whole of a short one.
LEMMA NewestProperties ==
    ASSUME NEW S, NEW s \in Seq(S), NEW n \in Nat
    PROVE  /\ Newest(s, n) \in Seq(S)
           /\ Len(Newest(s, n)) = IF Len(s) <= n THEN Len(s) ELSE n
           /\ \A i \in 1..Len(Newest(s, n)) : Newest(s, n)[i] = s[i]
           /\ Len(s) <= n => Newest(s, n) = s
<1>1. Len(s) \in Nat /\ \A i \in 1..Len(s) : s[i] \in S
    OBVIOUS
<1> DEFINE m == IF Len(s) <= n THEN Len(s) ELSE n
<1>2. m \in Nat /\ m <= Len(s) /\ Newest(s, n) = SubSeq(s, 1, m)
    BY <1>1, MinOfTwo DEF Newest
<1> HIDE DEF m
<1>3. /\ SubSeq(s, 1, m) \in Seq(S)
      /\ Len(SubSeq(s, 1, m)) = m
      /\ \A i \in 1..m : SubSeq(s, 1, m)[i] = s[i]
    BY <1>1, <1>2, SubSeqProperties
<1>4. ASSUME m = Len(s) PROVE SubSeq(s, 1, m) = s
    BY <1>1, <1>3, <1>4
<1> QED
    BY <1>1, <1>2, <1>3, <1>4 DEF m

\* The elements of r are those of s at the places of P, in their order.
KeptFrom(s, P, r) ==
    /\ \A i \in 1..Len(r) : \E k \in P \cap (1..Len(s)) : r[i] = s[k]
    /\ \A k \in P \cap (1..Len(s)) : \E i \in 1..Len(r) : r[i] = s[k]
    /\ \A i, j \in 1..Len(r) : i < j =>
          \E k, l \in P \cap (1..Len(s)) : k < l /\ r[i] = s[k] /\ r[j] = s[l]

\* KeptAt keeps what stands at the places of P, and the order.
LEMMA KeptElements ==
    ASSUME NEW S, NEW s \in Seq(S), NEW P
    PROVE  KeptAt(s, P) \in Seq(S) /\ KeptFrom(s, P, KeptAt(s, P))
<1> DEFINE r == KeptAt(s, P)
<1>1. PICK place : r \in Seq(S) /\ StandAt(s, P, Len(s), r, place)
    BY KeptProperties
<1> HIDE DEF r
<1>2. /\ \A i \in 1..Len(r) : place[i] \in P \cap (1..Len(s)) /\ r[i] = s[place[i]]
      /\ \A i, j \in 1..Len(r) : i < j => place[i] < place[j]
      /\ \A k \in P \cap (1..Len(s)) : \E i \in 1..Len(r) : place[i] = k
    BY <1>1 DEF StandAt
<1>3. r \in Seq(S)
    BY <1>1
<1>4. \A i, j \in 1..Len(r) : i < j =>
         \E k, l \in P \cap (1..Len(s)) : k < l /\ r[i] = s[k] /\ r[j] = s[l]
    <2> SUFFICES ASSUME NEW i \in 1..Len(r), NEW j \in 1..Len(r), i < j
                 PROVE  \E k, l \in P \cap (1..Len(s)) : k < l /\ r[i] = s[k] /\ r[j] = s[l]
        OBVIOUS
    <2>1. /\ place[i] \in P \cap (1..Len(s)) /\ place[j] \in P \cap (1..Len(s))
          /\ place[i] < place[j] /\ r[i] = s[place[i]] /\ r[j] = s[place[j]]
        BY <1>2
    <2> QED BY <2>1
<1>5. \A i \in 1..Len(r) : \E k \in P \cap (1..Len(s)) : r[i] = s[k]
    BY <1>2
<1>6. \A k \in P \cap (1..Len(s)) : \E i \in 1..Len(r) : r[i] = s[k]
    BY <1>2
<1> QED
    BY <1>3, <1>4, <1>5, <1>6 DEF KeptFrom, r

\* The elements of a history are finitely many, and what stands in it.
LEMMA ElementsOf ==
    ASSUME NEW S, NEW s \in Seq(S)
    PROVE  /\ Elements(s) = {s[i] : i \in 1..Len(s)}
           /\ Elements(s) \subseteq S
           /\ IsFiniteSet(Elements(s))
<1>1. Elements(s) = {s[i] : i \in 1..Len(s)} /\ Len(s) \in Nat
    BY DEF Elements
<1>2. Elements(s) \subseteq S
    BY <1>1
<1> DEFINE f == [i \in 1..Len(s) |-> s[i]]
<1>3. f \in Surjection(1..Len(s), Elements(s))
    BY <1>1 DEF Surjection
<1>4. IsFiniteSet(1..Len(s))
    BY <1>1, FS_Interval
<1> HIDE DEF f
<1>5. IsFiniteSet(Elements(s))
    BY <1>3, <1>4, FS_Surjection
<1> QED
    BY <1>1, <1>2, <1>5

\* What is put first in a history is in it, and the rest comes from the history.
LEMMA NewestFirst ==
    ASSUME NEW S, NEW s \in Seq(S), NEW x \in S, NEW n \in Nat \ {0},
           NEW r, r = Newest(<<x>> \o s, n)
    PROVE  /\ r \in Seq(S)
           /\ x \in Elements(r)
           /\ Elements(r) \subseteq {x} \cup Elements(s)
<1> DEFINE a == <<x>>
           c == a \o s
<1>1. a \in Seq(S) /\ Len(a) = 1 /\ a[1] = x
    OBVIOUS
<1> HIDE DEF a
<1>2. /\ c \in Seq(S) /\ Len(c) = 1 + Len(s) /\ Len(s) \in Nat
      /\ \A i \in 1..Len(c) : c[i] = IF i <= 1 THEN a[i] ELSE s[i - 1]
    <2>1. /\ c \in Seq(S) /\ Len(c) = Len(a) + Len(s)
          /\ \A i \in 1..Len(a) + Len(s) : c[i] = IF i <= Len(a) THEN a[i] ELSE s[i - Len(a)]
        BY <1>1, ConcatProperties
    <2> HIDE DEF c
    <2> QED BY <1>1, <2>1
<1> HIDE DEF c
<1>3. r = Newest(c, n)
    BY DEF a, c
<1>4. /\ r \in Seq(S)
      /\ Len(r) = IF Len(c) <= n THEN Len(c) ELSE n
      /\ \A i \in 1..Len(r) : r[i] = c[i]
    <2>1. n \in Nat /\ c \in Seq(S)
        BY <1>2
    <2>2. /\ Newest(c, n) \in Seq(S)
          /\ Len(Newest(c, n)) = IF Len(c) <= n THEN Len(c) ELSE n
          /\ \A i \in 1..Len(Newest(c, n)) : Newest(c, n)[i] = c[i]
        BY <2>1, NewestProperties
    <2> QED BY <1>3, <2>2
<1>5. r[1] = x /\ 1 \in 1..Len(r)
    <2>1. Len(c) \in Nat /\ Len(c) >= 1 /\ n \in Nat /\ n >= 1
        BY <1>2
    <2>2. Len(r) \in Nat /\ Len(r) >= 1
        BY <1>4, <2>1
    <2>3. 1 \in 1..Len(r) /\ 1 \in 1..Len(c)
        BY <2>1, <2>2
    <2>4. c[1] = x
        BY <1>1, <1>2, <2>3
    <2> QED BY <1>4, <2>3, <2>4
<1>6. x \in Elements(r)
    BY <1>4, <1>5, ElementsOf
<1>7. ASSUME NEW y \in Elements(r), y # x PROVE y \in Elements(s)
    <2>1. PICK i \in 1..Len(r) : y = r[i]
        BY <1>4, ElementsOf
    <2>2. i # 1
        BY <1>5, <1>7, <2>1
    <2>3. i - 1 \in 1..Len(s) /\ y = s[i - 1]
        BY <1>2, <1>4, <2>1, <2>2
    <2> QED BY <2>3, ElementsOf
<1> QED
    BY <1>4, <1>6, <1>7

-----------------------------------------------------------------------------
(* Counting and ordering *)

\* Where the elements of Q stand in a history.
PlacesOf(s, Q) == {i \in 1..Len(s) : s[i] \in Q}

\* What KeptAt keeps of a set of elements is what of it stands at the places of P.
LEMMA KeptCount ==
    ASSUME NEW S, NEW s \in Seq(S), NEW P, NEW Q, NEW r, r = KeptAt(s, P)
    PROVE  Cardinality(PlacesOf(r, Q)) = Cardinality(P \cap PlacesOf(s, Q))
<1>1. PICK place : r \in Seq(S) /\ StandAt(s, P, Len(s), r, place)
    BY KeptProperties
<1> DEFINE X == {i \in 1..Len(r) : r[i] \in Q}
           Y == {k \in P \cap (1..Len(s)) : s[k] \in Q}
           f == [i \in X |-> place[i]]
<1>2. Len(r) \in Nat /\ X \subseteq 1..Len(r)
    BY <1>1
<1>3. \A i \in 1..Len(r) : place[i] \in P \cap (1..Len(s)) /\ r[i] = s[place[i]]
    BY <1>1 DEF StandAt
<1>4. f \in [X -> Y]
    BY <1>3
<1>5. ASSUME NEW i \in X, NEW j \in X, f[i] = f[j] PROVE i = j
    <2>1. i \in 1..Len(r) /\ j \in 1..Len(r) /\ place[i] = place[j]
        BY <1>5
    <2>2. place[i] \in Int
        BY <1>3, <2>1
    <2>3. ~(place[i] < place[j]) /\ ~(place[j] < place[i])
        BY <2>1, <2>2
    <2>4. ~(i < j) /\ ~(j < i)
        BY <1>1, <2>1, <2>3 DEF StandAt
    <2> QED BY <2>1, <2>4
<1>6. ASSUME NEW k \in Y PROVE \E i \in X : f[i] = k
    <2>1. PICK i \in 1..Len(r) : place[i] = k
        BY <1>1 DEF StandAt
    <2>2. i \in X
        BY <1>3, <2>1
    <2> QED BY <2>1, <2>2
<1>7. f \in Bijection(X, Y)
    BY <1>4, <1>5, <1>6, Fun_IsBij
<1>8. IsFiniteSet(X)
    <2>1. IsFiniteSet(1..Len(r))
        BY <1>2, FS_Interval
    <2> QED BY <1>2, <2>1, FS_Subset
<1> HIDE DEF X, Y, f
<1>9. ExistsBijection(X, Y)
    BY <1>7 DEF ExistsBijection
<1>10. Cardinality(X) = Cardinality(Y)
    BY <1>8, <1>9, FS_Bijection
<1>11. X = PlacesOf(r, Q) /\ Y = P \cap PlacesOf(s, Q)
    BY DEF X, Y, PlacesOf
<1> QED BY <1>10, <1>11

\* The elements of a set that stand in a joined history are those of both parts.
LEMMA ConcatCount ==
    ASSUME NEW S, NEW a \in Seq(S), NEW b \in Seq(S), NEW Q
    PROVE  Cardinality(PlacesOf(a \o b, Q)) = Cardinality(PlacesOf(a, Q)) + Cardinality(PlacesOf(b, Q))
<1> DEFINE c == a \o b
           X == {i \in 1..Len(a) : a[i] \in Q}
           Y == {i \in 1..Len(b) : b[i] \in Q}
           Z == {i \in 1..Len(c) : c[i] \in Q}
           W == {i \in Z : i > Len(a)}
           f == [i \in Y |-> Len(a) + i]
<1>1. /\ Len(a) \in Nat /\ Len(b) \in Nat /\ Len(c) = Len(a) + Len(b)
      /\ \A i \in 1..Len(a) : c[i] = a[i]
      /\ \A i \in 1..Len(b) : c[Len(a) + i] = b[i]
    BY ConcatProperties
<1>2. ASSUME NEW i \in Z PROVE i \in X \/ i \in W
    BY <1>1
<1>3. X \subseteq Z
    BY <1>1
<1>4. X \cap W = {} /\ Z = X \cup W
    BY <1>1, <1>2, <1>3
<1>5. f \in [Y -> W]
    BY <1>1
<1>6. ASSUME NEW i \in Y, NEW j \in Y, f[i] = f[j] PROVE i = j
    BY <1>1, <1>6
<1>7. ASSUME NEW k \in W PROVE \E i \in Y : f[i] = k
    <2>1. k \in 1..Len(c) /\ k > Len(a) /\ c[k] \in Q
        OBVIOUS
    <2>2. k - Len(a) \in 1..Len(b) /\ Len(a) + (k - Len(a)) = k
        BY <1>1, <2>1
    <2>3. k - Len(a) \in Y
        BY <1>1, <2>1, <2>2
    <2> QED BY <2>2, <2>3
<1>8. f \in Bijection(Y, W)
    BY <1>5, <1>6, <1>7, Fun_IsBij
<1>9. IsFiniteSet(X) /\ IsFiniteSet(Y)
    <2>1. IsFiniteSet(1..Len(a)) /\ IsFiniteSet(1..Len(b))
        BY <1>1, FS_Interval
    <2> QED BY <2>1, FS_Subset
<1> HIDE DEF X, Y, Z, W, f
<1>10. IsFiniteSet(W) /\ Cardinality(W) = Cardinality(Y)
    <2>1. ExistsBijection(Y, W)
        BY <1>8 DEF ExistsBijection
    <2> QED BY <1>9, <2>1, FS_Bijection
<1>11. Cardinality(X \cup W) = Cardinality(X) + Cardinality(W)
    <2>1. Cardinality(X \cap W) = 0
        BY <1>4, FS_EmptySet
    <2>2. Cardinality(X \cup W) = Cardinality(X) + Cardinality(W) - Cardinality(X \cap W)
        BY <1>9, <1>10, FS_Union
    <2>3. Cardinality(X) \in Nat /\ Cardinality(W) \in Nat
        BY <1>9, <1>10, FS_CardinalityType
    <2> QED BY <2>1, <2>2, <2>3
<1>12. Cardinality(Z) = Cardinality(X) + Cardinality(Y)
    BY <1>4, <1>10, <1>11
<1> QED BY <1>12 DEF X, Y, Z, PlacesOf

\* A finite set can be put in the order of a measure, the greatest first.
Descending(T, F, f) ==
    /\ f \in [1..Cardinality(T) -> T]
    /\ \A i, j \in 1..Cardinality(T) : i < j => f[i] # f[j] /\ F[f[i]] >= F[f[j]]

LEMMA DescendingExists ==
    ASSUME NEW S, IsFiniteSet(S), NEW F \in [S -> Int]
    PROVE  \E f : Descending(S, F, f)
<1> DEFINE A == {n \in Nat : \A T \in SUBSET S : Cardinality(T) = n => \E f : Descending(T, F, f)}
<1>1. 0 \in A
    <2> SUFFICES ASSUME NEW T \in SUBSET S, Cardinality(T) = 0 PROVE \E f : Descending(T, F, f)
        OBVIOUS
    <2>1. T = {} /\ 1..Cardinality(T) = {}
        BY FS_Subset, FS_EmptySet
    <2> DEFINE f == [i \in {} |-> 0]
    <2>2. Descending(T, F, f)
        BY <2>1 DEF Descending
    <2> QED BY <2>2
<1>2. ASSUME NEW n \in Nat, n \in A PROVE n + 1 \in A
    <2> SUFFICES ASSUME NEW T \in SUBSET S, Cardinality(T) = n + 1 PROVE \E f : Descending(T, F, f)
        OBVIOUS
    <2>1. IsFiniteSet(T) /\ T # {}
        BY FS_Subset, FS_EmptySet
    <2>2. PICK m \in T : \A x \in T : F[x] >= F[m]
        <3> DEFINE g == [x \in T |-> 0 - F[x]]
                   N == {0 - F[x] : x \in T}
        <3>1. g \in Surjection(T, N)
            BY DEF Surjection
        <3>2. \A x \in T : F[x] \in Int
            OBVIOUS
        <3>3. N \subseteq Int /\ N # {}
            BY <2>1, <3>2
        <3>4. IsFiniteSet(N)
            <4> HIDE DEF g, N
            <4> QED BY <2>1, <3>1, FS_Surjection
        <3>5. Max(N) \in N /\ \A k \in N : Max(N) >= k
            <4> HIDE DEF N
            <4> QED BY <3>3, <3>4, FiniteMax
        <3>6. PICK m \in T : Max(N) = 0 - F[m]
            BY <3>5
        <3>7. ASSUME NEW x \in T PROVE F[x] >= F[m]
            <4>1. 0 - F[m] >= 0 - F[x]
                BY <3>5, <3>6
            <4> QED BY <3>2, <4>1
        <3> QED BY <3>7
    <2> DEFINE U == T \ {m}
    <2>3. U \in SUBSET S /\ Cardinality(U) = n
        <3>1. Cardinality(U) = Cardinality(T) - 1
            BY <2>1, FS_RemoveElement
        <3> QED BY <3>1
    <2>4. PICK g : Descending(U, F, g)
        BY <1>2, <2>3
    <2>5. /\ g \in [1..n -> U]
          /\ \A i, j \in 1..n : i < j => g[i] # g[j] /\ F[g[i]] >= F[g[j]]
        BY <2>3, <2>4 DEF Descending
    <2> DEFINE f == [i \in 1..(n + 1) |-> IF i = n + 1 THEN m ELSE g[i]]
    <2>6. ASSUME NEW i \in 1..(n + 1), i # n + 1 PROVE i \in 1..n /\ f[i] = g[i] /\ f[i] \in U
        BY <2>5, <2>6
    <2>7. f[n + 1] = m /\ n + 1 \in 1..(n + 1)
        OBVIOUS
    <2>8. f \in [1..(n + 1) -> T]
        BY <2>6
    <2> HIDE DEF f
    <2>9. ASSUME NEW i \in 1..(n + 1), NEW j \in 1..(n + 1), i < j
          PROVE  f[i] # f[j] /\ F[f[i]] >= F[f[j]]
        <3>1. i # n + 1
            BY <2>9
        <3>2. CASE j = n + 1
            <4>1. f[i] \in U /\ f[j] = m
                BY <2>6, <2>7, <3>1, <3>2
            <4> QED BY <2>2, <4>1
        <3>3. CASE j # n + 1
            BY <2>5, <2>6, <2>9, <3>1, <3>3
        <3> QED BY <3>2, <3>3
    <2>10. Descending(T, F, f)
        BY <2>8, <2>9 DEF Descending
    <2> QED BY <2>10
<1>3. Cardinality(S) \in A
    <2>1. Cardinality(S) \in Nat
        BY FS_CardinalityType
    <2> HIDE DEF A
    <2> QED BY <1>1, <1>2, <2>1, NatInduct
<1> QED BY <1>3

\* A later number has no smaller quotient.
LEMMA QuotientsGrow ==
    ASSUME NEW x \in Nat, NEW y \in Nat, x <= y, NEW d \in Nat \ {0}
    PROVE  x \div d \in Nat /\ x \div d <= y \div d
<1> DEFINE p == x \div d
           q == y \div d
           m == x % d
           n == y % d
<1>1. p \in Int /\ m \in 0..(d - 1) /\ x = d * p + m
    BY SMT
<1>2. q \in Int /\ n \in 0..(d - 1) /\ y = d * q + n
    BY SMT
<1>3. p \in Nat
    BY SMT
<1> HIDE DEF p, q, m, n
<1>4. SUFFICES ASSUME p > q PROVE FALSE
    BY <1>1, <1>2, <1>3 DEF p, q
<1>5. d * (p - q) = d * p - d * q
    BY <1>1, <1>2
<1>6. d * (p - q) >= d
    BY <1>1, <1>2, <1>4
<1> QED BY <1>1, <1>2, <1>5, <1>6

\* A product with a sum, and with a smaller number.
LEMMA Distributes ==
    ASSUME NEW d \in Nat, NEW a \in Int, NEW b \in Int
    PROVE  d * a + d * b = d * (a + b)
OBVIOUS

LEMMA Monotone ==
    ASSUME NEW d \in Nat, NEW a \in Int, NEW b \in Int, a <= b
    PROVE  d * a <= d * b /\ d * a \in Int /\ d * b \in Int
<1>1. d * (b - a) >= 0
    BY SMT
<1> QED BY <1>1

\* A finite set with one more element.
LEMMA ElementAdded ==
    ASSUME NEW P, IsFiniteSet(P), NEW p
    PROVE  /\ IsFiniteSet(P \cup {p})
           /\ Cardinality(P) \in Nat
           /\ Cardinality(P) <= Cardinality(P \cup {p})
           /\ p \notin P => Cardinality(P \cup {p}) = Cardinality(P) + 1
<1>1. IsFiniteSet(P \cup {p})
    BY FS_AddElement
<1>2. Cardinality(P) \in Nat /\ Cardinality(P \cup {p}) \in Nat
    BY <1>1, FS_CardinalityType
<1>3. Cardinality(P) <= Cardinality(P \cup {p})
    BY <1>1, FS_Subset
<1>4. p \notin P => Cardinality(P \cup {p}) = Cardinality(P) + 1
    BY FS_AddElement
<1> QED BY <1>1, <1>2, <1>3, <1>4

\* Two sums over the same finite set compare as their terms do.
LEMMA SumsOnCompare ==
    ASSUME NEW S, IsFiniteSet(S), NEW F, NEW G,
           \A x \in S : F[x] \in Int /\ G[x] \in Int /\ F[x] <= G[x],
           NEW f, SumOn(SUBSET S, F, f), NEW g, SumOn(SUBSET S, G, g)
    PROVE  /\ f[S] \in Int /\ g[S] \in Int /\ f[S] <= g[S]
           /\ (\E x \in S : F[x] < G[x]) => f[S] < g[S]
           /\ (\A x \in S : F[x] = 0) => f[S] = 0
<1> DEFINE Compare(s) == /\ f[s] \in Int /\ g[s] \in Int /\ f[s] <= g[s]
                         /\ (\E x \in s : F[x] < G[x]) => f[s] < g[s]
                         /\ (\A x \in s : F[x] = 0) => f[s] = 0
           A == {n \in Nat : \A s \in SUBSET S : Cardinality(s) = n => Compare(s)}
<1>0. \A s \in SUBSET S :
          /\ f[s] = IF s = {} THEN 0 ELSE F[First(s)] + f[s \ {First(s)}]
          /\ g[s] = IF s = {} THEN 0 ELSE G[First(s)] + g[s \ {First(s)}]
    BY DEF SumOn
<1>1. 0 \in A
    <2>1. \A s \in SUBSET S : Cardinality(s) = 0 => s = {}
        BY FS_Subset, FS_EmptySet
    <2>2. {} \in SUBSET S /\ f[{}] = 0 /\ g[{}] = 0
        BY <1>0
    <2>3. ASSUME NEW s \in SUBSET S, Cardinality(s) = 0 PROVE Compare(s)
        <3>1. s = {}
            BY <2>1, <2>3
        <3>2. f[s] = 0 /\ g[s] = 0 /\ ~\E x \in s : TRUE
            BY <2>2, <3>1
        <3> QED BY <3>2
    <2> QED BY <2>3
<1>2. ASSUME NEW n \in Nat, n \in A PROVE n + 1 \in A
    <2> SUFFICES ASSUME NEW s \in SUBSET S, Cardinality(s) = n + 1 PROVE Compare(s)
        OBVIOUS
    <2>1. IsFiniteSet(s) /\ s # {}
        BY FS_Subset, FS_EmptySet
    <2> DEFINE y == First(s)
               t == s \ {y}
    <2>2. y \in s /\ y \in S
        BY <2>1 DEF First
    <2>3. Cardinality(t) = n /\ t \in SUBSET S
        <3> HIDE DEF y
        <3>1. Cardinality(t) = Cardinality(s) - 1
            BY <2>1, <2>2, FS_RemoveElement
        <3> QED BY <3>1
    <2>4. Compare(t)
        BY <1>2, <2>3
    <2>5. f[s] = F[y] + f[t] /\ g[s] = G[y] + g[t]
        BY <1>0, <2>1
    <2>6. F[y] \in Int /\ G[y] \in Int /\ F[y] <= G[y]
        BY <2>2
    <2>7. \A x \in s : x = y \/ x \in t
        OBVIOUS
    <2>8. t \subseteq s
        OBVIOUS
    <2> HIDE DEF y, t
    <2>9. f[s] \in Int /\ g[s] \in Int /\ f[s] <= g[s]
        BY <2>4, <2>5, <2>6
    <2>10. (\E x \in s : F[x] < G[x]) => f[s] < g[s]
        <3>1. ASSUME NEW x \in s, F[x] < G[x] PROVE f[s] < g[s]
            <4>1. CASE x = y
                BY <2>4, <2>5, <2>6, <3>1, <4>1
            <4>2. CASE x \in t
                <5>1. f[t] < g[t]
                    BY <2>4, <3>1, <4>2
                <5> QED BY <2>4, <2>5, <2>6, <5>1
            <4> QED BY <2>7, <4>1, <4>2
        <3> QED BY <3>1
    <2>11. (\A x \in s : F[x] = 0) => f[s] = 0
        <3>1. ASSUME \A x \in s : F[x] = 0 PROVE f[s] = 0
            <4>1. f[t] = 0 /\ F[y] = 0
                BY <2>2, <2>4, <2>8, <3>1
            <4> QED BY <2>5, <4>1
        <3> QED BY <3>1
    <2> QED BY <2>9, <2>10, <2>11
<1>3. Cardinality(S) \in A
    <2> HIDE DEF A
    <2> QED BY <1>1, <1>2, NatInduct, FS_CardinalityType
<1> QED BY <1>3

\* A finite set of numbers has a least one.
LEMMA FiniteMin ==
    ASSUME NEW S, S \subseteq Int, IsFiniteSet(S), S # {}
    PROVE  Min(S) \in S /\ \A n \in S : Min(S) <= n
<1> DEFINE f == [n \in S |-> -n]
           T == {-n : n \in S}
<1>1. T \subseteq Int /\ T # {}
    <2>1. \A n \in S : -n \in Int
        OBVIOUS
    <2>2. PICK n \in S : TRUE
        OBVIOUS
    <2> QED BY <2>1, <2>2
<1>2. IsFiniteSet(T)
    <2>1. f \in Surjection(S, T)
        BY DEF Surjection
    <2> HIDE DEF f, T
    <2> QED BY <2>1, FS_Surjection
<1>3. PICK m \in T : \A n \in T : m >= n
    <2> HIDE DEF T
    <2> QED BY <1>1, <1>2, FiniteMax
<1>4. PICK k \in S : m = -k
    OBVIOUS
<1>5. \A n \in S : k <= n
    <2>1. ASSUME NEW n \in S PROVE k <= n
        <3>1. m >= -n
            BY <1>3
        <3>2. k \in Int /\ n \in Int
            OBVIOUS
        <3> QED BY <1>4, <3>1, <3>2
    <2> QED BY <2>1
<1> QED
    BY <1>5 DEF Min

\* The least and the greatest of some numbers, each of one of a finite set's members.
LEMMA LeastOf ==
    ASSUME NEW S, IsFiniteSet(S), S # {}, NEW F \in [S -> Int],
           NEW T, T = Range(F)
    PROVE  Min(T) \in Int /\ (\E i \in S : Min(T) = F[i]) /\ \A i \in S : Min(T) <= F[i]
<1>0. T = {F[i] : i \in S}
    BY DEF Range
<1>1. T \subseteq Int /\ T # {}
    BY <1>0
<1>2. IsFiniteSet(T)
    <2>1. F \in Surjection(S, T)
        BY <1>0 DEF Surjection
    <2> QED BY <2>1, FS_Surjection
<1>3. Min(T) \in T /\ \A n \in T : Min(T) <= n
    BY <1>1, <1>2, FiniteMin
<1> QED BY <1>0, <1>1, <1>3

LEMMA MostOf ==
    ASSUME NEW S, IsFiniteSet(S), S # {}, NEW F \in [S -> Int],
           NEW T, T = Range(F)
    PROVE  Max(T) \in Int /\ (\E i \in S : Max(T) = F[i]) /\ \A i \in S : Max(T) >= F[i]
<1>0. T = {F[i] : i \in S}
    BY DEF Range
<1>1. T \subseteq Int /\ T # {}
    BY <1>0
<1>2. IsFiniteSet(T)
    <2>1. F \in Surjection(S, T)
        BY <1>0 DEF Surjection
    <2> QED BY <2>1, FS_Surjection
<1>3. Max(T) \in T /\ \A n \in T : Max(T) >= n
    BY <1>1, <1>2, FiniteMax
<1> QED BY <1>0, <1>1, <1>3

-----------------------------------------------------------------------------
(* Products and quotients *)

LEMMA QuotientIsPositive ==
    ASSUME NEW x \in Nat, NEW d \in Nat \ {0}, d <= x
    PROVE  x \div d \in Nat \ {0}
<1>1. d \div d <= x \div d /\ x \div d \in Nat
    BY QuotientsGrow
<1>2. d \div d = 1
    BY SMT
<1> QED BY <1>1, <1>2

LEMMA ExactQuotient ==
    ASSUME NEW x \in Nat \ {0}, NEW d \in Nat \ {0}, x % d = 0
    PROVE  x \div d \in Nat \ {0} /\ x = d * (x \div d)
<1> DEFINE q == x \div d
<1>1. q \in Int /\ x = (d * q) + (x % d)
    BY SMT
<1>2. x = d * q
    BY <1>1
<1> HIDE DEF q
<1>3. q > 0
    <2>1. CASE q <= 0
        <3>1. d * q <= d * 0
            BY <1>1, <2>1, Monotone
        <3> QED BY <1>2, <3>1
    <2> QED BY <1>1, <2>1
<1> QED BY <1>1, <1>2, <1>3 DEF q

LEMMA ProductGrows ==
    ASSUME NEW a \in Nat \ {0}, NEW b \in Nat \ {0}
    PROVE  a * b \in Nat \ {0} /\ a <= a * b /\ b <= a * b
<1> DEFINE one == 1
<1>1. one \in Int /\ one <= b /\ one <= a
    OBVIOUS
<1>2. a * one = a /\ b * one = b
    OBVIOUS
<1> HIDE DEF one
<1>3. a * one <= a * b /\ b * one <= b * a /\ a * b \in Int
    BY <1>1, Monotone
<1>4. b * a = a * b
    OBVIOUS
<1> QED BY <1>2, <1>3, <1>4

LEMMA Cancels ==
    ASSUME NEW d \in Nat \ {0}, NEW a \in Int, NEW b \in Int, d * a <= d * b
    PROVE  a <= b
<1> SUFFICES ASSUME b + 1 <= a PROVE FALSE
    OBVIOUS
<1> DEFINE c == b + 1
           one == 1
<1>1. c \in Int /\ one \in Int /\ c <= a /\ d * one = d
    OBVIOUS
<1>2. d * b + d * one = d * c
    BY Distributes
<1> HIDE DEF c
<1>3. d * c <= d * a /\ d * c \in Int /\ d * a \in Int
    BY <1>1, Monotone
<1>4. d * b \in Int
    OBVIOUS
<1> QED BY <1>1, <1>2, <1>3, <1>4

=============================================================================
