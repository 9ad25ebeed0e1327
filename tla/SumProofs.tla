------------------------------ MODULE SumProofs ------------------------------
(***************************************************************************)
(* What SumFunctionOnSet computes, for the proofs about totals of bytes,   *)
(* costs and counts.  A sum of naturals over a finite set is the number of *)
(* its units, pairs of an element and a number up to its value, so that    *)
(* facts about sums are facts about Cardinality.                           *)
(***************************************************************************)
EXTENDS Functions, FiniteSetTheorems, TLAPS

LEMMA LeastNumber ==
  ASSUME NEW T \in SUBSET Nat, T # {}
  PROVE  \E n \in T : \A m \in T : n <= m
  <1>1. PICK n \in T : \A m \in T : <<m, n>> \notin OpToRel(<, Nat)
    BY NatLessThanWellFounded, WFMin, Zenon
  <1>2. ASSUME NEW m \in T, ~(n <= m) PROVE FALSE
    <2>1. <<m, n>> \in OpToRel(<, Nat)
      BY <1>2 DEF OpToRel
    <2> QED
      BY <1>1, <2>1
  <1> QED
    BY <1>1, <1>2

LEMMA FiniteImage ==
  ASSUME NEW f, NEW S, IsFiniteSet(S)
  PROVE  IsFiniteSet({f[x] : x \in S}) /\ Cardinality({f[x] : x \in S}) <= Cardinality(S)
  <1> DEFINE g == [x \in S |-> f[x]]
             T == {f[x] : x \in S}
  <1>1. g \in Surjection(S, T)
    BY DEF Surjection
  <1> QED
    BY <1>1, FS_Surjection

\* Every f[x] of x in the finite set S is a natural number.
Summable(f, S) == IsFiniteSet(S) /\ \A x \in S : f[x] \in Nat

Column(f, x) == {x} \X (1..f[x])

Units(f, S) == UNION {Column(f, x) : x \in S}

LEMMA ColumnIsCount ==
  ASSUME NEW f, NEW x, f[x] \in Nat
  PROVE  IsFiniteSet(Column(f, x)) /\ Cardinality(Column(f, x)) = f[x]
  <1>1. IsFiniteSet({x}) /\ Cardinality({x}) = 1
    BY FS_Singleton
  <1>2. IsFiniteSet(1..f[x]) /\ Cardinality(1..f[x]) = f[x]
    BY SMTT(30), FS_Interval
  <1>3. IsFiniteSet(Column(f, x)) /\ Cardinality(Column(f, x)) = 1 * f[x]
    BY ZenonT(30), <1>1, <1>2, FS_Product DEF Column
  <1> QED
    BY <1>3

LEMMA UnitsAreFinite ==
  ASSUME NEW f, NEW S, Summable(f, S)
  PROVE  IsFiniteSet(Units(f, S)) /\ Cardinality(Units(f, S)) \in Nat
  <1> DEFINE columns == [x \in S |-> Column(f, x)]
  <1>1. \A x \in S : IsFiniteSet(Column(f, x))
    BY ColumnIsCount DEF Summable
  <1>2. IsFiniteSet({columns[x] : x \in S})
    BY FiniteImage DEF Summable
  <1>3. Units(f, S) = UNION {columns[x] : x \in S}
    BY DEF Units
  <1>4. \A T \in {columns[x] : x \in S} : IsFiniteSet(T)
    BY <1>1
  <1>5. IsFiniteSet(Units(f, S))
    BY <1>2, <1>3, <1>4, FS_UNION
  <1> QED
    BY <1>5, FS_CardinalityType

\* The units of two disjoint sets are told apart.
LEMMA UnitsOfUnion ==
  ASSUME NEW f, NEW S, NEW T, Summable(f, S), Summable(f, T), S \cap T = {}
  PROVE  Cardinality(Units(f, S \cup T)) = Cardinality(Units(f, S)) + Cardinality(Units(f, T))
  <1>1. Units(f, S \cup T) = Units(f, S) \cup Units(f, T)
    BY DEF Units
  <1>2. Units(f, S) \cap Units(f, T) = {}
    BY DEF Units, Column
  <1>3. /\ IsFiniteSet(Units(f, S)) /\ Cardinality(Units(f, S)) \in Nat
        /\ IsFiniteSet(Units(f, T)) /\ Cardinality(Units(f, T)) \in Nat
    BY UnitsAreFinite
  <1>4. Cardinality(Units(f, S) \cap Units(f, T)) = 0
    BY <1>2, FS_EmptySet
  <1>5. Cardinality(Units(f, S) \cup Units(f, T)) =
          Cardinality(Units(f, S)) + Cardinality(Units(f, T))
            - Cardinality(Units(f, S) \cap Units(f, T))
    BY <1>3, FS_Union
  <1>6. Cardinality(Units(f, S \cup T)) = Cardinality(Units(f, S) \cup Units(f, T))
    BY <1>1, Zenon
  <1> DEFINE both == Cardinality(Units(f, S) \cup Units(f, T))
             shared == Cardinality(Units(f, S) \cap Units(f, T))
             a == Cardinality(Units(f, S))
             b == Cardinality(Units(f, T))
  <1> HIDE DEF both, shared, a, b
  <1>7. both = a + b - shared /\ shared = 0 /\ a \in Nat /\ b \in Nat
    BY <1>3, <1>4, <1>5 DEF both, shared, a, b
  <1>8. both = a + b
    BY <1>7
  <1> QED
    BY <1>6, <1>8 DEF both, a, b

LEMMA UnitsOfOne ==
  ASSUME NEW f, NEW x, f[x] \in Nat
  PROVE  Cardinality(Units(f, {x})) = f[x]
  <1>1. Units(f, {x}) = Column(f, x)
    BY DEF Units
  <1> QED
    BY <1>1, ColumnIsCount

\* The recursion a sum is computed by.
IsPartialSum(f, S, sum) ==
  sum = [s \in SUBSET S |->
           IF s = {} THEN 0
           ELSE LET x == CHOOSE x \in s : TRUE IN f[x] + sum[s \ {x}]]

LEMMA SumUnfolds ==
  ASSUME NEW f, NEW S
  PROVE  SumFunctionOnSet(f, S) = (CHOOSE sum : IsPartialSum(f, S, sum))[S]
  BY DEF SumFunctionOnSet, FoldFunctionOnSet, MapThenFoldSet, IsPartialSum

\* The numbers of units follow it.
LEMMA UnitsAreSums ==
  ASSUME NEW f, NEW S, Summable(f, S)
  PROVE  IsPartialSum(f, S, [s \in SUBSET S |-> Cardinality(Units(f, s))])
  <1> DEFINE units == [s \in SUBSET S |-> Cardinality(Units(f, s))]
  <1>1. Cardinality(Units(f, {})) = 0
    BY FS_EmptySet DEF Units
  <1>2. ASSUME NEW s \in SUBSET S, s # {}
        PROVE  LET x == CHOOSE x \in s : TRUE
               IN  units[s] = f[x] + units[s \ {x}]
    <2> DEFINE x == CHOOSE x \in s : TRUE
    <2>1. x \in s
      BY <1>2
    <2>2. Summable(f, s \ {x}) /\ Summable(f, {x})
      BY <2>1, FS_Subset DEF Summable
    <2>3. s = (s \ {x}) \cup {x} /\ (s \ {x}) \cap {x} = {}
      BY <2>1
    <2>4. Cardinality(Units(f, s)) = Cardinality(Units(f, s \ {x})) + Cardinality(Units(f, {x}))
      BY <2>2, <2>3, UnitsOfUnion
    <2>5. Cardinality(Units(f, {x})) = f[x] /\ f[x] \in Nat
      BY <2>1, UnitsOfOne DEF Summable
    <2>6. Cardinality(Units(f, s \ {x})) \in Nat
      BY <2>2, UnitsAreFinite
    <2> QED
      BY <2>1, <2>4, <2>5, <2>6
  <1>3. \A s \in SUBSET S :
          units[s] = IF s = {} THEN 0
                     ELSE LET x == CHOOSE x \in s : TRUE IN f[x] + units[s \ {x}]
    BY <1>1, <1>2
  <1> QED
    BY <1>3 DEF IsPartialSum

\* Nothing else does: a least set where another differed would differ in a smaller one.
LEMMA SumsAreUnique ==
  ASSUME NEW f, NEW S, Summable(f, S), NEW sum, IsPartialSum(f, S, sum),
         NEW other, IsPartialSum(f, S, other)
  PROVE  sum[S] = other[S]
  <1> DEFINE Apart == {s \in SUBSET S : sum[s] # other[s]}
             size == [s \in SUBSET S |-> Cardinality(s)]
             Sizes == {size[s] : s \in Apart}
  <1>1. \A s \in SUBSET S : IsFiniteSet(s) /\ Cardinality(s) \in Nat
    BY FS_Subset, FS_CardinalityType DEF Summable
  <1>2. SUFFICES ASSUME Apart # {} PROVE FALSE
    OBVIOUS
  <1>3. PICK n \in Sizes : \A m \in Sizes : n <= m
    <2>1. Sizes \in SUBSET Nat /\ Sizes # {}
      BY <1>1, <1>2
    <2> QED
      BY <2>1, LeastNumber
  <1>4. PICK s \in Apart : n = Cardinality(s)
    BY <1>3
  <1>5. /\ sum[s] = IF s = {} THEN 0
                    ELSE LET x == CHOOSE x \in s : TRUE IN f[x] + sum[s \ {x}]
        /\ other[s] = IF s = {} THEN 0
                      ELSE LET x == CHOOSE x \in s : TRUE IN f[x] + other[s \ {x}]
    BY <1>4 DEF IsPartialSum
  <1>6. s # {}
    BY <1>4, <1>5
  <1> DEFINE x == CHOOSE x \in s : TRUE
  <1>7. x \in s /\ s \ {x} \in SUBSET S
    BY <1>6
  <1>8. Cardinality(s \ {x}) = n - 1 /\ n \in Nat
    BY <1>1, <1>4, <1>7, FS_RemoveElement
  <1>9. s \ {x} \in Apart
    BY <1>4, <1>5, <1>6, <1>7
  <1> QED
    BY <1>1, <1>3, <1>7, <1>8, <1>9

\* What Functions adds up is how many units there are, for a finite set and natural
\* values: the sums of bytes, costs and outcomes the models take.
LEMMA SumIsCount ==
  ASSUME NEW f, NEW S, Summable(f, S)
  PROVE  SumFunctionOnSet(f, S) = Cardinality(Units(f, S))
  <1> DEFINE units == [s \in SUBSET S |-> Cardinality(Units(f, s))]
             sum == CHOOSE sum : IsPartialSum(f, S, sum)
  <1>1. IsPartialSum(f, S, units)
    BY UnitsAreSums
  <1>2. IsPartialSum(f, S, sum)
    BY <1>1, Zenon
  <1>3. sum[S] = units[S]
    BY <1>1, <1>2, SumsAreUnique, Zenon
  <1>4. SumFunctionOnSet(f, S) = sum[S]
    BY SumUnfolds, Zenon
  <1> QED
    BY <1>3, <1>4

LEMMA SumIsNatural ==
  ASSUME NEW f, NEW S, Summable(f, S)
  PROVE  SumFunctionOnSet(f, S) \in Nat
  BY SumIsCount, UnitsAreFinite

LEMMA SumOfNone ==
  ASSUME NEW f
  PROVE  SumFunctionOnSet(f, {}) = 0
  <1>1. Summable(f, {}) /\ Units(f, {}) = {}
    BY FS_EmptySet DEF Summable, Units
  <1> QED
    BY <1>1, SumIsCount, FS_EmptySet

LEMMA SumOfUnion ==
  ASSUME NEW f, NEW S, NEW T, Summable(f, S), Summable(f, T), S \cap T = {}
  PROVE  SumFunctionOnSet(f, S \cup T) = SumFunctionOnSet(f, S) + SumFunctionOnSet(f, T)
  <1>1. Summable(f, S \cup T)
    BY FS_Union DEF Summable
  <1> QED
    BY <1>1, SumIsCount, UnitsOfUnion

LEMMA SumWithOne ==
  ASSUME NEW f, NEW S, NEW x, Summable(f, S), f[x] \in Nat, x \notin S
  PROVE  SumFunctionOnSet(f, S \cup {x}) = SumFunctionOnSet(f, S) + f[x]
  <1>1. Summable(f, {x})
    BY FS_Singleton DEF Summable
  <1>2. SumFunctionOnSet(f, {x}) = f[x]
    BY <1>1, SumIsCount, UnitsOfOne
  <1> QED
    BY <1>1, <1>2, SumOfUnion

\* A sum over fewer elements, each of no more than its value there, is no greater.
LEMMA SumAtMost ==
  ASSUME NEW f, NEW g, NEW S, NEW T, Summable(f, S), Summable(g, T), S \subseteq T,
         \A x \in S : f[x] <= g[x]
  PROVE  SumFunctionOnSet(f, S) <= SumFunctionOnSet(g, T)
  <1>1. Units(f, S) \subseteq Units(g, T)
    <2>1. ASSUME NEW x \in S PROVE Column(f, x) \subseteq Column(g, x)
      BY <2>1 DEF Column, Summable
    <2> QED
      BY <2>1 DEF Units
  <1> QED
    BY <1>1, SumIsCount, UnitsAreFinite, FS_Subset

LEMMA SumOfEquals ==
  ASSUME NEW f, NEW g, NEW S, Summable(f, S), \A x \in S : f[x] = g[x]
  PROVE  SumFunctionOnSet(f, S) = SumFunctionOnSet(g, S)
  <1>1. Units(f, S) = Units(g, S)
    BY DEF Units, Column
  <1> QED
    BY <1>1, SumIsCount DEF Summable

\* Elements of no value can be left out.
LEMMA SumWithoutZeros ==
  ASSUME NEW f, NEW S, NEW T, Summable(f, T), S \subseteq T, \A x \in T \ S : f[x] = 0
  PROVE  SumFunctionOnSet(f, S) = SumFunctionOnSet(f, T)
  <1>1. Summable(f, S)
    BY FS_Subset DEF Summable
  <1>2. \A x \in T \ S : Column(f, x) = {}
    BY DEF Column
  <1>3. Units(f, S) = Units(f, T)
    BY <1>2 DEF Units
  <1> QED
    BY <1>1, <1>3, SumIsCount

\* A finite set of naturals that is not empty has a greatest number.
LEMMA GreatestNumber ==
  ASSUME NEW T \in SUBSET Nat, IsFiniteSet(T), T # {}
  PROVE  \E n \in T : \A m \in T : m <= n
  <1> DEFINE id == [x \in T |-> x]
             b == SumFunctionOnSet(id, T)
             Bounds == {n \in Nat : \A m \in T : m <= n}
  <1>1. b \in Nat /\ \A m \in T : m <= b
    <2>1. Summable(id, T)
      BY DEF Summable
    <2>2. ASSUME NEW m \in T PROVE m <= b
      <3>1. Summable(id, {m}) /\ SumFunctionOnSet(id, {m}) = m
        BY FS_Singleton, SumIsCount, UnitsOfOne DEF Summable
      <3>2. SumFunctionOnSet(id, {m}) <= b
        BY <2>1, <3>1, SumAtMost
      <3> QED
        BY <3>1, <3>2
    <2> QED
      BY <2>1, <2>2, SumIsNatural
  <1> HIDE DEF b
  <1>2. PICK n \in Bounds : \A m \in Bounds : n <= m
    <2>1. b \in Bounds
      BY <1>1
    <2> QED
      BY <2>1, LeastNumber
  <1>3. ASSUME n \notin T PROVE FALSE
    <2>0. n \in Nat /\ \A m \in T : m <= n /\ m # n /\ m \in Nat
      BY <1>3
    <2>1. n # 0 /\ \A m \in T : m <= n - 1
      <3>1. PICK m \in T : TRUE
        OBVIOUS
      <3>2. n > 0
        BY <2>0, <3>1
      <3> QED
        BY <2>0, <3>2
    <2>2. n - 1 \in Bounds
      BY <2>0, <2>1
    <2> QED
      BY <1>2, <2>0, <2>1, <2>2
  <1> QED
    BY <1>3
=============================================================================
