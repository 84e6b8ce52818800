---------------------------- MODULE ModelProofs ----------------------------
(***************************************************************************)
(* Facts about sets of requests and the tokens they hold, which the proofs *)
(* about Serving and Engine share.                                         *)
(***************************************************************************)
EXTENDS Model, FiniteSetTheorems, TLAPS

(* The requests of a set that share a prefix are finitely many.            *)
LEMMA UsersFinite ==
  ASSUME NEW S \in SUBSET Requests, NEW p
  PROVE  /\ IsFiniteSet(Users(S, p))
         /\ Cardinality(Users(S, p)) \in Nat
         /\ Users(S, p) \subseteq S
  <1>1. Users(S, p) \subseteq Requests /\ Users(S, p) \subseteq S
    BY DEF Users
  <1>2. IsFiniteSet(Users(S, p))
    BY <1>1, ModelAssumption, FS_Subset
  <1> QED
    BY <1>1, <1>2, FS_CardinalityType

(* The numbers that a finite set is given have a greatest.                 *)
LEMMA GreatestValue ==
  ASSUME NEW S, IsFiniteSet(S), S # {}, NEW g, \A s \in S : g[s] \in Int
  PROVE  \E r \in S : \A s \in S : g[s] <= g[r]
  <1> DEFINE above(r) == {s \in S : g[s] > g[r]}
             T == {above(r) : r \in S}
  <1>2. T \subseteq FiniteSubsetsOf(S) /\ T # {}
    <2>1. \A r \in S : above(r) \in FiniteSubsetsOf(S)
      <3> SUFFICES ASSUME NEW r \in S PROVE above(r) \in FiniteSubsetsOf(S)
        OBVIOUS
      <3>1. above(r) \in SUBSET S
        OBVIOUS
      <3> HIDE DEF above
      <3> QED
        BY <3>1, FS_Subset DEF FiniteSubsetsOf
    <2> HIDE DEF above
    <2> QED
      BY <2>1
  <1>3. IsWellFoundedOn(StrictSubsetOrdering(S), FiniteSubsetsOf(S))
    BY FS_StrictSubsetOrderingWellFounded
  <1> HIDE DEF T
  <1>4. PICK x \in T : \A y \in T : ~(<<y, x>> \in StrictSubsetOrdering(S))
    BY <1>2, <1>3, WFMin
  <1>5. PICK r \in S : x = above(r)
    BY <1>4 DEF T
  <1>6. ASSUME NEW s \in S, g[s] > g[r] PROVE FALSE
    <2>1. above(s) \subseteq above(r) /\ s \in above(r) /\ s \notin above(s)
      BY <1>6
    <2>2. above(s) \in T /\ above(s) \in SUBSET S /\ above(r) \in SUBSET S
      BY DEF T
    <2> HIDE DEF above
    <2> QED
      BY <1>4, <1>5, <2>1, <2>2 DEF StrictSubsetOrdering
  <1>7. \A s \in S : g[s] <= g[r]
    <2>1. \A s \in S : g[s] \in Int /\ g[r] \in Int
      OBVIOUS
    <2> QED
      BY <1>6, <2>1
  <1> QED
    BY <1>7

(* A set of requests has a most advanced one.                              *)
LEMMA MostAdvanced ==
  ASSUME NEW S \in SUBSET Requests, S # {}, NEW g \in [Requests -> Nat]
  PROVE  \E r \in S : \A s \in S : g[s] <= g[r]
  <1>1. IsFiniteSet(S) /\ \A s \in S : g[s] \in Int
    BY ModelAssumption, FS_Subset
  <1> QED
    BY <1>1, GreatestValue

-----------------------------------------------------------------------------
(* Sums of token counts.                                                   *)
LEMMA SumType ==
  ASSUME NEW S, IsFiniteSet(S), NEW f, \A x \in S : f[x] \in Nat
  PROVE  IsFiniteSet(Slots(S, f)) /\ TokenSum(S, f) \in Nat
  <1> DEFINE slot == [x \in S |-> {x} \X (1..f[x])]
             T == {slot[x] : x \in S}
  <1>1. IsFiniteSet(T)
    <2>1. slot \in Surjection(S, T)
      BY DEF Surjection
    <2> QED
      BY <2>1, FS_Surjection
  <1>2. \A t \in T : IsFiniteSet(t)
    <2> SUFFICES ASSUME NEW x \in S PROVE IsFiniteSet({x} \X (1..f[x]))
      OBVIOUS
    <2>1. IsFiniteSet({x})
      BY FS_Singleton
    <2>2. IsFiniteSet(1..f[x])
      <3>1. f[x] \in Int
        OBVIOUS
      <3> QED
        BY <3>1, FS_Interval
    <2> QED
      BY <2>1, <2>2, FS_Product
  <1>3. Slots(S, f) = UNION T
    BY DEF Slots
  <1>4. IsFiniteSet(Slots(S, f))
    BY <1>1, <1>2, <1>3, FS_UNION
  <1> QED
    BY <1>4, FS_CardinalityType DEF TokenSum

LEMMA SumEmpty == \A f : TokenSum({}, f) = 0
  BY FS_EmptySet DEF TokenSum, Slots

LEMMA SumEqual ==
  ASSUME NEW S, NEW f, NEW g, \A x \in S : f[x] = g[x]
  PROVE  TokenSum(S, f) = TokenSum(S, g)
  <1>1. Slots(S, f) = Slots(S, g)
    BY DEF Slots
  <1> QED
    BY <1>1 DEF TokenSum

LEMMA SumMonotone ==
  ASSUME NEW S, IsFiniteSet(S), NEW f, NEW g,
         \A x \in S : f[x] \in Nat /\ g[x] \in Nat /\ f[x] <= g[x]
  PROVE  TokenSum(S, f) <= TokenSum(S, g)
  <1>1. \A x \in S : 1..f[x] \subseteq 1..g[x]
    OBVIOUS
  <1>2. Slots(S, f) \subseteq Slots(S, g)
    BY <1>1 DEF Slots
  <1>3. IsFiniteSet(Slots(S, g))
    BY SumType
  <1> QED
    BY <1>2, <1>3, FS_Subset DEF TokenSum

LEMMA SumUnion ==
  ASSUME NEW S, IsFiniteSet(S), NEW T, IsFiniteSet(T), S \cap T = {},
         NEW f, \A x \in S \cup T : f[x] \in Nat
  PROVE  TokenSum(S \cup T, f) = TokenSum(S, f) + TokenSum(T, f)
  <1>1. Slots(S \cup T, f) = Slots(S, f) \cup Slots(T, f)
    BY DEF Slots
  <1>2. Slots(S, f) \cap Slots(T, f) = {}
    BY DEF Slots
  <1>3. IsFiniteSet(Slots(S, f)) /\ IsFiniteSet(Slots(T, f))
    BY SumType
  <1> DEFINE A == Slots(S, f)
             B == Slots(T, f)
  <1>4. Cardinality(A) \in Nat /\ Cardinality(B) \in Nat
    BY <1>3, FS_CardinalityType
  <1> HIDE DEF A, B
  <1>5. Cardinality(A \cup B) = Cardinality(A) + Cardinality(B) - Cardinality({})
    BY <1>2, <1>3, FS_Union DEF A, B
  <1>6. Cardinality(A \cup B) = Cardinality(A) + Cardinality(B)
    BY <1>4, <1>5, FS_EmptySet
  <1> QED
    BY <1>1, <1>6 DEF TokenSum, A, B

LEMMA SumZero ==
  ASSUME NEW S, NEW f, \A x \in S : f[x] = 0
  PROVE  TokenSum(S, f) = 0
  <1>1. Slots(S, f) = {}
    <2> SUFFICES ASSUME NEW x \in S PROVE {x} \X (1..f[x]) = {}
      BY DEF Slots
    <2>1. 1..f[x] = {}
      OBVIOUS
    <2> QED
      BY <2>1
  <1> QED
    BY <1>1, FS_EmptySet DEF TokenSum

LEMMA SumSingle ==
  ASSUME NEW x, NEW f, f[x] \in Nat
  PROVE  TokenSum({x}, f) = f[x]
  <1>1. Slots({x}, f) = {x} \X (1..f[x])
    BY DEF Slots
  <1>2. IsFiniteSet({x}) /\ Cardinality({x}) = 1
    BY FS_Singleton
  <1>3. IsFiniteSet(1..f[x]) /\ Cardinality(1..f[x]) = f[x]
    BY FS_Interval
  <1>4. Cardinality({x} \X (1..f[x])) = 1 * f[x]
    BY <1>2, <1>3, FS_Product
  <1>5. Cardinality({x} \X (1..f[x])) = f[x]
    BY <1>4
  <1> QED
    BY <1>1, <1>5 DEF TokenSum

LEMMA SumAdd ==
  ASSUME NEW S, IsFiniteSet(S), NEW x, x \notin S,
         NEW f, \A y \in S \cup {x} : f[y] \in Nat
  PROVE  TokenSum(S \cup {x}, f) = TokenSum(S, f) + f[x]
  <1>1. IsFiniteSet({x}) /\ S \cap {x} = {} /\ f[x] \in Nat
    BY FS_Singleton
  <1>2. TokenSum(S \cup {x}, f) = TokenSum(S, f) + TokenSum({x}, f)
    BY <1>1, SumUnion
  <1> QED
    BY <1>1, <1>2, SumSingle

(* The tokens of a set of requests are finitely many.                      *)
LEMMA SumOfRequests ==
  ASSUME NEW S \in SUBSET Requests, NEW f \in [Requests -> Nat]
  PROVE  IsFiniteSet(S) /\ TokenSum(S, f) \in Nat
  <1>1. IsFiniteSet(S) /\ \A x \in S : f[x] \in Nat
    BY ModelAssumption, FS_Subset
  <1> QED
    BY <1>1, SumType

LEMMA WorstType == WorstTokens \in [Requests -> Nat]
  BY ModelAssumption DEF WorstTokens
=============================================================================
