----------------------------- MODULE FoldProofs -----------------------------
(***************************************************************************)
(* What a fold over a sequence computes, turn by turn: the loops of the    *)
(* other modules are folds, and their proofs instantiate this module with  *)
(* the body of the loop.  FoldLeft recurs over the subsets of the domain   *)
(* of its sequence, taking the greatest index away.  The sum of a finite   *)
(* set recurs over its subsets, taking any element away.                   *)
(***************************************************************************)
EXTENDS Integers, FiniteSetTheorems, TLAPS

(* The body of a loop: what it makes, under the parameters a, of the state *)
(* x at the element e of the sequence.                                     *)
CONSTANT Step(_, _, _)

-----------------------------------------------------------------------------
LEMMA LeastNatural ==
  ASSUME NEW T \in SUBSET Nat, T # {}
  PROVE  \E m \in T : \A k \in T : m <= k
  <1> DEFINE below(m) == {k \in T : k < m}
             B == {below(m) : m \in T}
  <1>1. PICK n \in T : TRUE
    OBVIOUS
  <1>2. B \subseteq FiniteSubsetsOf(T) /\ B # {}
    <2>1. ASSUME NEW m \in T PROVE below(m) \in FiniteSubsetsOf(T)
      <3>1. m \in Int /\ \A k \in T : k \in Nat
        OBVIOUS
      <3>2. IsFiniteSet(0..m)
        BY <3>1, FS_Interval
      <3>3. below(m) \in SUBSET (0..m)
        <4> SUFFICES ASSUME NEW k \in T, k < m PROVE k \in 0..m
          OBVIOUS
        <4> QED
          BY <3>1
      <3>4. IsFiniteSet(below(m))
        BY <3>2, <3>3, FS_Subset
      <3> QED
        BY <3>4 DEF FiniteSubsetsOf
    <2> QED
      BY <1>1, <2>1
  <1>3. IsWellFoundedOn(StrictSubsetOrdering(T), FiniteSubsetsOf(T))
    BY FS_StrictSubsetOrderingWellFounded
  <1> HIDE DEF B
  <1>4. PICK x \in B : \A y \in B : ~(<<y, x>> \in StrictSubsetOrdering(T))
    BY <1>2, <1>3, WFMin
  <1>5. PICK m \in T : x = below(m)
    BY <1>4 DEF B
  <1>6. ASSUME NEW k \in T, k < m PROVE FALSE
    <2>1. below(k) \subseteq below(m) /\ k \in below(m) /\ k \notin below(k)
      <3>1. k \in Int /\ m \in Int
        OBVIOUS
      <3>2. ASSUME NEW j \in T, j < k PROVE j < m
        <4>1. j \in Int
          OBVIOUS
        <4> QED
          BY <1>6, <3>1, <3>2, <4>1
      <3>3. ~(k < k)
        BY <3>1
      <3> QED
        BY <1>6, <3>2, <3>3
    <2>2. below(k) \in B /\ below(k) \in SUBSET T /\ below(m) \in SUBSET T
      BY DEF B
    <2> HIDE DEF below
    <2> QED
      BY <1>4, <1>5, <2>1, <2>2 DEF StrictSubsetOrdering
  <1>7. \A k \in T : m <= k
    BY <1>6
  <1> QED
    BY <1>7

(* Induction up to a bound, over the set of the numbers it has reached.    *)
LEMMA UpTo ==
  ASSUME NEW N \in Nat, NEW T, 0 \in T,
         \A n \in 1..N : n - 1 \in T => n \in T
  PROVE  \A n \in 0..N : n \in T
  <1> DEFINE missing == {n \in 0..N : n \notin T}
  <1>1. CASE missing # {}
    <2>1. missing \in SUBSET Nat
      OBVIOUS
    <2> HIDE DEF missing
    <2>2. PICK m \in missing : \A k \in missing : m <= k
      BY <1>1, <2>1, LeastNatural
    <2>3. m \in 0..N /\ m \notin T
      BY DEF missing
    <2>4. m - 1 \in 0..N /\ m \in 1..N
      BY <2>3
    <2>5. m - 1 \in T
      BY <2>1, <2>2, <2>4 DEF missing
    <2> QED
      BY <2>3, <2>4, <2>5
  <1> QED
    BY <1>1

-----------------------------------------------------------------------------
Greatest(s) == CHOOSE m \in s : \A k \in s : m >= k

LEMMA GreatestOfInterval ==
  ASSUME NEW n \in Nat, NEW s \in SUBSET (1..n), n \in s
  PROVE  Greatest(s) = n
  <1>1. \A k \in s : n >= k
    OBVIOUS
  <1>2. \A m \in s : (\A k \in s : m >= k) => m = n
    OBVIOUS
  <1> QED
    BY <1>1, <1>2 DEF Greatest

LEMMA GreatestInside ==
  ASSUME NEW n \in Nat, NEW s \in SUBSET (1..n), s # {}
  PROVE  Greatest(s) \in s
  <1> DEFINE T == {k \in Nat : \A j \in s : j <= k}
  <1>1. n \in T
    OBVIOUS
  <1>2. PICK m \in T : \A k \in T : m <= k
    <2>1. T \in SUBSET Nat /\ T # {}
      BY <1>1
    <2> HIDE DEF T
    <2> QED
      BY <2>1, LeastNatural
  <1>3. m \in s
    <2>1. PICK j \in s : TRUE
      OBVIOUS
    <2>2. m >= 1
      BY <2>1
    <2>3. SUFFICES ASSUME m \notin s PROVE FALSE
      OBVIOUS
    <2>4. \A i \in s : i <= m - 1
      BY <2>3
    <2>5. m - 1 \in T
      BY <2>2, <2>4
    <2> QED
      BY <1>2, <2>5
  <1> QED
    BY <1>3 DEF Greatest

Folds(f, a, base, q, N) ==
  f = [s \in SUBSET (1..N) |->
         IF s = {} THEN base
         ELSE Step(a, f[s \ {Greatest(s)}], q[Greatest(s)])]

(* A fold is well defined, whatever its body does.                         *)
LEMMA FoldExists ==
  ASSUME NEW a, NEW base, NEW q, NEW N \in Nat
  PROVE  \E f : Folds(f, a, base, q, N)
  <1> DEFINE T == {n \in 0..N : \E f : Folds(f, a, base, q, n)}
  <1>1. 0 \in T
    <2> DEFINE f == [s \in SUBSET (1..0) |-> base]
    <2>1. \A s \in SUBSET (1..0) : s = {}
      OBVIOUS
    <2>2. Folds(f, a, base, q, 0)
      BY <2>1 DEF Folds
    <2> QED
      BY <2>2
  <1>2. ASSUME NEW n \in 1..N, n - 1 \in T PROVE n \in T
    <2>1. PICK f : Folds(f, a, base, q, n - 1)
      BY <1>2
    <2> DEFINE g == [s \in SUBSET (1..n) |->
                       IF n \in s THEN Step(a, f[s \ {n}], q[n]) ELSE f[s]]
               made(s) == IF s = {} THEN base
                          ELSE Step(a, g[s \ {Greatest(s)}], q[Greatest(s)])
    <2>2. ASSUME NEW s \in SUBSET (1..n) PROVE g[s] = made(s)
      <3>1. CASE n \in s
        <4>1. Greatest(s) = n
          BY <3>1, GreatestOfInterval
        <4>2. s \ {n} \in SUBSET (1..n) /\ n \notin s \ {n}
          OBVIOUS
        <4>3. g[s \ {n}] = f[s \ {n}]
          BY <4>2
        <4> QED
          BY <3>1, <4>1, <4>3
      <3>2. CASE n \notin s
        <4>1. s \in SUBSET (1..(n - 1))
          BY <3>2
        <4>2. g[s] = f[s]
          BY <3>2
        <4>3. f[s] = IF s = {} THEN base
                     ELSE Step(a, f[s \ {Greatest(s)}], q[Greatest(s)])
          BY <2>1, <4>1 DEF Folds
        <4>4. g[s \ {Greatest(s)}] = f[s \ {Greatest(s)}]
          BY <3>2
        <4> QED
          BY <4>2, <4>3, <4>4
      <3> QED
        BY <3>1, <3>2
    <2>3. g = [s \in SUBSET (1..n) |-> made(s)]
      BY <2>2
    <2>4. Folds(g, a, base, q, n)
      BY <2>3 DEF Folds
    <2> HIDE DEF g
    <2> QED
      BY <2>4
  <1> HIDE DEF T
  <1>3. N \in T
    BY <1>1, <1>2, UpTo
  <1> QED
    BY <1>3 DEF T

(* Its value on the first n indices is what n turns of the loop make.      *)
LEMMA FoldTurns ==
  ASSUME NEW a, NEW base, NEW q, NEW N \in Nat,
         NEW f, Folds(f, a, base, q, N)
  PROVE  /\ f[{}] = base
         /\ \A n \in 1..N : f[1..n] = Step(a, f[1..(n - 1)], q[n])
  <1>1. f[{}] = base
    BY DEF Folds
  <1>2. ASSUME NEW n \in 1..N
        PROVE  f[1..n] = Step(a, f[1..(n - 1)], q[n])
    <2>1. Greatest(1..n) = n
      BY GreatestOfInterval
    <2>2. (1..n) \ {n} = 1..(n - 1)
      OBVIOUS
    <2>3. 1..n \in SUBSET (1..N) /\ 1..n # {}
      OBVIOUS
    <2> QED
      BY <2>1, <2>2, <2>3 DEF Folds
  <1> QED
    BY <1>1, <1>2

FoldOf(result, a, base, q, N) ==
  \E f : Folds(f, a, base, q, N) /\ result = f[1..N]

(* A loop over N elements goes from its base to its result in N turns.     *)
LEMMA LoopTurns ==
  ASSUME NEW a, NEW base, NEW q, NEW N \in Nat, NEW result,
         FoldOf(result, a, base, q, N)
  PROVE  \E h : /\ h[0] = base
                /\ \A n \in 1..N : h[n] = Step(a, h[n - 1], q[n])
                /\ result = h[N]
  <1>1. PICK f : Folds(f, a, base, q, N) /\ result = f[1..N]
    BY DEF FoldOf
  <1>2. /\ f[{}] = base
        /\ \A n \in 1..N : f[1..n] = Step(a, f[1..(n - 1)], q[n])
    BY <1>1, FoldTurns
  <1> DEFINE h == [n \in 0..N |-> f[1..n]]
  <1>3. \A n \in 0..N : h[n] = f[1..n]
    OBVIOUS
  <1> HIDE DEF h
  <1>4. h[0] = base
    <2>1. 1..0 = {}
      OBVIOUS
    <2> QED
      BY <1>2, <1>3, <2>1
  <1>5. \A n \in 1..N : h[n] = Step(a, h[n - 1], q[n])
    <2> SUFFICES ASSUME NEW n \in 1..N
                 PROVE  h[n] = Step(a, h[n - 1], q[n])
      OBVIOUS
    <2>1. h[n] = f[1..n] /\ h[n - 1] = f[1..(n - 1)]
      BY <1>3
    <2> QED
      BY <1>2, <2>1
  <1>6. h[N] = result
    BY <1>1, <1>3
  <1> QED
    BY <1>4, <1>5, <1>6

(* What holds at first and what each turn keeps holds of the result; R[n]  *)
(* are the states in which it holds after n turns.                         *)
LEMMA LoopInvariant ==
  ASSUME NEW a, NEW base, NEW q, NEW N \in Nat, NEW result,
         FoldOf(result, a, base, q, N),
         NEW R, base \in R[0],
         \A n \in 1..N : \A x \in R[n - 1] : Step(a, x, q[n]) \in R[n]
  PROVE  result \in R[N]
  <1>1. PICK h : /\ h[0] = base
                 /\ \A n \in 1..N : h[n] = Step(a, h[n - 1], q[n])
                 /\ result = h[N]
    BY LoopTurns
  <1> DEFINE T == {n \in 0..N : h[n] \in R[n]}
  <1>2. 0 \in T
    BY <1>1
  <1>3. ASSUME NEW n \in 1..N, n - 1 \in T PROVE n \in T
    BY <1>1, <1>3
  <1> HIDE DEF T
  <1>4. N \in T
    BY <1>2, <1>3, UpTo
  <1> QED
    BY <1>1, <1>4 DEF T

-----------------------------------------------------------------------------
(* MapThenSumSet adds the values of a set in some order: what is left is   *)
(* added to that of the element taken away first.                          *)
First(s) == CHOOSE x \in s : TRUE

Summing(F, D, f) ==
  F = [s \in D |-> IF s = {} THEN 0 ELSE f[First(s)] + F[s \ {First(s)}]]

UpToSize(S, n) == {s \in SUBSET S : Cardinality(s) <= n}

LEMMA FirstOf ==
  ASSUME NEW s, IsFiniteSet(s), s # {}
  PROVE  /\ First(s) \in s
         /\ IsFiniteSet(s \ {First(s)})
         /\ Cardinality(s \ {First(s)}) = Cardinality(s) - 1
         /\ Cardinality(s) \in Nat \ {0}
  <1>1. First(s) \in s
    BY DEF First
  <1> QED
    BY <1>1, FS_RemoveElement, FS_CardinalityType, FS_EmptySet

LEMMA SummingExists ==
  ASSUME NEW S, IsFiniteSet(S), NEW f
  PROVE  \E F : Summing(F, SUBSET S, f)
  <1> DEFINE N == Cardinality(S)
             T == {n \in 0..N : \E F : Summing(F, UpToSize(S, n), f)}
  <1>1. N \in Nat /\ \A s \in SUBSET S : IsFiniteSet(s) /\ Cardinality(s) \in Nat
    BY FS_Subset, FS_CardinalityType
  <1> HIDE DEF N
  <1>2. 0 \in T
    <2> DEFINE F == [s \in UpToSize(S, 0) |-> 0]
    <2>1. ASSUME NEW s \in UpToSize(S, 0) PROVE s = {}
      BY <1>1, FS_EmptySet DEF UpToSize
    <2>2. Summing(F, UpToSize(S, 0), f)
      BY <2>1 DEF Summing
    <2> QED
      BY <1>1, <2>2
  <1>3. ASSUME NEW n \in 1..N, n - 1 \in T PROVE n \in T
    <2>1. PICK F : Summing(F, UpToSize(S, n - 1), f)
      BY <1>3
    <2> DEFINE made(G, s) == IF s = {} THEN 0
                             ELSE f[First(s)] + G[s \ {First(s)}]
               G == [s \in UpToSize(S, n) |-> made(F, s)]
    <2>2. \A s \in UpToSize(S, n - 1) : s \in UpToSize(S, n) /\ F[s] = made(F, s)
      <3> SUFFICES ASSUME NEW s \in UpToSize(S, n - 1)
                   PROVE  s \in UpToSize(S, n) /\ F[s] = made(F, s)
        OBVIOUS
      <3>1. s \in UpToSize(S, n)
        BY <1>1 DEF UpToSize
      <3>2. F[s] = made(F, s)
        BY <2>1 DEF Summing
      <3> QED
        BY <3>1, <3>2
    <2>3. ASSUME NEW s \in UpToSize(S, n), s # {}
          PROVE  s \ {First(s)} \in UpToSize(S, n - 1)
      <3>1. s \in SUBSET S /\ IsFiniteSet(s) /\ Cardinality(s) <= n
        BY <1>1 DEF UpToSize
      <3>2. Cardinality(s \ {First(s)}) <= n - 1
        BY <2>3, <3>1, FirstOf
      <3> QED
        BY <3>1, <3>2 DEF UpToSize
    <2>4. \A s \in UpToSize(S, n) : made(F, s) = made(G, s)
      <3> SUFFICES ASSUME NEW s \in UpToSize(S, n), s # {}
                   PROVE  F[s \ {First(s)}] = G[s \ {First(s)}]
        OBVIOUS
      <3> DEFINE u == s \ {First(s)}
      <3>1. u \in UpToSize(S, n - 1)
        BY <2>3
      <3> HIDE DEF u, made
      <3>2. G[u] = made(F, u) /\ F[u] = made(F, u)
        BY <2>2, <3>1
      <3> QED
        BY <3>2 DEF u
    <2>5. G = [s \in UpToSize(S, n) |-> made(G, s)]
      <3> HIDE DEF made
      <3> QED
        BY <2>4
    <2> HIDE DEF G
    <2>6. Summing(G, UpToSize(S, n), f)
      BY <2>5 DEF Summing
    <2> QED
      BY <2>6
  <1>4. N \in T
    <2> HIDE DEF T
    <2> QED
      BY <1>1, <1>2, <1>3, UpTo
  <1>5. UpToSize(S, N) = SUBSET S
    BY FS_Subset DEF UpToSize, N
  <1> QED
    BY <1>4, <1>5

(* Integers add up to an integer.                                          *)
LEMMA SummingType ==
  ASSUME NEW S, IsFiniteSet(S), NEW f, \A x \in S : f[x] \in Int,
         NEW F, Summing(F, SUBSET S, f)
  PROVE  F[S] \in Int
  <1> DEFINE N == Cardinality(S)
             T == {n \in 0..N : \A s \in SUBSET S :
                      Cardinality(s) = n => F[s] \in Int}
  <1>1. N \in Nat /\ \A s \in SUBSET S : IsFiniteSet(s) /\ Cardinality(s) \in Nat
    BY FS_Subset, FS_CardinalityType
  <1>2. \A s \in SUBSET S :
          F[s] = IF s = {} THEN 0 ELSE f[First(s)] + F[s \ {First(s)}]
    BY DEF Summing
  <1>3. 0 \in T
    <2>1. ASSUME NEW s \in SUBSET S, Cardinality(s) = 0
          PROVE  F[s] \in Int
      <3>1. s = {}
        BY <1>1, <2>1, FS_EmptySet
      <3> QED
        BY <1>2, <3>1
    <2> QED
      BY <1>1, <2>1
  <1>4. ASSUME NEW n \in 1..N, n - 1 \in T PROVE n \in T
    <2>1. ASSUME NEW s \in SUBSET S, Cardinality(s) = n
          PROVE  F[s] \in Int
      <3>1. IsFiniteSet(s) /\ s # {}
        BY <1>1, <2>1, FS_EmptySet
      <3> DEFINE x == First(s)
                 u == s \ {First(s)}
      <3>2. x \in s /\ Cardinality(u) = n - 1 /\ u \in SUBSET S
        BY <2>1, <3>1, FirstOf
      <3>3. F[s] = f[x] + F[u]
        BY <1>2, <3>1
      <3>4. F[u] \in Int
        BY <1>4, <3>2
      <3> HIDE DEF x, u
      <3> QED
        BY <3>2, <3>3, <3>4
    <2> QED
      BY <2>1
  <1>5. N \in T
    <2> HIDE DEF T, N
    <2> QED
      BY <1>1, <1>3, <1>4, UpTo
  <1> QED
    BY <1>5
=============================================================================
