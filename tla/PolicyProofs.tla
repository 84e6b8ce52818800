---------------------------- MODULE PolicyProofs ----------------------------
(***************************************************************************)
(* What the five policies keep to, for every queue, batch and memory: a    *)
(* queue is only rearranged, and FormBatch hands out what fits.            *)
(***************************************************************************)
EXTENDS Policies, ModelProofs

-----------------------------------------------------------------------------
(* Sequences without repetition.                                           *)
LEMMA AppendNew ==
  ASSUME NEW X, NEW s \in Seq(X), NEW e \in X
  PROVE  /\ Append(s, e) \in Seq(X)
         /\ ToSet(Append(s, e)) = ToSet(s) \cup {e}
         /\ IsInjective(s) /\ e \notin ToSet(s) => IsInjective(Append(s, e))
         /\ Len(Append(s, e)) = Len(s) + 1
         /\ Append(s, e) # <<>>
  <1> DEFINE t == Append(s, e)
  <1>1. /\ t \in Seq(X) /\ Len(s) \in Nat /\ Len(t) = Len(s) + 1
        /\ DOMAIN t = 1..(Len(s) + 1) /\ DOMAIN s = 1..Len(s)
        /\ \A i \in 1..Len(s) : t[i] = s[i]
        /\ t[Len(s) + 1] = e
    OBVIOUS
  <1> HIDE DEF t
  <1>2. 1..(Len(s) + 1) = (1..Len(s)) \cup {Len(s) + 1}
    BY <1>1
  <1>3. ToSet(t) = ToSet(s) \cup {e}
    BY <1>1, <1>2 DEF ToSet
  <1>4. ASSUME IsInjective(s), e \notin ToSet(s) PROVE IsInjective(t)
    <2>1. \A i \in 1..Len(s) : s[i] # e
      BY <1>1, <1>4 DEF ToSet
    <2> QED
      BY <1>1, <1>2, <1>4, <2>1 DEF IsInjective
  <1>5. t # <<>>
    BY <1>1
  <1> QED
    BY <1>1, <1>3, <1>4, <1>5 DEF t

LEMMA MembersOf ==
  ASSUME NEW X, NEW s \in Seq(X)
  PROVE  /\ ToSet(s) \in SUBSET X
         /\ ToSet(s) = {} <=> s = <<>>
  <1>1. Len(s) \in Nat /\ DOMAIN s = 1..Len(s) /\ \A i \in 1..Len(s) : s[i] \in X
    OBVIOUS
  <1>2. ASSUME s # <<>> PROVE 1 \in DOMAIN s
    <2>1. Len(s) # 0
      BY <1>2
    <2> QED
      BY <1>1, <2>1
  <1>3. ToSet(<<>>) = {}
    BY DEF ToSet
  <1>4. s # <<>> => ToSet(s) # {}
    BY <1>2 DEF ToSet
  <1>5. ToSet(s) \in SUBSET X
    BY <1>1 DEF ToSet
  <1> QED
    BY <1>3, <1>4, <1>5

LEMMA InjectiveLength ==
  ASSUME NEW X, NEW s \in Seq(X), IsInjective(s)
  PROVE  IsFiniteSet(ToSet(s)) /\ Cardinality(ToSet(s)) = Len(s)
  <1>1. Len(s) \in Nat /\ DOMAIN s = 1..Len(s)
    OBVIOUS
  <1>2. IsFiniteSet(1..Len(s)) /\ Cardinality(1..Len(s)) = Len(s)
    BY <1>1, FS_Interval
  <1>3. /\ s \in Surjection(1..Len(s), ToSet(s))
        /\ s \in Injection(1..Len(s), ToSet(s))
    BY <1>1 DEF Surjection, Injection, ToSet, IsInjective
  <1> QED
    BY <1>2, <1>3, FS_Surjection

(* The elements a loop over q has met after n turns.                       *)
Passed(q, n) == {q[i] : i \in 1..n}

LEMMA PassedTurns ==
  ASSUME NEW X, NEW q \in Seq(X)
  PROVE  /\ Passed(q, 0) = {}
         /\ Passed(q, Len(q)) = ToSet(q)
         /\ \A n \in 1..Len(q) :
              /\ q[n] \in X /\ q[n] \in ToSet(q)
              /\ Passed(q, n) = Passed(q, n - 1) \cup {q[n]}
              /\ IsInjective(q) => q[n] \notin Passed(q, n - 1)
  <1>1. Len(q) \in Nat /\ DOMAIN q = 1..Len(q)
    OBVIOUS
  <1>2. Passed(q, 0) = {}
    <2>1. 1..0 = {}
      OBVIOUS
    <2> QED
      BY <2>1 DEF Passed
  <1>3. Passed(q, Len(q)) = ToSet(q)
    BY <1>1 DEF Passed, ToSet
  <1>4. ASSUME NEW n \in 1..Len(q)
        PROVE  /\ q[n] \in X /\ q[n] \in ToSet(q)
               /\ Passed(q, n) = Passed(q, n - 1) \cup {q[n]}
               /\ IsInjective(q) => q[n] \notin Passed(q, n - 1)
    <2>1. 1..n = (1..(n - 1)) \cup {n} /\ n \notin 1..(n - 1)
      OBVIOUS
    <2>2. q[n] \in X /\ q[n] \in ToSet(q)
      BY <1>1 DEF ToSet
    <2>3. Passed(q, n) = Passed(q, n - 1) \cup {q[n]}
      BY <2>1 DEF Passed
    <2>4. ASSUME IsInjective(q) PROVE q[n] \notin Passed(q, n - 1)
      <3>1. 1..n \subseteq DOMAIN q
        BY <1>1
      <3> QED
        BY <2>1, <2>4, <3>1 DEF Passed, IsInjective
    <2> QED
      BY <2>2, <2>3, <2>4
  <1> QED
    BY <1>2, <1>3, <1>4

-----------------------------------------------------------------------------
(* Without takes the elements of S out of q and keeps the rest.            *)
WithoutStep(S, left, r) == IF r \in S THEN left ELSE Append(left, r)
Removing == INSTANCE FoldProofs WITH Step <- WithoutStep

LEMMA WithoutFolds ==
  ASSUME NEW X, NEW q \in Seq(X), NEW S
  PROVE  Removing!FoldOf(Without(q, S), S, <<>>, q, Len(q))
  <1> DEFINE Turns(f) == f = [s \in SUBSET DOMAIN q |->
               IF s = {} THEN <<>>
               ELSE WithoutStep(S, f[s \ {Max(s)}], q[Max(s)])]
  <1>1. Len(q) \in Nat /\ DOMAIN q = 1..Len(q)
    OBVIOUS
  <1>2. \A f : Turns(f) <=> Removing!Folds(f, S, <<>>, q, Len(q))
    BY <1>1 DEF Removing!Folds, Removing!Greatest, Max
  <1>3. \A f : Turns(f) => \E g : Turns(g) /\ Without(q, S) = g[DOMAIN q]
    BY DEF Without, FoldLeft, MapThenFoldSet, WithoutStep
  <1>4. PICK f : Removing!Folds(f, S, <<>>, q, Len(q))
    BY <1>1, Removing!FoldExists
  <1> HIDE DEF Turns
  <1> QED
    BY <1>1, <1>2, <1>3, <1>4 DEF Removing!FoldOf

LEMMA WithoutKeeps ==
  ASSUME NEW X, NEW q \in Seq(X), NEW S
  PROVE  /\ Without(q, S) \in Seq(X)
         /\ ToSet(Without(q, S)) = ToSet(q) \ S
         /\ IsInjective(q) => IsInjective(Without(q, S))
  <1> DEFINE R == [n \in 0..Len(q) |->
               {s \in Seq(X) : /\ ToSet(s) = Passed(q, n) \ S
                               /\ IsInjective(q) => IsInjective(s)}]
  <1>1. Len(q) \in Nat
    OBVIOUS
  <1>2. <<>> \in R[0]
    BY <1>1, PassedTurns DEF ToSet, IsInjective
  <1>3. ASSUME NEW n \in 1..Len(q), NEW s \in R[n - 1]
        PROVE  WithoutStep(S, s, q[n]) \in R[n]
    <2>1. /\ s \in Seq(X)
          /\ ToSet(s) = Passed(q, n - 1) \ S
          /\ IsInjective(q) => IsInjective(s)
      BY <1>1
    <2>2. /\ q[n] \in X
          /\ Passed(q, n) = Passed(q, n - 1) \cup {q[n]}
          /\ IsInjective(q) => q[n] \notin Passed(q, n - 1)
      BY PassedTurns
    <2>3. /\ Append(s, q[n]) \in Seq(X)
          /\ ToSet(Append(s, q[n])) = ToSet(s) \cup {q[n]}
          /\ IsInjective(s) /\ q[n] \notin ToSet(s)
               => IsInjective(Append(s, q[n]))
      BY <2>1, <2>2, AppendNew
    <2> QED
      BY <2>1, <2>2, <2>3 DEF WithoutStep
  <1> HIDE DEF R
  <1>4. Without(q, S) \in R[Len(q)]
    BY <1>1, <1>2, <1>3, WithoutFolds, Removing!LoopInvariant
  <1> QED
    BY <1>1, <1>4, PassedTurns DEF R

(* s is some of the first n elements of q, in their order.                 *)
Subsequence(s, q, n) ==
  /\ \A i \in DOMAIN s : \E a \in 1..n : s[i] = q[a]
  /\ \A i, j \in DOMAIN s : i < j =>
       \E a, b \in 1..n : a < b /\ s[i] = q[a] /\ s[j] = q[b]

(* It keeps the order, too.                                                *)
LEMMA WithoutOrder ==
  ASSUME NEW X, NEW q \in Seq(X), NEW S
  PROVE  Subsequence(Without(q, S), q, Len(q))
  <1> DEFINE R == [n \in 0..Len(q) |-> {s \in Seq(X) : Subsequence(s, q, n)}]
  <1>1. Len(q) \in Nat
    OBVIOUS
  <1>2. <<>> \in R[0]
    BY <1>1 DEF Subsequence
  <1>3. ASSUME NEW n \in 1..Len(q), NEW s \in R[n - 1]
        PROVE  WithoutStep(S, s, q[n]) \in R[n]
    <2>1. s \in Seq(X) /\ Subsequence(s, q, n - 1) /\ q[n] \in X
      BY <1>1
    <2> HIDE DEF R
    <2>2. Subsequence(s, q, n)
      <3>1. \A a \in 1..(n - 1) : a \in 1..n
        BY <1>1
      <3> QED
        BY <2>1, <3>1 DEF Subsequence
    <2>3. Subsequence(Append(s, q[n]), q, n)
      <3> DEFINE t == Append(s, q[n])
      <3>1. /\ DOMAIN t = 1..(Len(s) + 1) /\ DOMAIN s = 1..Len(s)
            /\ Len(s) \in Nat
            /\ \A i \in 1..Len(s) : t[i] = s[i]
            /\ t[Len(s) + 1] = q[n]
        BY <2>1
      <3> HIDE DEF t
      <3>2. n \in 1..n
        BY <1>1
      <3>3. ASSUME NEW i \in DOMAIN t
            PROVE  \E a \in 1..n : t[i] = q[a]
        <4>1. CASE i \in DOMAIN s
          <5>1. t[i] = s[i]
            BY <3>1, <4>1
          <5>2. \E a \in 1..n : s[i] = q[a]
            BY <2>2, <4>1 DEF Subsequence
          <5> QED
            BY <5>1, <5>2
        <4>2. CASE i \notin DOMAIN s
          <5>1. t[i] = q[n]
            BY <3>1, <4>2
          <5> QED
            BY <3>2, <5>1
        <4> QED
          BY <4>1, <4>2
      <3>4. ASSUME NEW i \in DOMAIN t, NEW j \in DOMAIN t, i < j
            PROVE  \E a, b \in 1..n : a < b /\ t[i] = q[a] /\ t[j] = q[b]
        <4>1. i \in DOMAIN s /\ t[i] = s[i]
          BY <3>1, <3>4
        <4>2. CASE j \in DOMAIN s
          <5>1. t[j] = s[j]
            BY <3>1, <4>2
          <5>2. \E a, b \in 1..n : a < b /\ s[i] = q[a] /\ s[j] = q[b]
            BY <2>2, <3>4, <4>1, <4>2 DEF Subsequence
          <5> QED
            BY <4>1, <5>1, <5>2
        <4>3. CASE j \notin DOMAIN s
          <5>1. t[j] = q[n]
            BY <3>1, <4>3
          <5>2. PICK a \in 1..(n - 1) : s[i] = q[a]
            BY <2>1, <4>1 DEF Subsequence
          <5>3. a \in 1..n /\ a < n
            BY <1>1, <5>2
          <5> QED
            BY <3>2, <4>1, <5>1, <5>2, <5>3
        <4> QED
          BY <4>2, <4>3
      <3> QED
        BY <3>3, <3>4 DEF Subsequence, t
    <2>4. Append(s, q[n]) \in Seq(X)
      BY <2>1
    <2>5. WithoutStep(S, s, q[n]) \in {s, Append(s, q[n])}
      BY DEF WithoutStep
    <2>6. n \in 0..Len(q)
      BY <1>1
    <2>7. \A x \in Seq(X) : Subsequence(x, q, n) => x \in R[n]
      BY <2>6 DEF R
    <2> QED
      BY <2>1, <2>2, <2>3, <2>4, <2>5, <2>7
  <1> HIDE DEF R
  <1>4. Without(q, S) \in R[Len(q)]
    BY <1>1, <1>2, <1>3, WithoutFolds, Removing!LoopInvariant
  <1> QED
    BY <1>1, <1>4 DEF R

-----------------------------------------------------------------------------
(* The order in which a policy means to serve its queue: by sort key and   *)
(* arrival where the queue is kept sorted, by arrival elsewhere.           *)
SortedPolicies == {"priority", "srtf"}

Ahead(policy, r, s) ==
  IF policy \in SortedPolicies THEN Precedes(policy, r, s)
  ELSE ArrivalMs[r] < ArrivalMs[s]

InOrder(policy, q) ==
  \A i, j \in DOMAIN q : i < j => ~Ahead(policy, q[j], q[i])

LEMMA WithoutInOrder ==
  ASSUME NEW policy, NEW q \in Seq(Requests), InOrder(policy, q), NEW S
  PROVE  InOrder(policy, Without(q, S))
  <1> DEFINE t == Without(q, S)
  <1>1. Subsequence(t, q, Len(q)) /\ DOMAIN q = 1..Len(q)
    BY WithoutOrder
  <1> HIDE DEF t
  <1>2. ASSUME NEW i \in DOMAIN t, NEW j \in DOMAIN t, i < j
        PROVE  ~Ahead(policy, t[j], t[i])
    <2>1. PICK a \in 1..Len(q), b \in 1..Len(q) :
            a < b /\ t[i] = q[a] /\ t[j] = q[b]
      BY <1>1, <1>2 DEF Subsequence
    <2> QED
      BY <1>1, <2>1 DEF InOrder
  <1> QED
    BY <1>2 DEF InOrder, t

-----------------------------------------------------------------------------
(* What FormBatch has chosen so far: requests of q, each once, which       *)
(* respect the limit and fit beside the batch.                             *)
Choice(q, running, used, limit) ==
  {c \in Seq(Requests) :
     /\ IsInjective(c) /\ ToSet(c) \subseteq q
     /\ c # <<>> =>
          /\ running + Len(c) <= limit
          /\ used + TokenSum(ToSet(c), WorstTokens) <= MemoryTokens}

LEMMA ChooseOne ==
  ASSUME NEW q \in SUBSET Requests, NEW running \in Nat, NEW used \in Int,
         NEW limit \in Int, NEW c \in Choice(q, running, used, limit),
         NEW r \in Requests, r \notin ToSet(c),
         running + Len(c) < limit, FitsBeside(c, used, r)
  PROVE  Append(c, r) \in Choice(q \cup {r}, running, used, limit)
  <1>1. /\ c \in Seq(Requests) /\ IsInjective(c) /\ ToSet(c) \subseteq q
        /\ Len(c) \in Nat
    BY DEF Choice
  <1>2. /\ Append(c, r) \in Seq(Requests)
        /\ ToSet(Append(c, r)) = ToSet(c) \cup {r}
        /\ IsInjective(Append(c, r))
        /\ Len(Append(c, r)) = Len(c) + 1
    BY <1>1, AppendNew
  <1>3. running + Len(Append(c, r)) <= limit
    BY <1>1, <1>2
  <1>4. used + TokenSum(ToSet(c) \cup {r}, WorstTokens) <= MemoryTokens
    <2>1. ToSet(c) \in SUBSET Requests
      BY <1>1
    <2>2. /\ IsFiniteSet(ToSet(c)) /\ TokenSum(ToSet(c), WorstTokens) \in Nat
          /\ \A s \in ToSet(c) \cup {r} : WorstTokens[s] \in Nat
      BY <2>1, SumOfRequests, WorstType
    <2>3. TokenSum(ToSet(c) \cup {r}, WorstTokens)
            = TokenSum(ToSet(c), WorstTokens) + WorstTokens[r]
      BY <2>2, SumAdd
    <2>4. MemoryTokens \in Nat /\ WorstTokens[r] \in Nat
      BY <2>2, ModelAssumption
    <2> QED
      BY <2>2, <2>3, <2>4 DEF FitsBeside
  <1> QED
    BY <1>1, <1>2, <1>3, <1>4 DEF Choice

(* The scan, whose parameters are those of Scan.                           *)
ScanStep(a, chosen, r) ==
  IF a.running + Len(chosen) < a.limit /\ FitsBeside(chosen, a.used, r)
  THEN Append(chosen, r) ELSE chosen

Scanning == INSTANCE FoldProofs WITH Step <- ScanStep

LEMMA ScanFolds ==
  ASSUME NEW q \in Seq(Requests), NEW running, NEW used, NEW limit
  PROVE  Scanning!FoldOf(Scan(q, running, used, limit),
                         [running |-> running, used |-> used, limit |-> limit],
                         <<>>, q, Len(q))
  <1> DEFINE a == [running |-> running, used |-> used, limit |-> limit]
             Considered(c, r) ==
               IF running + Len(c) < limit /\ FitsBeside(c, used, r)
               THEN Append(c, r) ELSE c
             Turns(f) == f = [s \in SUBSET DOMAIN q |->
               IF s = {} THEN <<>>
               ELSE Considered(f[s \ {Max(s)}], q[Max(s)])]
  <1>1. Len(q) \in Nat /\ DOMAIN q = 1..Len(q)
    OBVIOUS
  <1>2. \A f : Turns(f) <=> Scanning!Folds(f, a, <<>>, q, Len(q))
    <2>1. \A c, r : Considered(c, r) = ScanStep(a, c, r)
      BY DEF ScanStep
    <2>2. \A s : Max(s) = Scanning!Greatest(s)
      BY DEF Scanning!Greatest, Max
    <2> HIDE DEF Considered, a
    <2>3. ASSUME NEW f
          PROVE  [s \in SUBSET DOMAIN q |->
                    IF s = {} THEN <<>>
                    ELSE Considered(f[s \ {Max(s)}], q[Max(s)])]
                 = [s \in SUBSET (1..Len(q)) |->
                    IF s = {} THEN <<>>
                    ELSE ScanStep(a, f[s \ {Scanning!Greatest(s)}],
                                  q[Scanning!Greatest(s)])]
      BY <1>1, <2>1, <2>2
    <2> QED
      BY <2>3 DEF Scanning!Folds
  <1>3. \A f : Turns(f)
               => \E g : Turns(g) /\ Scan(q, running, used, limit) = g[DOMAIN q]
    BY DEF Scan, FoldLeft, MapThenFoldSet
  <1>4. PICK f : Scanning!Folds(f, a, <<>>, q, Len(q))
    BY <1>1, Scanning!FoldExists
  <1> HIDE DEF Turns
  <1> QED
    BY <1>1, <1>2, <1>3, <1>4 DEF Scanning!FoldOf

(* It hands out requests that fit, and hands out none only if none fits.   *)
LEMMA ScanFits ==
  ASSUME NEW q \in Seq(Requests), IsInjective(q), NEW running \in Nat,
         NEW used \in Int, NEW limit \in Int
  PROVE  LET picked == Scan(q, running, used, limit) IN
         /\ picked \in Choice(ToSet(q), running, used, limit)
         /\ picked = <<>> /\ running < limit =>
              \A r \in ToSet(q) : WorstTokens[r] > MemoryTokens - used
  <1> DEFINE a == [running |-> running, used |-> used, limit |-> limit]
             R == [n \in 0..Len(q) |->
               {c \in Choice(Passed(q, n), running, used, limit) :
                  c = <<>> /\ running < limit =>
                    \A r \in Passed(q, n) :
                      WorstTokens[r] > MemoryTokens - used}]
  <1>0. \A c, r : ScanStep(a, c, r) =
          IF running + Len(c) < limit /\ FitsBeside(c, used, r)
          THEN Append(c, r) ELSE c
    BY DEF ScanStep
  <1>1. /\ Len(q) \in Nat
        /\ Scanning!FoldOf(Scan(q, running, used, limit), a, <<>>, q, Len(q))
    BY ScanFolds
  <1> HIDE DEF a
  <1>2. <<>> \in R[0]
    BY <1>1, PassedTurns DEF Choice, ToSet, IsInjective
  <1>3. ASSUME NEW n \in 1..Len(q), NEW c \in R[n - 1]
        PROVE  ScanStep(a, c, q[n]) \in R[n]
    <2>1. /\ c \in Choice(Passed(q, n - 1), running, used, limit)
          /\ c = <<>> /\ running < limit =>
               \A r \in Passed(q, n - 1) :
                 WorstTokens[r] > MemoryTokens - used
      BY <1>1
    <2>2. /\ q[n] \in Requests
          /\ Passed(q, n) = Passed(q, n - 1) \cup {q[n]}
          /\ q[n] \notin Passed(q, n - 1)
      BY PassedTurns
    <2>3. Passed(q, n - 1) \in SUBSET Requests
      BY <1>1, PassedTurns DEF Passed
    <2>4. c \in Seq(Requests) /\ q[n] \notin ToSet(c) /\ Len(c) \in Nat
      BY <2>1, <2>2 DEF Choice
    <2>5. CASE running + Len(c) < limit /\ FitsBeside(c, used, q[n])
      <3> DEFINE d == Append(c, q[n])
      <3>1. d \in Choice(Passed(q, n), running, used, limit)
        BY <2>1, <2>2, <2>3, <2>4, <2>5, ChooseOne
      <3>2. d # <<>>
        BY <2>2, <2>4, AppendNew
      <3>3. ScanStep(a, c, q[n]) = d
        BY <1>0, <2>5
      <3> HIDE DEF d
      <3> QED
        BY <1>1, <3>1, <3>2, <3>3
    <2>6. CASE ~(running + Len(c) < limit /\ FitsBeside(c, used, q[n]))
      <3>1. c \in Choice(Passed(q, n), running, used, limit)
        BY <2>1, <2>2 DEF Choice
      <3>2. ASSUME c = <<>>, running < limit
            PROVE  WorstTokens[q[n]] > MemoryTokens - used
        <4>1. TokenSum(ToSet(c), WorstTokens) = 0
          <5>1. ToSet(c) = {}
            BY <3>2 DEF ToSet
          <5> QED
            BY <5>1, SumEmpty
        <4>2. MemoryTokens \in Nat /\ WorstTokens[q[n]] \in Nat
          BY <2>2, ModelAssumption, WorstType
        <4>3. ~FitsBeside(c, used, q[n])
          BY <2>6, <3>2
        <4> QED
          BY <4>1, <4>2, <4>3 DEF FitsBeside
      <3> QED
        BY <1>0, <2>1, <2>2, <2>6, <3>1, <3>2
    <2> QED
      BY <2>5, <2>6
  <1> HIDE DEF R
  <1>4. Scan(q, running, used, limit) \in R[Len(q)]
    BY <1>1, <1>2, <1>3, Scanning!LoopInvariant
  <1> QED
    BY <1>1, <1>4, PassedTurns DEF R

(* The request at i was passed over: it does not fit beside what was       *)
(* chosen ahead of it, or nothing behind it is chosen.                     *)
PassedOver(q, c, i, n, used) ==
  \/ used + TokenSum((ToSet(c) \cap Passed(q, i - 1)) \cup {q[i]}, WorstTokens)
       > MemoryTokens
  \/ \A j \in (i + 1)..n : q[j] \notin ToSet(c)

LEMMA MisfitSum ==
  ASSUME NEW c \in Seq(Requests), NEW r \in Requests, r \notin ToSet(c),
         NEW used \in Int
  PROVE  FitsBeside(c, used, r)
           <=> used + TokenSum(ToSet(c) \cup {r}, WorstTokens) <= MemoryTokens
  <1>1. ToSet(c) \in SUBSET Requests
    BY MembersOf
  <1>2. /\ IsFiniteSet(ToSet(c)) /\ TokenSum(ToSet(c), WorstTokens) \in Nat
        /\ \A s \in ToSet(c) \cup {r} : WorstTokens[s] \in Nat
    BY <1>1, SumOfRequests, WorstType
  <1>3. TokenSum(ToSet(c) \cup {r}, WorstTokens)
          = TokenSum(ToSet(c), WorstTokens) + WorstTokens[r]
    BY <1>2, SumAdd
  <1>4. MemoryTokens \in Nat /\ WorstTokens[r] \in Nat
    BY <1>2, ModelAssumption
  <1> QED
    BY <1>2, <1>3, <1>4 DEF FitsBeside

(* The scan skips a request only because it does not fit.                  *)
LEMMA ScanSkips ==
  ASSUME NEW q \in Seq(Requests), IsInjective(q), NEW running \in Nat,
         NEW used \in Int, NEW limit \in Int
  PROVE  \A i \in 1..Len(q) :
           q[i] \notin ToSet(Scan(q, running, used, limit)) =>
             PassedOver(q, Scan(q, running, used, limit), i, Len(q), used)
  <1> DEFINE a == [running |-> running, used |-> used, limit |-> limit]
             Skips(c, n) == \A i \in 1..n : q[i] \notin ToSet(c) =>
               /\ PassedOver(q, c, i, n, used)
               /\ \/ used + TokenSum((ToSet(c) \cap Passed(q, i - 1))
                                       \cup {q[i]}, WorstTokens) > MemoryTokens
                  \/ running + Len(c) >= limit
             R == [n \in 0..Len(q) |->
               {c \in Seq(Requests) : ToSet(c) \subseteq Passed(q, n)
                                        /\ Skips(c, n)}]
  <1>0. \A c, r : ScanStep(a, c, r) =
          IF running + Len(c) < limit /\ FitsBeside(c, used, r)
          THEN Append(c, r) ELSE c
    BY DEF ScanStep
  <1>1. /\ Len(q) \in Nat
        /\ Scanning!FoldOf(Scan(q, running, used, limit), a, <<>>, q, Len(q))
    BY ScanFolds
  <1> HIDE DEF a
  <1>2. <<>> \in R[0]
    BY <1>1 DEF ToSet
  <1>3. ASSUME NEW n \in 1..Len(q), NEW c \in R[n - 1]
        PROVE  ScanStep(a, c, q[n]) \in R[n]
    <2> DEFINE d == Append(c, q[n])
    <2>1. c \in Seq(Requests) /\ ToSet(c) \subseteq Passed(q, n - 1)
      BY <1>1
    <2>2. Skips(c, n - 1)
      <3>1. n - 1 \in 0..Len(q)
        BY <1>1
      <3> HIDE DEF Skips
      <3> QED
        BY <3>1
    <2> HIDE DEF R
    <2>3. /\ q[n] \in Requests
          /\ Passed(q, n) = Passed(q, n - 1) \cup {q[n]}
          /\ q[n] \notin Passed(q, n - 1)
          /\ Len(c) \in Nat
      BY <2>1, PassedTurns
    <2>4. /\ d \in Seq(Requests) /\ ToSet(d) = ToSet(c) \cup {q[n]}
          /\ Len(d) = Len(c) + 1
      BY <2>1, <2>3, AppendNew
    <2>5. n \in 0..Len(q) /\ n - 1 \in 0..Len(q)
      BY <1>1
    <2>6. \A x \in Seq(Requests) :
            ToSet(x) \subseteq Passed(q, n) /\ Skips(x, n) => x \in R[n]
      BY <2>5 DEF R
    <2> HIDE DEF d
    <2>7. CASE running + Len(c) < limit /\ FitsBeside(c, used, q[n])
      <3>1. ASSUME NEW i \in 1..n, q[i] \notin ToSet(d)
            PROVE  used + TokenSum((ToSet(d) \cap Passed(q, i - 1))
                                     \cup {q[i]}, WorstTokens) > MemoryTokens
        <4>1. i \in 1..(n - 1) /\ q[i] \notin ToSet(c)
          BY <2>4, <3>1
        <4>2. ~(running + Len(c) >= limit)
          BY <2>3, <2>7
        <4>3. used + TokenSum((ToSet(c) \cap Passed(q, i - 1)) \cup {q[i]},
                              WorstTokens) > MemoryTokens
          BY <2>2, <4>1, <4>2
        <4>4. q[n] \notin Passed(q, i - 1)
          <5>1. Passed(q, i - 1) \subseteq Passed(q, n - 1)
            BY <4>1 DEF Passed
          <5> QED
            BY <2>3, <5>1
        <4>5. ToSet(d) \cap Passed(q, i - 1) = ToSet(c) \cap Passed(q, i - 1)
          BY <2>4, <4>4
        <4> QED
          BY <4>3, <4>5
      <3>2. Skips(d, n)
        BY <3>1 DEF PassedOver
      <3>3. ToSet(d) \subseteq Passed(q, n)
        BY <2>1, <2>3, <2>4
      <3>4. ScanStep(a, c, q[n]) = d
        BY <1>0, <2>7 DEF d
      <3> HIDE DEF Skips
      <3> QED
        BY <2>4, <2>6, <3>2, <3>3, <3>4
    <2>8. CASE ~(running + Len(c) < limit /\ FitsBeside(c, used, q[n]))
      <3>1. ASSUME NEW i \in 1..n, q[i] \notin ToSet(c)
            PROVE  /\ PassedOver(q, c, i, n, used)
                   /\ \/ used + TokenSum((ToSet(c) \cap Passed(q, i - 1))
                                           \cup {q[i]}, WorstTokens)
                           > MemoryTokens
                      \/ running + Len(c) >= limit
        <4>1. CASE i \in 1..(n - 1)
          <5>1. /\ PassedOver(q, c, i, n - 1, used)
                /\ \/ used + TokenSum((ToSet(c) \cap Passed(q, i - 1))
                                        \cup {q[i]}, WorstTokens)
                        > MemoryTokens
                   \/ running + Len(c) >= limit
            BY <2>2, <3>1, <4>1
          <5>2. q[n] \notin ToSet(c)
            BY <2>1, <2>3
          <5>3. \A j \in (i + 1)..n : j = n \/ j \in (i + 1)..(n - 1)
            OBVIOUS
          <5> QED
            BY <5>1, <5>2, <5>3 DEF PassedOver
        <4>2. CASE i = n
          <5>1. \A j \in (i + 1)..n : FALSE
            BY <4>2
          <5>2. ToSet(c) \cap Passed(q, i - 1) = ToSet(c)
            BY <2>1, <4>2
          <5>3. \/ running + Len(c) >= limit
                \/ ~FitsBeside(c, used, q[n])
            BY <2>3, <2>8
          <5>4. FitsBeside(c, used, q[n])
                  <=> used + TokenSum(ToSet(c) \cup {q[n]}, WorstTokens)
                        <= MemoryTokens
            BY <2>1, <2>3, <3>1, <4>2, MisfitSum
          <5>5. used + TokenSum(ToSet(c) \cup {q[n]}, WorstTokens) \in Int
            <6>1. ToSet(c) \cup {q[n]} \in SUBSET Requests
              BY <2>1, <2>3, MembersOf
            <6>2. TokenSum(ToSet(c) \cup {q[n]}, WorstTokens) \in Nat
              BY <6>1, SumOfRequests, WorstType
            <6> QED
              BY <6>2
          <5>6. MemoryTokens \in Int
            BY ModelAssumption
          <5>7. (ToSet(c) \cap Passed(q, i - 1)) \cup {q[i]}
                  = ToSet(c) \cup {q[n]}
            BY <4>2, <5>2
          <5>8. CASE running + Len(c) >= limit
            BY <5>1, <5>8 DEF PassedOver
          <5>9. CASE ~FitsBeside(c, used, q[n])
            <6>1. used + TokenSum(ToSet(c) \cup {q[n]}, WorstTokens)
                    > MemoryTokens
              BY <5>4, <5>5, <5>6, <5>9
            <6> QED
              BY <5>7, <6>1 DEF PassedOver
          <5> QED
            BY <5>3, <5>8, <5>9
        <4> QED
          BY <4>1, <4>2
      <3>2. Skips(c, n)
        BY <3>1
      <3>3. ScanStep(a, c, q[n]) = c
        BY <1>0, <2>8
      <3> HIDE DEF Skips
      <3> QED
        BY <2>1, <2>3, <2>6, <3>2, <3>3
    <2> QED
      BY <2>7, <2>8
  <1> HIDE DEF R
  <1>4. Scan(q, running, used, limit) \in R[Len(q)]
    BY <1>1, <1>2, <1>3, Scanning!LoopInvariant
  <1>5. Skips(Scan(q, running, used, limit), Len(q))
    <2>1. Len(q) \in 0..Len(q)
      BY <1>1
    <2> HIDE DEF Skips
    <2> QED
      BY <1>4, <2>1 DEF R
  <1> QED
    BY <1>5

-----------------------------------------------------------------------------
(* A stable sort is a permutation: by sort key, arrival time and position  *)
(* every element has a rank of its own.                                    *)
LEMMA SortKeyType ==
  ASSUME NEW policy \in SortedPolicies, NEW r \in Requests
  PROVE  SortKey(policy, r) \in Int /\ ArrivalMs[r] \in Int
  BY ModelAssumption, PolicyAssumption DEF SortedPolicies, SortKey, PriorityOf

NoLater(policy, s, j, i) ==
  \/ Precedes(policy, s[j], s[i])
  \/ ~Precedes(policy, s[i], s[j]) /\ j <= i

LEMMA NoLaterTotal ==
  ASSUME NEW policy \in SortedPolicies, NEW s \in Seq(Requests),
         NEW i \in DOMAIN s, NEW j \in DOMAIN s, NEW k \in DOMAIN s
  PROVE  /\ NoLater(policy, s, i, i)
         /\ NoLater(policy, s, i, j) \/ NoLater(policy, s, j, i)
         /\ NoLater(policy, s, i, j) /\ NoLater(policy, s, j, i) => i = j
         /\ NoLater(policy, s, i, j) /\ NoLater(policy, s, j, k)
              => NoLater(policy, s, i, k)
  <1> DEFINE key(n) == SortKey(policy, s[n])
             time(n) == ArrivalMs[s[n]]
  <1>1. /\ i \in Int /\ j \in Int /\ k \in Int
        /\ s[i] \in Requests /\ s[j] \in Requests /\ s[k] \in Requests
    OBVIOUS
  <1>2. /\ key(i) \in Int /\ key(j) \in Int /\ key(k) \in Int
        /\ time(i) \in Int /\ time(j) \in Int /\ time(k) \in Int
    BY <1>1, SortKeyType
  <1>3. \A m, n \in DOMAIN s :
          Precedes(policy, s[m], s[n])
            <=> \/ key(m) < key(n)
                \/ key(m) = key(n) /\ time(m) < time(n)
    BY DEF Precedes
  <1> HIDE DEF key, time
  <1> QED
    BY <1>1, <1>2, <1>3 DEF NoLater

LEMMA StableSortPermutes ==
  ASSUME NEW policy \in SortedPolicies, NEW s \in Seq(Requests)
  PROVE  /\ StableSort(policy, s) \in Seq(Requests)
         /\ ToSet(StableSort(policy, s)) = ToSet(s)
         /\ IsInjective(s) => IsInjective(StableSort(policy, s))
         /\ InOrder(policy, StableSort(policy, s))
  <1> DEFINE I == DOMAIN s
             below(i) == {j \in I : NoLater(policy, s, j, i)}
             rank == [i \in I |-> Cardinality(below(i))]
  <1>1. Len(s) \in Nat /\ I = 1..Len(s)
    OBVIOUS
  <1>2. IsFiniteSet(I) /\ Cardinality(I) = Len(s)
    BY <1>1, FS_Interval
  <1>3. \A i \in I : /\ IsFiniteSet(below(i)) /\ Cardinality(below(i)) \in I
                     /\ i \in below(i)
    <2> SUFFICES ASSUME NEW i \in I
                 PROVE  /\ IsFiniteSet(below(i)) /\ i \in below(i)
                        /\ Cardinality(below(i)) \in I
      OBVIOUS
    <2>1. i \in below(i) /\ below(i) \in SUBSET I
      BY NoLaterTotal
    <2> HIDE DEF I, below
    <2>2. /\ IsFiniteSet(below(i)) /\ Cardinality(below(i)) <= Cardinality(I)
          /\ Cardinality(below(i)) \in Nat
      BY <1>2, <2>1, FS_Subset, FS_CardinalityType
    <2>3. Cardinality(below(i)) # 0
      BY <2>1, <2>2, FS_EmptySet
    <2> QED
      BY <1>1, <1>2, <2>1, <2>2, <2>3
  <1>4. \A i, k \in I : rank[i] = rank[k] => i = k
    <2>1. ASSUME NEW i \in I, NEW k \in I, ~NoLater(policy, s, k, i)
          PROVE  rank[i] # rank[k]
      <3>1. k \in below(k) /\ k \notin below(i)
        BY <1>3, <2>1
      <3>2. below(i) \in SUBSET below(k)
        <4>1. NoLater(policy, s, i, k)
          BY <2>1, NoLaterTotal
        <4> QED
          BY <4>1, NoLaterTotal
      <3>3. IsFiniteSet(below(k))
        BY <1>3
      <3>4. rank[i] = Cardinality(below(i)) /\ rank[k] = Cardinality(below(k))
        OBVIOUS
      <3> HIDE DEF below, rank
      <3> QED
        BY <3>1, <3>2, <3>3, <3>4, FS_Subset
    <2>2. ASSUME NEW i \in I, NEW k \in I, rank[i] = rank[k] PROVE i = k
      <3>1. NoLater(policy, s, i, k) /\ NoLater(policy, s, k, i)
        BY <2>1, <2>2
      <3> QED
        BY <3>1, NoLaterTotal
    <2> QED
      BY <2>2
  <1>5. \A n \in I : \E i \in I : rank[i] = n
    <2>1. rank \in [I -> I]
      BY <1>3
    <2> HIDE DEF rank, I
    <2>2. rank \in Injection(I, I)
      BY <1>4, <2>1 DEF Injection, IsInjective
    <2>3. rank \in Surjection(I, I)
      BY <1>2, <2>2, FS_Injection
    <2> QED
      BY <2>3 DEF Surjection
  <1> DEFINE Rank(i) == Cardinality({j \in DOMAIN s :
                          \/ Precedes(policy, s[j], s[i])
                          \/ ~Precedes(policy, s[i], s[j]) /\ j <= i})
             at(n) == CHOOSE i \in DOMAIN s : Rank(i) = n
             t == StableSort(policy, s)
  <1>6. \A n \in I : at(n) \in I /\ rank[at(n)] = n
    <2>1. \A i \in I : rank[i] = Rank(i)
      BY DEF NoLater
    <2> HIDE DEF rank, Rank
    <2> QED
      BY <1>5, <2>1
  <1>7. \A i \in I : rank[i] \in I /\ at(rank[i]) = i
    <2>1. \A i \in I : rank[i] \in I
      BY <1>3
    <2> HIDE DEF rank, at
    <2> QED
      BY <1>4, <1>6, <2>1
  <1>8. t = [n \in I |-> s[at(n)]]
    BY DEF StableSort
  <1>9. \A i \in I : s[i] \in Requests
    OBVIOUS
  <1> HIDE DEF at, t, rank
  <1>10. /\ DOMAIN t = I
         /\ \A n \in I : t[n] = s[at(n)] /\ t[n] \in Requests
    BY <1>6, <1>8, <1>9
  <1>11. t \in Seq(Requests)
    BY <1>1, <1>6, <1>8, <1>9
  <1>12. ToSet(t) = ToSet(s)
    BY <1>6, <1>7, <1>10 DEF ToSet
  <1>13. ASSUME IsInjective(s) PROVE IsInjective(t)
    <2> SUFFICES ASSUME NEW m \in I, NEW n \in I, t[m] = t[n] PROVE m = n
      BY <1>10 DEF IsInjective
    <2>1. at(m) = at(n)
      BY <1>6, <1>10, <1>13 DEF IsInjective
    <2> QED
      BY <1>6, <2>1
  <1>14. ASSUME NEW m \in I, NEW n \in I, m < n
         PROVE  ~Precedes(policy, t[n], t[m])
    <2> DEFINE i == at(m)
               k == at(n)
    <2>1. i \in I /\ k \in I /\ rank[i] = m /\ rank[k] = n
      BY <1>6
    <2>2. t[m] = s[i] /\ t[n] = s[k]
      BY <1>10
    <2> HIDE DEF i, k
    <2>3. ASSUME Precedes(policy, s[k], s[i])
          PROVE  FALSE
      <3>1. NoLater(policy, s, k, i)
        BY <2>3 DEF NoLater
      <3>2. below(k) \in SUBSET below(i)
        BY <2>1, <3>1, NoLaterTotal
      <3>3. IsFiniteSet(below(i))
        BY <1>3, <2>1
      <3>4. rank[i] = Cardinality(below(i)) /\ rank[k] = Cardinality(below(k))
        BY <2>1 DEF rank
      <3> HIDE DEF below
      <3>5. Cardinality(below(k)) <= Cardinality(below(i))
        BY <3>2, <3>3, FS_Subset
      <3> QED
        BY <1>1, <1>14, <2>1, <3>4, <3>5
    <2> QED
      BY <2>2, <2>3
  <1>15. InOrder(policy, t)
    BY <1>10, <1>14 DEF InOrder, Ahead
  <1> QED
    BY <1>11, <1>12, <1>13, <1>15 DEF t

(* Enqueue adds its request to the queue and takes none away.              *)
LEMMA EnqueueAdds ==
  ASSUME NEW policy, NEW q \in Seq(Requests), NEW r \in Requests
  PROVE  /\ Enqueue(policy, q, r) \in Seq(Requests)
         /\ ToSet(Enqueue(policy, q, r)) = ToSet(q) \cup {r}
         /\ IsInjective(q) /\ r \notin ToSet(q)
              => IsInjective(Enqueue(policy, q, r))
  <1> DEFINE p == Append(q, r)
  <1>1. /\ p \in Seq(Requests) /\ ToSet(p) = ToSet(q) \cup {r}
        /\ IsInjective(q) /\ r \notin ToSet(q) => IsInjective(p)
    BY AppendNew
  <1>2. Enqueue(policy, q, r)
          = IF policy \in SortedPolicies THEN StableSort(policy, p) ELSE p
    BY DEF Enqueue, SortedPolicies
  <1> HIDE DEF p
  <1> QED
    BY <1>1, <1>2, StableSortPermutes

(* It keeps the queue in order, if requests are enqueued as they arrive.   *)
LEMMA EnqueueInOrder ==
  ASSUME NEW policy, NEW q \in Seq(Requests), InOrder(policy, q),
         NEW r \in Requests, \A s \in ToSet(q) : ArrivalMs[s] <= ArrivalMs[r]
  PROVE  InOrder(policy, Enqueue(policy, q, r))
  <1> DEFINE p == Append(q, r)
  <1>1. p \in Seq(Requests)
    OBVIOUS
  <1>2. Enqueue(policy, q, r)
          = IF policy \in SortedPolicies THEN StableSort(policy, p) ELSE p
    BY DEF Enqueue, SortedPolicies
  <1>3. ASSUME policy \notin SortedPolicies
        PROVE  InOrder(policy, p)
    <2>1. /\ DOMAIN p = 1..(Len(q) + 1) /\ DOMAIN q = 1..Len(q)
          /\ Len(q) \in Nat
          /\ \A i \in 1..Len(q) : p[i] = q[i]
          /\ p[Len(q) + 1] = r
      OBVIOUS
    <2> HIDE DEF p
    <2> SUFFICES ASSUME NEW i \in DOMAIN p, NEW j \in DOMAIN p, i < j
                 PROVE  ~(ArrivalMs[p[j]] < ArrivalMs[p[i]])
      BY <1>3 DEF InOrder, Ahead
    <2>2. i \in DOMAIN q /\ p[i] = q[i]
      BY <2>1
    <2>3. CASE j \in DOMAIN q
      <3>1. p[j] = q[j]
        BY <2>1, <2>3
      <3> QED
        BY <1>3, <2>2, <2>3, <3>1 DEF InOrder, Ahead
    <2>4. CASE j \notin DOMAIN q
      <3>1. p[j] = r /\ q[i] \in ToSet(q) /\ q[i] \in Requests
        BY <2>1, <2>2, <2>4 DEF ToSet
      <3>2. ArrivalMs[q[i]] \in Int /\ ArrivalMs[r] \in Int
        BY <3>1, PolicyAssumption
      <3> QED
        BY <2>2, <3>1, <3>2
    <2> QED
      BY <2>3, <2>4
  <1> HIDE DEF p
  <1> QED
    BY <1>1, <1>2, <1>3, StableSortPermutes

-----------------------------------------------------------------------------
(* The loop of weighted fair queueing: in each turn it hands out a request *)
(* that fits, or moves a virtual time.                                     *)
WFQStates(q, running, used) ==
  {st \in [chosen : Seq(Requests), left : Seq(Requests), vt : [Tiers -> Nat]] :
     /\ st.chosen \in Choice(ToSet(q), running, used, MaxBatchSize)
     /\ IsInjective(st.left)
     /\ ToSet(st.left) = ToSet(q) \ ToSet(st.chosen)}

(* A waiting request that its tier's virtual time does not shut out.       *)
Ready(r, vt) == Tier[r] \in Tiers /\ vt[Tier[r]] < MaxVT

LEMMA LowestVTTierType ==
  ASSUME NEW q, NEW vt \in [Tiers -> Nat]
  PROVE  LET i == LowestVTTier(q, vt) IN
         \/ i = 0
         \/ /\ i \in DOMAIN TierOrder
            /\ \E r \in ToSet(q) : Tier[r] = TierOrder[i]
            /\ \A r \in ToSet(q) :
                 Ready(r, vt) => vt[TierOrder[i]] <= vt[Tier[r]]
  <1> DEFINE ready == {i \in DOMAIN TierOrder :
                         /\ \E r \in ToSet(q) : Tier[r] = TierOrder[i]
                         /\ vt[TierOrder[i]] < MaxVT}
             low(i) == \A j \in ready :
                         \/ vt[TierOrder[i]] < vt[TierOrder[j]]
                         \/ vt[TierOrder[i]] = vt[TierOrder[j]] /\ i <= j
  <1>1. CASE ready = {}
    BY <1>1 DEF LowestVTTier
  <1>2. CASE ready # {}
    <2> DEFINE times == {vt[TierOrder[i]] : i \in ready}
    <2>1. \A i \in ready : vt[TierOrder[i]] \in Nat /\ i \in Nat
      BY PolicyAssumption DEF Tiers, ToSet
    <2>2. times \in SUBSET Nat /\ times # {}
      BY <1>2, <2>1
    <2> HIDE DEF ready
    <2>3. PICK i \in ready : \A t \in times : vt[TierOrder[i]] <= t
      <3>1. PICK t \in times : \A u \in times : t <= u
        <4> HIDE DEF times
        <4> QED
          BY <2>2, Scanning!LeastNatural
      <3> QED
        BY <3>1
    <2> DEFINE same == {j \in ready : vt[TierOrder[j]] = vt[TierOrder[i]]}
    <2>4. same \in SUBSET Nat /\ same # {}
      BY <2>1
    <2>5. PICK j \in same : \A k \in same : j <= k
      <3> HIDE DEF same
      <3> QED
        BY <2>4, Scanning!LeastNatural
    <2>6. ASSUME NEW k \in ready
          PROVE  \/ vt[TierOrder[j]] < vt[TierOrder[k]]
                 \/ vt[TierOrder[j]] = vt[TierOrder[k]] /\ j <= k
      <3>1. vt[TierOrder[j]] <= vt[TierOrder[k]]
        BY <2>3, <2>5
      <3>2. j \in ready /\ vt[TierOrder[j]] \in Nat /\ vt[TierOrder[k]] \in Nat
        BY <2>1, <2>5
      <3>3. vt[TierOrder[k]] = vt[TierOrder[j]] => j <= k
        BY <2>5
      <3> QED
        BY <3>1, <3>2, <3>3
    <2>7. \E m \in ready : low(m)
      BY <2>5, <2>6
    <2>8. LowestVTTier(q, vt) = CHOOSE m \in ready : low(m)
      BY <1>2 DEF LowestVTTier, ready
    <2>9. LowestVTTier(q, vt) \in ready /\ low(LowestVTTier(q, vt))
      <3> HIDE DEF low
      <3> QED
        BY <2>7, <2>8
    <2> DEFINE l == LowestVTTier(q, vt)
    <2> HIDE DEF l
    <2>10. ASSUME NEW r \in ToSet(q), Ready(r, vt)
           PROVE  vt[TierOrder[l]] <= vt[Tier[r]]
      <3>1. PICK k \in DOMAIN TierOrder : Tier[r] = TierOrder[k]
        BY <2>10 DEF Ready, Tiers, ToSet
      <3>2. k \in ready
        BY <2>10, <3>1 DEF Ready, ready
      <3>3. /\ vt[TierOrder[l]] \in Nat /\ vt[TierOrder[k]] \in Nat
            /\ \/ vt[TierOrder[l]] < vt[TierOrder[k]]
               \/ vt[TierOrder[l]] = vt[TierOrder[k]]
        BY <2>1, <2>9, <3>2 DEF l
      <3> QED
        BY <3>1, <3>3
    <2> QED
      BY <2>9, <2>10 DEF ready, l
  <1> QED
    BY <1>1, <1>2

LEMMA WFQTurnKeeps ==
  ASSUME NEW q \in Seq(Requests), IsInjective(q), NEW running \in Nat,
         NEW used \in Int, NEW st \in WFQStates(q, running, used)
  PROVE  WFQTurn(st, running, used) \in WFQStates(q, running, used)
  <1> DEFINE i == LowestVTTier(st.left, st.vt)
             tier == TierOrder[i]
             I == {k \in 1..Len(st.left) :
                     Tier[st.left[k]] = tier
                       /\ FitsBeside(st.chosen, used, st.left[k])}
             n == SelectInSeq(st.left, LAMBDA r :
                    Tier[r] = tier /\ FitsBeside(st.chosen, used, r))
             turned == IF n = 0 THEN [st EXCEPT !.vt[tier] = @ + SkipPenalty]
               ELSE [chosen |-> Append(st.chosen, st.left[n]),
                     left |-> Without(st.left, {st.left[n]}),
                     vt |-> [st.vt EXCEPT ![tier] = @ + TierCost[tier]]]
  <1>1. /\ st = [chosen |-> st.chosen, left |-> st.left, vt |-> st.vt]
        /\ st.chosen \in Choice(ToSet(q), running, used, MaxBatchSize)
        /\ st.left \in Seq(Requests) /\ IsInjective(st.left)
        /\ ToSet(st.left) = ToSet(q) \ ToSet(st.chosen)
        /\ st.vt \in [Tiers -> Nat]
    BY DEF WFQStates
  <1>2. WFQTurn(st, running, used)
          = IF running + Len(st.chosen) >= MaxBatchSize \/ i = 0
            THEN st ELSE turned
    BY DEF WFQTurn
  <1>3. CASE running + Len(st.chosen) >= MaxBatchSize \/ i = 0
    BY <1>2, <1>3
  <1>4. CASE ~(running + Len(st.chosen) >= MaxBatchSize \/ i = 0)
    <2>1. tier \in Tiers
      BY <1>1, <1>4, LowestVTTierType DEF Tiers, ToSet
    <2>2. n = IF I # {} THEN Min(I) ELSE 0
      BY DEF SelectInSeq
    <2>3. n \in I \/ n = 0
      <3>1. I \in SUBSET Nat
        OBVIOUS
      <3> HIDE DEF I
      <3>2. I # {} => \E m \in I : \A k \in I : m <= k
        BY <3>1, Scanning!LeastNatural
      <3>3. I # {} => Min(I) \in I
        BY <3>2 DEF Min
      <3> HIDE DEF n
      <3> QED
        BY <2>2, <3>3
    <2>4. st.vt[tier] \in Nat /\ TierCost[tier] \in Nat /\ SkipPenalty \in Nat
      BY <1>1, <2>1, PolicyAssumption
    <2>5. CASE n = 0
      <3> DEFINE vt == [st.vt EXCEPT ![tier] = @ + SkipPenalty]
      <3>1. vt \in [Tiers -> Nat]
        <4>1. st.vt[tier] + SkipPenalty \in Nat
          BY <2>4
        <4> HIDE DEF tier, n
        <4> QED
          BY <1>1, <4>1
      <3>2. turned = [chosen |-> st.chosen, left |-> st.left, vt |-> vt]
        <4> HIDE DEF n, tier
        <4> QED
          BY <1>1, <2>5
      <3> HIDE DEF turned, vt
      <3> QED
        BY <1>1, <1>2, <1>4, <3>1, <3>2 DEF WFQStates
    <2>6. CASE n # 0
      <3> DEFINE r == st.left[n]
                 chosen == Append(st.chosen, r)
                 left == Without(st.left, {r})
                 vt == [st.vt EXCEPT ![tier] = @ + TierCost[tier]]
      <3>1. n \in I
        BY <2>3, <2>6
      <3>2. /\ r \in Requests /\ r \in ToSet(st.left)
            /\ FitsBeside(st.chosen, used, r)
        <4> HIDE DEF n, tier
        <4> QED
          BY <1>1, <3>1 DEF ToSet
      <3>3. vt \in [Tiers -> Nat]
        <4>1. st.vt[tier] + TierCost[tier] \in Nat
          BY <2>4
        <4> HIDE DEF tier, n
        <4> QED
          BY <1>1, <4>1
      <3>4. turned = [chosen |-> chosen, left |-> left, vt |-> vt]
        BY <2>6
      <3> HIDE DEF n, turned, vt, r
      <3>5. ToSet(q) \in SUBSET Requests /\ MaxBatchSize \in Nat
        BY ModelAssumption DEF ToSet
      <3>6. st.chosen \in Seq(Requests) /\ Len(st.chosen) \in Nat
        BY <1>1 DEF Choice
      <3>7. /\ r \notin ToSet(st.chosen) /\ r \in ToSet(q)
            /\ running + Len(st.chosen) < MaxBatchSize
        BY <1>1, <1>4, <3>2, <3>5, <3>6
      <3>8. chosen \in Choice(ToSet(q) \cup {r}, running, used, MaxBatchSize)
        BY <1>1, <3>2, <3>5, <3>7, ChooseOne
      <3>9. /\ chosen \in Choice(ToSet(q), running, used, MaxBatchSize)
            /\ chosen \in Seq(Requests)
        <4>1. ToSet(q) \cup {r} = ToSet(q)
          BY <3>7
        <4> QED
          BY <3>8, <4>1 DEF Choice
      <3>10. ToSet(chosen) = ToSet(st.chosen) \cup {r}
        BY <3>2, <3>6, AppendNew
      <3>11. /\ left \in Seq(Requests) /\ IsInjective(left)
             /\ ToSet(left) = ToSet(st.left) \ {r}
        BY <1>1, WithoutKeeps
      <3> HIDE DEF chosen, left
      <3>12. ToSet(left) = ToSet(q) \ ToSet(chosen)
        BY <1>1, <3>10, <3>11
      <3> QED
        BY <1>2, <1>4, <3>3, <3>4, <3>9, <3>11, <3>12 DEF WFQStates
    <2> QED
      BY <2>5, <2>6
  <1> QED
    BY <1>3, <1>4

(* Requests of one tier and one size.                                      *)
Alike(r, s) ==
  Tier[r] = Tier[s] /\ ContextTokens[r] = ContextTokens[s]
    /\ OutputTokens[r] = OutputTokens[s]

(* None of them is chosen out of turn.                                     *)
ClassInOrder(left, chosen) ==
  \A r \in left, s \in chosen : Alike(r, s) => ~(ArrivalMs[r] < ArrivalMs[s])

LEMMA AlikeWorst ==
  ASSUME NEW r \in Requests, NEW s \in Requests, Alike(r, s)
  PROVE  Tier[r] = Tier[s] /\ WorstTokens[r] = WorstTokens[s]
  BY DEF Alike, WorstTokens

(* r is ranked ahead of s.  Weighted fair queueing ranks the requests of a *)
(* tier only: between tiers the virtual times decide.                      *)
Outranks(policy, r, s) ==
  Ahead(policy, r, s) /\ (policy = "wfq" => Tier[r] = Tier[s])

(* r does not fit beside what runs and some of what was chosen ahead of it.*)
Misfit(policy, r, chosen, used) ==
  \E C \in SUBSET chosen :
    /\ \A x \in C : ~Outranks(policy, r, x)
    /\ used + TokenSum(C \cup {r}, WorstTokens) > MemoryTokens

OvertakenForMemory(policy, left, chosen, used) ==
  \A r \in left, s \in chosen :
    Outranks(policy, r, s) => Misfit(policy, r, chosen, used)

(* A request left behind is not overtaken by one of its tier and size, and *)
(* by one that the policy ranks behind it only for want of memory.         *)
Spared(policy, left, chosen, used) ==
  /\ ClassInOrder(left, chosen)
  /\ OvertakenForMemory(policy, left, chosen, used)

(* Of two requests alike the earlier one is ranked first by every policy.  *)
LEMMA AlikeOutranks ==
  ASSUME NEW policy, NEW r \in Requests, NEW s \in Requests, Alike(r, s),
         ArrivalMs[r] < ArrivalMs[s]
  PROVE  Outranks(policy, r, s)
  <1>1. policy \in SortedPolicies => SortKey(policy, r) = SortKey(policy, s)
    BY DEF Alike, SortedPolicies, SortKey, PriorityOf
  <1> QED
    BY <1>1 DEF Outranks, Ahead, Precedes, Alike

LEMMA SumSubset ==
  ASSUME NEW S \in SUBSET Requests, NEW T \in SUBSET S
  PROVE  TokenSum(T, WorstTokens) <= TokenSum(S, WorstTokens)
  <1>1. /\ IsFiniteSet(T) /\ IsFiniteSet(S \ T)
        /\ TokenSum(T, WorstTokens) \in Nat /\ TokenSum(S \ T, WorstTokens) \in Nat
    <2>1. T \in SUBSET Requests /\ S \ T \in SUBSET Requests
      OBVIOUS
    <2> QED
      BY <2>1, SumOfRequests, WorstType
  <1>2. \A x \in T \cup (S \ T) : WorstTokens[x] \in Nat
    BY WorstType
  <1>3. T \cap (S \ T) = {} /\ T \cup (S \ T) = S
    OBVIOUS
  <1>4. TokenSum(T \cup (S \ T), WorstTokens)
          = TokenSum(T, WorstTokens) + TokenSum(S \ T, WorstTokens)
    BY <1>1, <1>2, <1>3, SumUnion
  <1>5. TokenSum(S, WorstTokens)
          = TokenSum(T, WorstTokens) + TokenSum(S \ T, WorstTokens)
    BY <1>3, <1>4, Zenon
  <1> QED
    BY <1>1, <1>5

(* Where a request needs as much memory as one alike, it cannot be         *)
(* overtaken by it for want of memory.                                     *)
LEMMA ClassSpared ==
  ASSUME NEW policy, NEW left \in SUBSET Requests, NEW F \in SUBSET Requests,
         left \cap F = {}, NEW used \in Int,
         F # {} => used + TokenSum(F, WorstTokens) <= MemoryTokens,
         OvertakenForMemory(policy, left, F, used)
  PROVE  Spared(policy, left, F, used)
  <1> SUFFICES ASSUME NEW r \in left, NEW s \in F, Alike(r, s),
                      ArrivalMs[r] < ArrivalMs[s]
               PROVE  FALSE
    BY DEF Spared, ClassInOrder
  <1>1. r \in Requests /\ s \in Requests /\ r \notin F
    OBVIOUS
  <1>2. Outranks(policy, r, s)
    BY <1>1, AlikeOutranks
  <1>3. PICK C \in SUBSET F :
          /\ \A x \in C : ~Outranks(policy, r, x)
          /\ used + TokenSum(C \cup {r}, WorstTokens) > MemoryTokens
    BY <1>2 DEF OvertakenForMemory, Misfit
  <1>4. s \notin C /\ r \notin C
    BY <1>1, <1>2, <1>3
  <1>5. C \in SUBSET Requests
    OBVIOUS
  <1>6. /\ IsFiniteSet(C) /\ TokenSum(C, WorstTokens) \in Nat
        /\ TokenSum(F, WorstTokens) \in Nat
    BY <1>5, SumOfRequests, WorstType
  <1>7. \A y \in Requests : WorstTokens[y] \in Nat
    BY WorstType
  <1>8. TokenSum(C \cup {r}, WorstTokens)
          = TokenSum(C, WorstTokens) + WorstTokens[r]
    BY <1>1, <1>4, <1>5, <1>6, <1>7, SumAdd
  <1>9. TokenSum(C \cup {s}, WorstTokens)
          = TokenSum(C, WorstTokens) + WorstTokens[s]
    BY <1>1, <1>4, <1>5, <1>6, <1>7, SumAdd
  <1>10. TokenSum(C \cup {s}, WorstTokens) <= TokenSum(F, WorstTokens)
    <2>1. C \cup {s} \in SUBSET F
      OBVIOUS
    <2> QED
      BY <2>1, SumSubset
  <1>11. WorstTokens[r] = WorstTokens[s]
    BY <1>1, AlikeWorst
  <1>12. MemoryTokens \in Nat /\ WorstTokens[r] \in Nat
    BY <1>1, <1>7, ModelAssumption
  <1> QED
    BY <1>3, <1>6, <1>8, <1>9, <1>10, <1>11, <1>12

(* A tier that is served gets ahead of a waiting one by no more virtual    *)
(* time than a step of its own: the cost of a request, or the penalty if   *)
(* requests of its own are left behind.                                    *)
Lead(tier, left) ==
  IF TierCost[tier] < SkipPenalty /\ \E x \in left : Tier[x] = tier
  THEN SkipPenalty ELSE TierCost[tier]

InTurn(vt, left, chosen) ==
  \A s \in chosen :
    /\ Tier[s] \in Tiers
    /\ \A r \in left : Ready(r, vt) =>
         vt[Tier[s]] <= vt[Tier[r]] + Lead(Tier[s], left)

LEMMA LowestMoves ==
  ASSUME NEW vt \in [Tiers -> Nat], NEW tier \in Tiers, NEW d \in Nat,
         NEW left, NEW less \in SUBSET left, NEW chosen, NEW more,
         InTurn(vt, left, chosen),
         \A r \in left : Ready(r, vt) => vt[tier] <= vt[Tier[r]],
         \A r \in left : r \notin less => Tier[r] = tier,
         \A s \in more : s \in chosen \/ Tier[s] = tier,
         d <= Lead(tier, less)
  PROVE  InTurn([vt EXCEPT ![tier] = @ + d], less, more)
  <1> DEFINE moved == [vt EXCEPT ![tier] = @ + d]
  <1>1. ASSUME NEW u \in Tiers
        PROVE  /\ vt[u] \in Nat
               /\ moved[u] = IF u = tier THEN vt[u] + d ELSE vt[u]
    OBVIOUS
  <1>2. \A u \in Tiers : \A S : Lead(u, S) \in Nat
    BY PolicyAssumption DEF Lead
  <1> HIDE DEF moved
  <1> SUFFICES ASSUME NEW s \in more
               PROVE  /\ Tier[s] \in Tiers
                      /\ \A r \in less : Ready(r, moved) =>
                           moved[Tier[s]] <= moved[Tier[r]] + Lead(Tier[s], less)
    BY DEF InTurn, moved
  <1>3. Tier[s] \in Tiers
    BY DEF InTurn
  <1>4. ASSUME NEW r \in less, Ready(r, moved)
        PROVE  moved[Tier[s]] <= moved[Tier[r]] + Lead(Tier[s], less)
    <2>1. /\ Tier[r] \in Tiers /\ vt[Tier[r]] \in Nat
          /\ moved[Tier[r]] \in Nat /\ vt[Tier[r]] <= moved[Tier[r]]
      BY <1>1, <1>4 DEF Ready
    <2>2. MaxVT \in Nat
      BY PolicyAssumption
    <2>3. Ready(r, vt)
      BY <1>4, <2>1, <2>2 DEF Ready
    <2>4. CASE Tier[s] = tier
      <3>1. /\ moved[tier] = vt[tier] + d /\ vt[tier] \in Nat
            /\ Lead(tier, less) \in Nat
        BY <1>1, <1>2
      <3>2. vt[tier] <= vt[Tier[r]]
        BY <2>3
      <3> QED
        BY <2>1, <2>4, <3>1, <3>2
    <2>5. CASE Tier[s] # tier
      <3>1. moved[Tier[s]] = vt[Tier[s]] /\ vt[Tier[s]] \in Nat
        BY <1>1, <1>3, <2>5
      <3>2. Lead(Tier[s], less) = Lead(Tier[s], left)
        <4>1. (\E x \in left : Tier[x] = Tier[s])
                <=> (\E x \in less : Tier[x] = Tier[s])
          BY <2>5
        <4> QED
          BY <4>1 DEF Lead
      <3>3. vt[Tier[s]] <= vt[Tier[r]] + Lead(Tier[s], left)
        BY <2>3, <2>5 DEF InTurn
      <3>4. Lead(Tier[s], less) \in Nat
        BY <1>2, <1>3
      <3> QED
        BY <2>1, <3>1, <3>2, <3>3, <3>4
    <2> QED
      BY <2>4, <2>5
  <1> QED
    BY <1>3, <1>4

(* A turn moves the lowest of the tiers: by the penalty, or it takes the   *)
(* first request of that tier that fits.                                   *)
Takes(st, t, tier, n, used) ==
  /\ Tier[st.left[n]] = tier /\ FitsBeside(st.chosen, used, st.left[n])
  /\ \A k \in 1..(n - 1) :
       Tier[st.left[k]] = tier => ~FitsBeside(st.chosen, used, st.left[k])
  /\ t.chosen = Append(st.chosen, st.left[n])
  /\ t.left = Without(st.left, {st.left[n]})
  /\ t.vt = [st.vt EXCEPT ![tier] = @ + TierCost[tier]]

Skips(st, t, tier) ==
  /\ \E r \in ToSet(st.left) : Tier[r] = tier
  /\ t.left = st.left /\ t.chosen = st.chosen
  /\ t.vt = [st.vt EXCEPT ![tier] = @ + SkipPenalty]

LEMMA WFQTurnMoves ==
  ASSUME NEW q \in Seq(Requests), NEW running \in Nat, NEW used \in Int,
         NEW st \in WFQStates(q, running, used)
  PROVE  LET t == WFQTurn(st, running, used) IN
         \/ t = st
         \/ \E tier \in Tiers :
              /\ \A r \in ToSet(st.left) :
                   Ready(r, st.vt) => st.vt[tier] <= st.vt[Tier[r]]
              /\ \/ Skips(st, t, tier)
                 \/ \E n \in 1..Len(st.left) : Takes(st, t, tier, n, used)
  <1> DEFINE i == LowestVTTier(st.left, st.vt)
             tier == TierOrder[i]
             I == {k \in 1..Len(st.left) :
                     Tier[st.left[k]] = tier
                       /\ FitsBeside(st.chosen, used, st.left[k])}
             n == SelectInSeq(st.left, LAMBDA r :
                    Tier[r] = tier /\ FitsBeside(st.chosen, used, r))
             t == WFQTurn(st, running, used)
  <1>1. /\ st = [chosen |-> st.chosen, left |-> st.left, vt |-> st.vt]
        /\ st.left \in Seq(Requests) /\ st.vt \in [Tiers -> Nat]
    BY DEF WFQStates
  <1>2. t = IF running + Len(st.chosen) >= MaxBatchSize \/ i = 0
            THEN st
            ELSE IF n = 0 THEN [st EXCEPT !.vt[tier] = @ + SkipPenalty]
            ELSE [chosen |-> Append(st.chosen, st.left[n]),
                  left |-> Without(st.left, {st.left[n]}),
                  vt |-> [st.vt EXCEPT ![tier] = @ + TierCost[tier]]]
    BY DEF WFQTurn
  <1>3. n = IF I # {} THEN Min(I) ELSE 0
    BY DEF SelectInSeq
  <1>4. n = 0 \/ (n \in I /\ \A k \in I : n <= k)
    <2>1. I \in SUBSET Nat
      OBVIOUS
    <2> HIDE DEF I
    <2>2. I # {} => \E m \in I : \A k \in I : m <= k
      BY <2>1, Scanning!LeastNatural
    <2>3. I # {} => Min(I) \in I /\ \A k \in I : Min(I) <= k
      BY <2>2 DEF Min
    <2> HIDE DEF n
    <2> QED
      BY <1>3, <2>3
  <1>5. CASE running + Len(st.chosen) >= MaxBatchSize \/ i = 0
    BY <1>2, <1>5
  <1>6. CASE ~(running + Len(st.chosen) >= MaxBatchSize \/ i = 0)
    <2>1. /\ i \in DOMAIN TierOrder
          /\ \E r \in ToSet(st.left) : Tier[r] = TierOrder[i]
          /\ \A r \in ToSet(st.left) :
               Ready(r, st.vt) => st.vt[TierOrder[i]] <= st.vt[Tier[r]]
      BY <1>1, <1>6, LowestVTTierType
    <2>2. tier \in Tiers
      BY <2>1 DEF Tiers, ToSet
    <2>3. ASSUME n = 0 PROVE Skips(st, t, tier)
      <3>1. t = [st EXCEPT !.vt[tier] = @ + SkipPenalty]
        BY <1>2, <1>6, <2>3
      <3>2. \E r \in ToSet(st.left) : Tier[r] = tier
        BY <2>1
      <3> HIDE DEF n, tier, i, t
      <3>3. /\ t.left = st.left /\ t.chosen = st.chosen
            /\ t.vt = [st.vt EXCEPT ![tier] = @ + SkipPenalty]
        BY <1>1, <3>1
      <3> QED
        BY <3>2, <3>3 DEF Skips
    <2>4. ASSUME n # 0
          PROVE  n \in 1..Len(st.left) /\ Takes(st, t, tier, n, used)
      <3>1. t = [chosen |-> Append(st.chosen, st.left[n]),
                 left |-> Without(st.left, {st.left[n]}),
                 vt |-> [st.vt EXCEPT ![tier] = @ + TierCost[tier]]]
        BY <1>2, <1>6, <2>4
      <3>2. n \in I /\ \A k \in I : n <= k
        BY <1>4, <2>4
      <3> HIDE DEF n, tier, i, t
      <3>3. ASSUME NEW k \in 1..(n - 1), Tier[st.left[k]] = tier
            PROVE  ~FitsBeside(st.chosen, used, st.left[k])
        <4>1. k \in 1..Len(st.left) /\ ~(n <= k)
          BY <3>2
        <4> QED
          BY <3>2, <3>3, <4>1
      <3> QED
        BY <3>1, <3>2, <3>3 DEF Takes
    <2> HIDE DEF i, n, I, t
    <2> QED
      BY <2>1, <2>2, <2>3, <2>4 DEF t
  <1> QED
    BY <1>5, <1>6

(* A turn leaves the queue in order, and what it takes is in turn.         *)
WFQInTurn(st, used) ==
  /\ InOrder("wfq", st.left)
  /\ OvertakenForMemory("wfq", ToSet(st.left), ToSet(st.chosen), used)
  /\ InTurn(st.vt, ToSet(st.left), ToSet(st.chosen))

LEMMA WFQTakesInTurn ==
  ASSUME NEW q \in Seq(Requests), NEW running \in Nat, NEW used \in Int,
         NEW st \in WFQStates(q, running, used), WFQInTurn(st, used),
         NEW t, NEW tier \in Tiers, NEW n \in 1..Len(st.left),
         Takes(st, t, tier, n, used),
         \A r \in ToSet(st.left) :
           Ready(r, st.vt) => st.vt[tier] <= st.vt[Tier[r]]
  PROVE  WFQInTurn(t, used)
  <1> DEFINE x == st.left[n]
             left == ToSet(st.left)
             F == ToSet(st.chosen)
  <1>1. /\ st.left \in Seq(Requests) /\ IsInjective(st.left)
        /\ st.chosen \in Seq(Requests) /\ st.vt \in [Tiers -> Nat]
        /\ left \cap F = {} /\ left \in SUBSET Requests
    BY MembersOf DEF WFQStates
  <1>2. x \in Requests /\ x \in left /\ Tier[x] = tier
    BY <1>1 DEF Takes, ToSet
  <1>3. t.left = Without(st.left, {x}) /\ t.chosen = Append(st.chosen, x)
    BY DEF Takes
  <1> HIDE DEF x
  <1>4. InOrder("wfq", t.left) /\ ToSet(t.left) = left \ {x}
    BY <1>1, <1>3, WithoutInOrder, WithoutKeeps DEF WFQInTurn
  <1>5. ToSet(t.chosen) = F \cup {x}
    BY <1>1, <1>2, <1>3, AppendNew
  <1>6. InTurn(t.vt, ToSet(t.left), ToSet(t.chosen))
    <2>1. TierCost[tier] \in Nat /\ TierCost[tier] <= Lead(tier, left \ {x})
      BY PolicyAssumption DEF Lead
    <2>2. t.vt = [st.vt EXCEPT ![tier] = @ + TierCost[tier]]
      BY DEF Takes
    <2>3. InTurn(st.vt, left, F)
      BY DEF WFQInTurn
    <2> HIDE DEF left, F
    <2>4. InTurn([st.vt EXCEPT ![tier] = @ + TierCost[tier]],
                 left \ {x}, F \cup {x})
      BY <1>1, <1>2, <2>1, <2>3, LowestMoves DEF left
    <2> QED
      BY <1>4, <1>5, <2>2, <2>4
  <1>7. ASSUME NEW r \in left \ {x}, NEW s \in F \cup {x},
               Outranks("wfq", r, s)
        PROVE  Misfit("wfq", r, F \cup {x}, used)
    <2>1. CASE \E y \in F : Outranks("wfq", r, y)
      <3>1. Misfit("wfq", r, F, used)
        BY <2>1 DEF WFQInTurn, OvertakenForMemory
      <3> QED
        BY <3>1 DEF Misfit
    <2>2. CASE ~ \E y \in F : Outranks("wfq", r, y)
      <3>1. s = x /\ Tier[r] = tier /\ ArrivalMs[r] < ArrivalMs[x]
        BY <1>2, <1>7, <2>2 DEF Outranks, Ahead, SortedPolicies
      <3>2. PICK k \in 1..Len(st.left) : r = st.left[k]
        <4>1. DOMAIN st.left = 1..Len(st.left) /\ r \in ToSet(st.left)
          BY <1>1, <1>7
        <4> QED
          BY <4>1 DEF ToSet
      <3>3. k \in 1..(n - 1)
        <4>1. ~(n < k)
          BY <1>1, <3>1, <3>2
            DEF WFQInTurn, InOrder, Ahead, SortedPolicies, x
        <4>2. k # n
          BY <1>7, <3>2 DEF x
        <4> QED
          BY <4>1, <4>2
      <3>4. ~FitsBeside(st.chosen, used, r)
        BY <3>1, <3>2, <3>3 DEF Takes
      <3>5. r \in Requests /\ r \notin F
        BY <1>1
      <3>6. used + TokenSum(F \cup {r}, WorstTokens) > MemoryTokens
        <4>1. F \cup {r} \in SUBSET Requests
          BY <1>1, <3>5, MembersOf
        <4>2. TokenSum(F \cup {r}, WorstTokens) \in Nat
          BY <4>1, SumOfRequests, WorstType
        <4>3. ~(used + TokenSum(F \cup {r}, WorstTokens) <= MemoryTokens)
          BY <1>1, <3>4, <3>5, MisfitSum
        <4>4. MemoryTokens \in Nat
          BY ModelAssumption
        <4> QED
          BY <4>2, <4>3, <4>4
      <3> HIDE DEF F
      <3> QED
        BY <2>2, <3>6 DEF Misfit
    <2> QED
      BY <2>1, <2>2
  <1> QED
    BY <1>4, <1>5, <1>6, <1>7 DEF WFQInTurn, OvertakenForMemory

LEMMA WFQTurnInTurn ==
  ASSUME NEW q \in Seq(Requests), NEW running \in Nat, NEW used \in Int,
         NEW st \in WFQStates(q, running, used), WFQInTurn(st, used)
  PROVE  WFQInTurn(WFQTurn(st, running, used), used)
  <1> DEFINE t == WFQTurn(st, running, used)
             left == ToSet(st.left)
             F == ToSet(st.chosen)
  <1> HIDE DEF t
  <1> SUFFICES WFQInTurn(t, used)
    BY DEF t
  <1>1. CASE t = st
    BY <1>1
  <1>2. ASSUME NEW tier \in Tiers, Skips(st, t, tier),
               \A r \in left : Ready(r, st.vt) => st.vt[tier] <= st.vt[Tier[r]]
        PROVE  WFQInTurn(t, used)
    <2>1. SkipPenalty \in Nat /\ SkipPenalty <= Lead(tier, left)
      BY <1>2, PolicyAssumption DEF Lead, Skips
    <2>2. InTurn(st.vt, left, F) /\ st.vt \in [Tiers -> Nat]
      BY DEF WFQInTurn, WFQStates
    <2> HIDE DEF left, F
    <2>3. InTurn([st.vt EXCEPT ![tier] = @ + SkipPenalty], left, F)
      BY <1>2, <2>1, <2>2, LowestMoves
    <2> QED
      BY <1>2, <2>3 DEF Skips, WFQInTurn, left, F
  <1>3. ASSUME NEW tier \in Tiers, NEW n \in 1..Len(st.left),
               Takes(st, t, tier, n, used),
               \A r \in left : Ready(r, st.vt) => st.vt[tier] <= st.vt[Tier[r]]
        PROVE  WFQInTurn(t, used)
    BY <1>3, WFQTakesInTurn
  <1>4. \/ t = st
        \/ \E tier \in Tiers :
             /\ \A r \in left : Ready(r, st.vt) => st.vt[tier] <= st.vt[Tier[r]]
             /\ \/ Skips(st, t, tier)
                \/ \E n \in 1..Len(st.left) : Takes(st, t, tier, n, used)
    BY WFQTurnMoves DEF t
  <1> QED
    BY <1>1, <1>2, <1>3, <1>4

(* The loop over the turns, whose parameters are those of WFQTurn.         *)
WFQStep(a, st, turn) == WFQTurn(st, a.running, a.used)
Turning == INSTANCE FoldProofs WITH Step <- WFQStep

LEMMA WFQTurnsType == WFQTurns \in Nat
  <1>1. Len(TierOrder) \in Nat
    BY PolicyAssumption
  <1>2. MaxVT \div SkipPenalty \in Nat
    <2>1. MaxVT \in Int /\ MaxVT >= 0 /\ SkipPenalty \in Int /\ SkipPenalty > 0
      BY PolicyAssumption
    <2>2. \A m, n \in Int : m >= 0 /\ n > 0 => m \div n \in Nat
      OBVIOUS
    <2> QED
      BY <2>1, <2>2
  <1>3. Len(TierOrder) * (MaxVT \div SkipPenalty + 1) \in Nat
    <2> DEFINE d == MaxVT \div SkipPenalty
    <2> HIDE DEF d
    <2> QED
      BY <1>1, <1>2 DEF d
  <1> QED
    BY <1>3, ModelAssumption DEF WFQTurns

LEMMA WFQFolds ==
  ASSUME NEW q, NEW vt, NEW running, NEW used
  PROVE  Turning!FoldOf(FormBatch("wfq", q, vt, running, used),
                        [running |-> running, used |-> used],
                        [chosen |-> <<>>, left |-> q, vt |-> vt],
                        [turn \in 1..WFQTurns |-> turn], WFQTurns)
  <1> DEFINE a == [running |-> running, used |-> used]
             base == [chosen |-> <<>>, left |-> q, vt |-> vt]
             turns == [turn \in 1..WFQTurns |-> turn]
             Turned(st, turn) == WFQTurn(st, running, used)
             Turns(f) == f = [s \in SUBSET DOMAIN turns |->
               IF s = {} THEN base
               ELSE Turned(f[s \ {Max(s)}], turns[Max(s)])]
  <1>1. WFQTurns \in Nat
    BY WFQTurnsType
  <1>2. \A f : Turns(f) <=> Turning!Folds(f, a, base, turns, WFQTurns)
    <2>1. \A st, turn : Turned(st, turn) = WFQStep(a, st, turn)
      BY DEF WFQStep
    <2>2. \A s : Max(s) = Turning!Greatest(s)
      BY DEF Turning!Greatest, Max
    <2>3. DOMAIN turns = 1..WFQTurns
      OBVIOUS
    <2> HIDE DEF Turned, a, turns
    <2>4. ASSUME NEW f
          PROVE  [s \in SUBSET DOMAIN turns |->
                    IF s = {} THEN base
                    ELSE Turned(f[s \ {Max(s)}], turns[Max(s)])]
                 = [s \in SUBSET (1..WFQTurns) |->
                    IF s = {} THEN base
                    ELSE WFQStep(a, f[s \ {Turning!Greatest(s)}],
                                 turns[Turning!Greatest(s)])]
      BY <2>1, <2>2, <2>3
    <2> QED
      BY <2>4 DEF Turning!Folds
  <1>3. \A f : Turns(f)
               => \E g : Turns(g) /\ FormBatch("wfq", q, vt, running, used)
                                       = g[DOMAIN turns]
    BY DEF FormBatch, FoldLeft, MapThenFoldSet
  <1>4. PICK f : Turning!Folds(f, a, base, turns, WFQTurns)
    BY <1>1, Turning!FoldExists
  <1>5. DOMAIN turns = 1..WFQTurns
    OBVIOUS
  <1> HIDE DEF Turns, turns, a, base
  <1>6. Turning!FoldOf(FormBatch("wfq", q, vt, running, used), a, base, turns,
                       WFQTurns)
    BY <1>2, <1>3, <1>4, <1>5 DEF Turning!FoldOf
  <1> QED
    BY <1>6 DEF turns, a, base

LEMMA WFQKeeps ==
  ASSUME NEW q \in Seq(Requests), IsInjective(q), NEW vt \in [Tiers -> Nat],
         NEW running \in Nat, NEW used \in Int
  PROVE  FormBatch("wfq", q, vt, running, used) \in WFQStates(q, running, used)
  <1> DEFINE a == [running |-> running, used |-> used]
             base == [chosen |-> <<>>, left |-> q, vt |-> vt]
             turns == [turn \in 1..WFQTurns |-> turn]
             formed == FormBatch("wfq", q, vt, running, used)
             R == [n \in 0..WFQTurns |-> WFQStates(q, running, used)]
  <1>1. /\ WFQTurns \in Nat
        /\ Turning!FoldOf(formed, a, base, turns, WFQTurns)
    BY WFQTurnsType, WFQFolds
  <1>2. base \in R[0]
    <2>1. /\ <<>> \in Seq(Requests) /\ ToSet(<<>>) = {}
          /\ IsInjective(<<>>)
      BY DEF ToSet, IsInjective
    <2>2. <<>> \in Choice(ToSet(q), running, used, MaxBatchSize)
      BY <2>1 DEF Choice
    <2>3. base \in WFQStates(q, running, used)
      BY <2>1, <2>2 DEF WFQStates
    <2> QED
      BY <1>1, <2>3
  <1>3. \A st, turn : WFQStep(a, st, turn) = WFQTurn(st, running, used)
    BY DEF WFQStep
  <1> HIDE DEF a, base, turns, formed
  <1>4. \A n \in 1..WFQTurns : \A st \in R[n - 1] :
          WFQStep(a, st, turns[n]) \in R[n]
    <2> SUFFICES ASSUME NEW n \in 1..WFQTurns, NEW st \in R[n - 1]
                 PROVE  WFQStep(a, st, turns[n]) \in R[n]
      OBVIOUS
    <2>1. st \in WFQStates(q, running, used)
      BY <1>1
    <2>2. WFQTurn(st, running, used) \in WFQStates(q, running, used)
      BY <2>1, WFQTurnKeeps
    <2> QED
      BY <1>1, <1>3, <2>2
  <1> HIDE DEF R
  <1>5. formed \in R[WFQTurns]
    BY <1>1, <1>2, <1>4, Turning!LoopInvariant
  <1> QED
    BY <1>1, <1>5 DEF R, formed

LEMMA WFQInOrder ==
  ASSUME NEW q \in Seq(Requests), IsInjective(q), InOrder("wfq", q),
         NEW vt \in [Tiers -> Nat], NEW running \in Nat, NEW used \in Int
  PROVE  WFQInTurn(FormBatch("wfq", q, vt, running, used), used)
  <1> DEFINE a == [running |-> running, used |-> used]
             base == [chosen |-> <<>>, left |-> q, vt |-> vt]
             turns == [turn \in 1..WFQTurns |-> turn]
             formed == FormBatch("wfq", q, vt, running, used)
             T == {st \in WFQStates(q, running, used) : WFQInTurn(st, used)}
             R == [n \in 0..WFQTurns |-> T]
  <1>1. /\ WFQTurns \in Nat
        /\ Turning!FoldOf(formed, a, base, turns, WFQTurns)
    BY WFQTurnsType, WFQFolds
  <1>2. base \in T
    <2>1. /\ <<>> \in Seq(Requests) /\ ToSet(<<>>) = {}
          /\ IsInjective(<<>>)
      BY DEF ToSet, IsInjective
    <2>2. <<>> \in Choice(ToSet(q), running, used, MaxBatchSize)
      BY <2>1 DEF Choice
    <2>3. base \in WFQStates(q, running, used)
      BY <2>1, <2>2 DEF WFQStates
    <2> QED
      BY <2>1, <2>3 DEF WFQInTurn, OvertakenForMemory, InTurn
  <1>3. \A st, turn : WFQStep(a, st, turn) = WFQTurn(st, running, used)
    BY DEF WFQStep
  <1> HIDE DEF a, base, turns, formed
  <1>4. ASSUME NEW st \in T
        PROVE  WFQTurn(st, running, used) \in T
    <2>1. WFQTurn(st, running, used) \in WFQStates(q, running, used)
      BY WFQTurnKeeps
    <2>2. WFQInTurn(WFQTurn(st, running, used), used)
      BY WFQTurnInTurn
    <2> QED
      BY <2>1, <2>2
  <1> HIDE DEF T
  <1>5. \A n \in 1..WFQTurns : \A st \in R[n - 1] :
          WFQStep(a, st, turns[n]) \in R[n]
    BY <1>1, <1>3, <1>4
  <1>6. base \in R[0]
    BY <1>1, <1>2
  <1> HIDE DEF R
  <1>7. formed \in R[WFQTurns]
    BY <1>1, <1>5, <1>6, Turning!LoopInvariant
  <1> QED
    BY <1>1, <1>7 DEF R, T, formed

-----------------------------------------------------------------------------
(* Pressure halves the batch size of dynbatch but leaves it at least one,  *)
(* and a short queue lowers it to no less than its length.                 *)
LEMMA EffectiveBatchSizeBounds ==
  ASSUME NEW q \in Seq(Requests)
  PROVE  /\ EffectiveBatchSize(q) \in Nat
         /\ EffectiveBatchSize(q) <= MaxBatchSize
         /\ q # <<>> => EffectiveBatchSize(q) > 0
  <1>1. Len(q) \in Nat /\ (q # <<>> => Len(q) > 0)
    OBVIOUS
  <1>2. MaxBatchSize \in Nat /\ MaxBatchSize > 0
    BY ModelAssumption
  <1> QED
    BY <1>1, <1>2 DEF EffectiveBatchSize

(* The contract of scheduler.Scheduler that the engine relies on: what is  *)
(* handed out comes from the queue, each request once, leaves the batch    *)
(* within its limit and fits, by its worst case, beside what the worker    *)
(* uses; the rest stays queued.  Only weighted fair queueing can hand an   *)
(* idle worker nothing though a request fits it.                           *)
KeepsContract(policy, q, running, used, formed) ==
  /\ formed.chosen \in Choice(ToSet(q), running, used, MaxBatchSize)
  /\ formed.left \in Seq(Requests) /\ IsInjective(formed.left)
  /\ ToSet(formed.left) = ToSet(q) \ ToSet(formed.chosen)
  /\ formed.vt \in [Tiers -> Nat]
  /\ policy # "wfq" /\ running = 0 /\ q # <<>> /\ formed.chosen = <<>>
       => \A r \in ToSet(q) : WorstTokens[r] > MemoryTokens - used

(* The FormBatch of each of the five policies keeps that contract, for     *)
(* every queue, batch, memory and virtual time.                            *)
THEOREM FormBatchContract ==
  ASSUME NEW policy, NEW q \in Seq(Requests), IsInjective(q),
         NEW vt \in [Tiers -> Nat], NEW running \in Nat, NEW used \in Int
  PROVE  KeepsContract(policy, q, running, used,
                       FormBatch(policy, q, vt, running, used))
  <1>1. CASE policy = "wfq"
    <2> DEFINE formed == FormBatch("wfq", q, vt, running, used)
    <2>1. formed \in WFQStates(q, running, used)
      BY WFQKeeps
    <2> HIDE DEF formed
    <2> QED
      BY <1>1, <2>1 DEF WFQStates, KeepsContract, formed
  <1>2. CASE policy # "wfq"
    <2> DEFINE limit == IF policy = "dynbatch" THEN EffectiveBatchSize(q)
                        ELSE MaxBatchSize
               picked == Scan(q, running, used, limit)
               left == Without(q, ToSet(picked))
    <2>1. FormBatch(policy, q, vt, running, used)
            = [chosen |-> picked, left |-> left, vt |-> vt]
      BY <1>2 DEF FormBatch
    <2>2. /\ limit \in Int /\ limit <= MaxBatchSize
          /\ q # <<>> => limit > 0
      BY EffectiveBatchSizeBounds, ModelAssumption
    <2> HIDE DEF limit
    <2>3. /\ picked \in Choice(ToSet(q), running, used, limit)
          /\ picked = <<>> /\ running < limit =>
               \A r \in ToSet(q) : WorstTokens[r] > MemoryTokens - used
      BY <2>2, ScanFits
    <2> HIDE DEF picked
    <2>4. picked \in Choice(ToSet(q), running, used, MaxBatchSize)
      <3>1. picked \in Seq(Requests) /\ Len(picked) \in Nat
        BY <2>3 DEF Choice
      <3>2. running + Len(picked) <= limit
              => running + Len(picked) <= MaxBatchSize
        BY <2>2, <3>1, ModelAssumption
      <3> QED
        BY <2>3, <3>2 DEF Choice
    <2>5. /\ left \in Seq(Requests) /\ IsInjective(left)
          /\ ToSet(left) = ToSet(q) \ ToSet(picked)
      BY WithoutKeeps
    <2> HIDE DEF left
    <2>6. running = 0 /\ q # <<>> => running < limit
      BY <2>2
    <2> QED
      BY <2>1, <2>3, <2>4, <2>5, <2>6 DEF KeepsContract
  <1> QED
    BY <1>1, <1>2

ServesInOrder(policy, used, formed) ==
  /\ InOrder(policy, formed.left)
  /\ Spared(policy, ToSet(formed.left), ToSet(formed.chosen), used)
  /\ policy = "wfq" =>
       InTurn(formed.vt, ToSet(formed.left), ToSet(formed.chosen))

(* The FormBatch of each of the five policies leaves its queue in order,   *)
(* and what it hands out overtakes a waiting request that the policy ranks *)
(* ahead only for want of memory, and never one of its own tier and size.  *)
(* Weighted fair queueing ranks by arrival within a tier; of two tiers the *)
(* one that is served stays within one step of virtual time of the other,  *)
(* as long as that has not been shut out.                                  *)
THEOREM FormBatchInOrder ==
  ASSUME NEW policy, NEW q \in Seq(Requests), IsInjective(q),
         InOrder(policy, q),
         NEW vt \in [Tiers -> Nat], NEW running \in Nat, NEW used \in Int
  PROVE  ServesInOrder(policy, used, FormBatch(policy, q, vt, running, used))
  <1>1. CASE policy = "wfq"
    <2> DEFINE formed == FormBatch("wfq", q, vt, running, used)
    <2>1. WFQInTurn(formed, used)
      BY <1>1, WFQInOrder
    <2>2. formed \in WFQStates(q, running, used)
      BY WFQKeeps
    <2> HIDE DEF formed
    <2>3. /\ ToSet(formed.left) \in SUBSET Requests
          /\ ToSet(formed.chosen) \in SUBSET Requests
          /\ ToSet(formed.left) \cap ToSet(formed.chosen) = {}
          /\ ToSet(formed.chosen) # {} =>
               used + TokenSum(ToSet(formed.chosen), WorstTokens) <= MemoryTokens
      BY <2>2, MembersOf DEF WFQStates, Choice
    <2>4. Spared("wfq", ToSet(formed.left), ToSet(formed.chosen), used)
      BY <2>1, <2>3, ClassSpared DEF WFQInTurn
    <2> QED
      BY <1>1, <2>1, <2>4 DEF WFQInTurn, ServesInOrder, formed
  <1>2. CASE policy # "wfq"
    <2> DEFINE limit == IF policy = "dynbatch" THEN EffectiveBatchSize(q)
                        ELSE MaxBatchSize
               picked == Scan(q, running, used, limit)
               left == Without(q, ToSet(picked))
               F == ToSet(picked)
    <2>1. FormBatch(policy, q, vt, running, used)
            = [chosen |-> picked, left |-> left, vt |-> vt]
      BY <1>2 DEF FormBatch
    <2>2. limit \in Int
      BY EffectiveBatchSizeBounds, ModelAssumption
    <2> HIDE DEF limit
    <2>3. picked \in Choice(ToSet(q), running, used, limit)
      BY <2>2, ScanFits
    <2>4. \A i \in 1..Len(q) : q[i] \notin F =>
            PassedOver(q, picked, i, Len(q), used)
      BY <2>2, ScanSkips
    <2> HIDE DEF picked
    <2>5. InOrder(policy, left) /\ ToSet(left) = ToSet(q) \ F
      BY WithoutInOrder, WithoutKeeps
    <2> HIDE DEF left
    <2>6. ToSet(q) \in SUBSET Requests /\ DOMAIN q = 1..Len(q)
      BY MembersOf
    <2>7. /\ F \subseteq ToSet(q)
          /\ F # {} => used + TokenSum(F, WorstTokens) <= MemoryTokens
      <3>1. picked = <<>> => F = {}
        BY DEF ToSet
      <3> QED
        BY <2>3, <3>1 DEF Choice
    <2>8. ASSUME NEW r \in ToSet(left), NEW s \in F, Outranks(policy, r, s)
          PROVE  Misfit(policy, r, F, used)
      <3>1. PICK i \in 1..Len(q), j \in 1..Len(q) : r = q[i] /\ s = q[j]
        BY <2>5, <2>6, <2>7 DEF ToSet
      <3>2. i < j
        <4>1. ~(j < i)
          BY <2>6, <2>8, <3>1 DEF InOrder, Outranks
        <4>2. i # j
          BY <2>5, <3>1
        <4> QED
          BY <4>1, <4>2
      <3>3. PassedOver(q, picked, i, Len(q), used)
        BY <2>4, <2>5, <3>1
      <3>4. j \in (i + 1)..Len(q)
        BY <3>2
      <3> DEFINE C == F \cap Passed(q, i - 1)
      <3>5. used + TokenSum(C \cup {r}, WorstTokens) > MemoryTokens
        BY <3>1, <3>3, <3>4 DEF PassedOver
      <3>6. \A x \in C : ~Outranks(policy, r, x)
        <4> SUFFICES ASSUME NEW x \in C PROVE ~Outranks(policy, r, x)
          OBVIOUS
        <4>1. PICK k \in 1..(i - 1) : x = q[k]
          BY DEF Passed
        <4>2. k \in 1..Len(q) /\ k < i
          OBVIOUS
        <4> QED
          BY <2>6, <3>1, <4>1, <4>2 DEF InOrder, Outranks
      <3> HIDE DEF F
      <3> QED
        BY <3>5, <3>6 DEF Misfit
    <2>9. ToSet(left) \in SUBSET Requests /\ F \in SUBSET Requests
          /\ ToSet(left) \cap F = {}
      BY <2>5, <2>6, <2>7
    <2>10. Spared(policy, ToSet(left), F, used)
      <3> HIDE DEF F
      <3>1. OvertakenForMemory(policy, ToSet(left), F, used)
        BY <2>8 DEF OvertakenForMemory
      <3> QED
        BY <2>7, <2>9, <3>1, ClassSpared
    <2> DEFINE formed == FormBatch(policy, q, vt, running, used)
    <2>11. formed.chosen = picked /\ formed.left = left
      BY <2>1
    <2> HIDE DEF formed
    <2>12. Spared(policy, ToSet(left), ToSet(picked), used)
      BY <2>10
    <2>13. ServesInOrder(policy, used, formed)
      BY <1>2, <2>5, <2>11, <2>12, Zenon DEF ServesInOrder
    <2> QED
      BY <2>13 DEF formed
  <1> QED
    BY <1>1, <1>2
=============================================================================
