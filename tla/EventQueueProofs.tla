-------------------------- MODULE EventQueueProofs --------------------------
(***************************************************************************)
(* The heap of the event queue keeps its order under every sequence of     *)
(* pushes and pops, its rounded keys never put an event before an earlier  *)
(* one, and the loop of Engine.Run does what EventBag promises.            *)
(***************************************************************************)
EXTENDS EventQueue, FiniteSetTheorems, TLAPS

(* The body of the loop in up.                                             *)
Lifted(a, st, turn) ==
  LET parent == st.at \div 2 IN
  IF parent >= 1 /\ Less(st.h, st.at, parent)
  THEN [h |-> Swap(st.h, st.at, parent), at |-> parent] ELSE st

Lifting == INSTANCE FoldProofs WITH Step <- Lifted

-----------------------------------------------------------------------------
(* Powers of two, counted as subsets.                                      *)
LEMMA PowerDoubles ==
  ASSUME NEW k \in Nat
  PROVE  /\ 2^k \in Nat /\ 2^k > 0
         /\ 2^(k + 1) = 2 * 2^k
  <1> DEFINE S == SUBSET (1..k)
             T == SUBSET (1..(k + 1))
             U == {s \cup {k + 1} : s \in S}
             f == [s \in S |-> s \cup {k + 1}]
  <1>1. IsFiniteSet(S) /\ Cardinality(S) = 2^k
    <2>1. IsFiniteSet(1..k) /\ Cardinality(1..k) = k
      BY FS_Interval
    <2> QED
      BY <2>1, FS_SUBSET
  <1>2. Cardinality(T) = 2^(k + 1)
    <2>1. IsFiniteSet(1..(k + 1)) /\ Cardinality(1..(k + 1)) = k + 1
      BY FS_Interval
    <2> QED
      BY <2>1, FS_SUBSET
  <1>3. \A s \in S : k + 1 \notin s
    OBVIOUS
  <1>4. f \in Bijection(S, U)
    <2>1. \A s, t \in S : s \cup {k + 1} = t \cup {k + 1} => s = t
      BY <1>3
    <2> HIDE DEF S
    <2>2. f \in [S -> U] /\ \A s \in S : f[s] = s \cup {k + 1}
      OBVIOUS
    <2>3. \A u \in U : \E s \in S : f[s] = u
      OBVIOUS
    <2> HIDE DEF f, U
    <2> QED
      BY <2>1, <2>2, <2>3 DEF Bijection, Injection, Surjection, IsInjective
  <1>5. IsFiniteSet(U) /\ Cardinality(U) = 2^k
    BY <1>1, <1>4, FS_Bijection DEF ExistsBijection
  <1>6. T = S \cup U
    <2>1. ASSUME NEW t \in T PROVE t \in S \cup U
      <3>1. t \ {k + 1} \in S
        OBVIOUS
      <3>2. CASE k + 1 \in t
        <4>1. t = (t \ {k + 1}) \cup {k + 1}
          BY <3>2
        <4> HIDE DEF S
        <4> QED
          BY <3>1, <4>1
      <3>3. CASE k + 1 \notin t
        <4>1. t = t \ {k + 1}
          BY <3>3
        <4> QED
          BY <3>1, <4>1
      <3> QED
        BY <3>2, <3>3
    <2>2. \A s \in S : s \in T /\ s \cup {k + 1} \in T
      OBVIOUS
    <2> HIDE DEF S, T
    <2> QED
      BY <2>1, <2>2
  <1>7. S \cap U = {}
    <2> HIDE DEF S
    <2> QED
      BY <1>3
  <1> HIDE DEF S, T, U
  <1>8. 2^k \in Nat
    BY <1>1, FS_CardinalityType
  <1>9. 2^(k + 1) = 2^k + 2^k
    <2>1. Cardinality(S \cup U) = Cardinality(S) + Cardinality(U) - Cardinality({})
      BY <1>1, <1>5, <1>7, FS_Union
    <2> QED
      BY <1>1, <1>2, <1>5, <1>6, <1>8, <2>1, FS_EmptySet
  <1>10. 2^k > 0
    <2>1. S # {}
      BY DEF S
    <2>2. Cardinality(S) # 0
      BY <1>1, <2>1, FS_EmptySet
    <2> QED
      BY <1>1, <1>8, <2>2
  <1> QED
    BY <1>8, <1>9, <1>10

LEMMA PowerOfNothing == 2^0 = 1
  OBVIOUS

LEMMA PowerAtLeast == \A n \in Nat : n < 2^n
  <1> SUFFICES ASSUME NEW N \in Nat PROVE N < 2^N
    OBVIOUS
  <1> DEFINE T == {n \in 0..N : n < 2^n}
  <1>1. 0 \in T
    BY PowerOfNothing
  <1>2. ASSUME NEW n \in 1..N, n - 1 \in T PROVE n \in T
    <2>1. n - 1 \in Nat /\ (n - 1) + 1 = n /\ n - 1 < 2^(n - 1)
      BY <1>2
    <2>2. 2^(n - 1) \in Nat /\ 2^((n - 1) + 1) = 2 * 2^(n - 1)
      BY <2>1, PowerDoubles
    <2>3. 2^n = 2 * 2^(n - 1)
      BY <2>1, <2>2
    <2>4. n < 2^n
      BY <2>1, <2>2, <2>3
    <2> QED
      BY <2>4
  <1> HIDE DEF T
  <1>3. N \in T
    BY <1>1, <1>2, Lifting!UpTo
  <1> QED
    BY <1>3 DEF T

LEMMA PowerSum ==
  ASSUME NEW k \in Nat, NEW N \in Nat
  PROVE  2^(k + N) = 2^k * 2^N
  <1> DEFINE T == {n \in 0..N : 2^(k + n) = 2^k * 2^n}
  <1>1. 0 \in T
    <2>1. 2^k \in Nat
      BY PowerDoubles
    <2>2. 2^(k + 0) = 2^k * 2^0
      BY <2>1, PowerOfNothing
    <2> QED
      BY <2>2
  <1>2. ASSUME NEW n \in 1..N, n - 1 \in T PROVE n \in T
    <2> DEFINE m == n - 1
               a == 2^k
               b == 2^m
    <2>1. m \in Nat /\ m + 1 = n /\ k + m \in Nat /\ (k + m) + 1 = k + n
          /\ 2^(k + m) = a * b
      BY <1>2
    <2>2. a \in Nat /\ b \in Nat
      BY <2>1, PowerDoubles
    <2>3. 2^(m + 1) = 2 * b
      BY <2>1, PowerDoubles
    <2>4. 2^((k + m) + 1) = 2 * 2^(k + m)
      BY <2>1, PowerDoubles
    <2>5. 2^(k + n) = 2 * (a * b) /\ 2^n = 2 * b
      BY <2>1, <2>3, <2>4
    <2> HIDE DEF a, b
    <2>6. 2 * (a * b) = a * (2 * b)
      BY <2>2
    <2>7. 2^(k + n) = 2^k * 2^n
      BY <2>5, <2>6 DEF a
    <2> QED
      BY <2>7
  <1> HIDE DEF T
  <1>3. N \in T
    BY <1>1, <1>2, Lifting!UpTo
  <1> QED
    BY <1>3 DEF T

LEMMA PowerMonotone ==
  ASSUME NEW j \in Nat, NEW k \in Nat, j <= k
  PROVE  2^j <= 2^k
  <1>1. k - j \in Nat /\ k = j + (k - j)
    OBVIOUS
  <1>2. 2^(j + (k - j)) = 2^j * 2^(k - j)
    BY <1>1, PowerSum
  <1> DEFINE a == 2^j
             b == 2^(k - j)
  <1>3. a \in Nat /\ b \in Nat /\ b >= 1
    BY <1>1, PowerDoubles
  <1> HIDE DEF a, b
  <1>4. a <= a * b
    BY <1>3
  <1> QED
    BY <1>1, <1>2, <1>4 DEF a, b

-----------------------------------------------------------------------------
(* Rounding to a multiple of u, and to the unit of a floating-point number *)
(* of the size of n.                                                       *)
Nearest(n, u) ==
  LET q == n \div u
  IN IF 2 * (n % u) < u \/ (2 * (n % u) = u /\ q % 2 = 0)
     THEN q * u ELSE (q + 1) * u

LEMMA RoundedNearest == \A n : Rounded(n) = Nearest(n, Unit(n))
  BY DEF Rounded, Nearest

LEMMA Division ==
  ASSUME NEW n \in Nat, NEW u \in Nat, u > 0
  PROVE  /\ n \div u \in Nat /\ n % u \in Nat /\ n % u < u
         /\ n = (n \div u) * u + (n % u)
  OBVIOUS

LEMMA NearestBounds ==
  ASSUME NEW n \in Nat, NEW u \in Nat, u > 0
  PROVE  /\ Nearest(n, u) \in Nat
         /\ \A a \in Nat : n < a * u => Nearest(n, u) <= a * u
         /\ \A a \in Nat : n >= a * u => Nearest(n, u) >= a * u
  <1> DEFINE q == n \div u
             r == n % u
             up == q * u + u
  <1>1. q \in Nat /\ r \in Nat /\ r < u /\ n = q * u + r
    BY Division
  <1>2. Nearest(n, u) = q * u \/ Nearest(n, u) = (q + 1) * u
    BY DEF Nearest
  <1> HIDE DEF q, r
  <1>3. (q + 1) * u = q * u + u /\ q * u \in Nat
    BY <1>1
  <1>4. Nearest(n, u) \in Nat
    BY <1>2, <1>3
  <1>5. ASSUME NEW a \in Nat, n < a * u
        PROVE  Nearest(n, u) <= a * u
    <2>1. a * u \in Nat
      OBVIOUS
    <2>2. q * u < a * u
      BY <1>1, <1>3, <1>5, <2>1
    <2>3. q < a
      <3> SUFFICES ASSUME a <= q PROVE FALSE
        BY <1>1
      <3>1. a * u <= q * u
        BY <1>1
      <3> QED
        BY <1>3, <2>1, <2>2, <3>1
    <2>4. (q + 1) * u <= a * u
      <3>1. q + 1 \in Nat /\ q + 1 <= a
        BY <1>1, <2>3
      <3> QED
        BY <3>1
    <2> QED
      BY <1>2, <1>3, <2>1, <2>2, <2>4
  <1>6. ASSUME NEW a \in Nat, n >= a * u
        PROVE  Nearest(n, u) >= a * u
    <2>1. a * u \in Nat
      OBVIOUS
    <2>2. a * u < (q + 1) * u
      BY <1>1, <1>3, <1>6, <2>1
    <2>3. a <= q
      <3> SUFFICES ASSUME q + 1 <= a PROVE FALSE
        BY <1>1
      <3>1. (q + 1) * u <= a * u
        <4>1. q + 1 \in Nat
          BY <1>1
        <4> QED
          BY <4>1
      <3> QED
        BY <1>3, <2>1, <2>2, <3>1
    <2>4. a * u <= q * u
      BY <1>1, <2>3
    <2> QED
      BY <1>2, <1>3, <2>1, <2>4
  <1> QED
    BY <1>4, <1>5, <1>6

LEMMA NearestMonotone ==
  ASSUME NEW m \in Nat, NEW n \in Nat, m <= n, NEW u \in Nat, u > 0
  PROVE  Nearest(m, u) <= Nearest(n, u)
  <1> DEFINE q == n \div u
             r == n % u
             p == m \div u
             s == m % u
  <1>1. q \in Nat /\ r \in Nat /\ r < u /\ n = q * u + r
    BY Division
  <1>2. p \in Nat /\ s \in Nat /\ s < u /\ m = p * u + s
    BY Division
  <1>3. /\ Nearest(n, u) = IF 2 * r < u \/ (2 * r = u /\ q % 2 = 0)
                           THEN q * u ELSE (q + 1) * u
        /\ Nearest(m, u) = IF 2 * s < u \/ (2 * s = u /\ p % 2 = 0)
                           THEN p * u ELSE (p + 1) * u
    BY DEF Nearest
  <1> HIDE DEF q, r, p, s
  <1>4. /\ (q + 1) * u = q * u + u /\ q * u \in Nat
        /\ (p + 1) * u = p * u + u /\ p * u \in Nat
    BY <1>1, <1>2
  <1>5. p <= q
    <2> SUFFICES ASSUME q + 1 <= p PROVE FALSE
      BY <1>1, <1>2
    <2>1. (q + 1) * u <= p * u
      <3>1. q + 1 \in Nat
        BY <1>1
      <3> QED
        BY <1>2, <3>1
    <2> QED
      BY <1>1, <1>2, <1>4, <2>1
  <1>6. CASE p = q
    <2>1. s <= r
      BY <1>1, <1>2, <1>4, <1>6
    <2> QED
      BY <1>1, <1>2, <1>3, <1>4, <1>6, <2>1
  <1>7. CASE p < q
    <2>1. p + 1 \in Nat /\ p + 1 <= q
      BY <1>1, <1>2, <1>7
    <2>2. (p + 1) * u <= q * u
      BY <1>1, <2>1
    <2> QED
      BY <1>3, <1>4, <2>2
  <1> QED
    BY <1>1, <1>2, <1>5, <1>6, <1>7

LEMMA UnitPower ==
  ASSUME NEW n \in Nat
  PROVE  \E k \in Nat : /\ Unit(n) = 2^k
                        /\ n < 2^(k + Precision)
                        /\ \A j \in 0..(k - 1) : n >= 2^(j + Precision)
  <1> DEFINE Enough(k) == n < 2^(k + Precision)
             T == {k \in Nat : Enough(k)}
  <1>1. Precision \in Nat
    BY EventAssumption
  <1>2. Enough(n)
    <2>1. n <= n + Precision /\ n + Precision \in Nat
      BY <1>1
    <2>2. 2^n <= 2^(n + Precision) /\ n < 2^n
      BY <2>1, PowerMonotone, PowerAtLeast
    <2>3. 2^n \in Nat /\ 2^(n + Precision) \in Nat
      BY <2>1, PowerDoubles
    <2> QED
      BY <2>2, <2>3
  <1>3. PICK m \in T : \A k \in T : m <= k
    <2>1. T \in SUBSET Nat /\ T # {}
      BY <1>2
    <2> HIDE DEF T
    <2> QED
      BY <2>1, Lifting!LeastNatural
  <1>4. m \in Nat /\ Enough(m) /\ m <= n
    BY <1>2, <1>3
  <1> DEFINE Fits(k) == /\ n < 2^(k + Precision)
                        /\ \A j \in 0..(k - 1) : n >= 2^(j + Precision)
  <1>5. Fits(m)
    <2> SUFFICES ASSUME NEW j \in 0..(m - 1) PROVE n >= 2^(j + Precision)
      BY <1>4
    <2>1. j \in Nat /\ ~(m <= j)
      BY <1>4
    <2>2. ~Enough(j)
      BY <1>3, <2>1
    <2>3. 2^(j + Precision) \in Nat
      BY <1>1, <2>1, PowerDoubles
    <2> QED
      BY <2>2, <2>3
  <1>6. m \in 0..n
    BY <1>4
  <1> DEFINE k == CHOOSE k \in 0..n : Fits(k)
  <1> HIDE DEF Fits, T
  <1>7. k \in 0..n /\ Fits(k)
    BY <1>5, <1>6
  <1>8. Unit(n) = 2^k
    BY DEF Unit, Fits
  <1> HIDE DEF k
  <1> QED
    BY <1>7, <1>8 DEF Fits

(* Rounding keeps the order of numbers, though their units differ.         *)
LEMMA RoundedMonotone ==
  ASSUME NEW m \in Nat, NEW n \in Nat, m <= n
  PROVE  Rounded(m) <= Rounded(n) /\ Rounded(m) \in Nat
  <1>1. Precision \in Nat /\ Precision > 0
    BY EventAssumption
  <1>2. PICK j \in Nat : /\ Unit(m) = 2^j
                         /\ m < 2^(j + Precision)
                         /\ \A i \in 0..(j - 1) : m >= 2^(i + Precision)
    BY UnitPower
  <1>3. PICK k \in Nat : /\ Unit(n) = 2^k
                         /\ n < 2^(k + Precision)
                         /\ \A i \in 0..(k - 1) : n >= 2^(i + Precision)
    BY UnitPower
  <1> DEFINE u == 2^j
             v == 2^k
             b == 2^(j + Precision)
  <1>4. /\ u \in Nat /\ u > 0 /\ v \in Nat /\ v > 0 /\ b \in Nat
    <2>1. j + Precision \in Nat
      BY <1>1
    <2> QED
      BY <2>1, PowerDoubles
  <1>5. Rounded(m) = Nearest(m, u) /\ Rounded(n) = Nearest(n, v)
    BY <1>2, <1>3, RoundedNearest
  <1>6. b = 2^Precision * u /\ 2^Precision \in Nat
    <2>1. 2^(j + Precision) = 2^j * 2^Precision /\ 2^Precision \in Nat
      BY <1>1, PowerSum, PowerDoubles
    <2> DEFINE c == 2^Precision
    <2>2. b = u * c /\ c \in Nat
      BY <2>1
    <2> HIDE DEF c, u, b
    <2>3. b = c * u
      BY <1>4, <2>2
    <2> QED
      BY <2>2, <2>3 DEF c
  <1>7. CASE j = k
    <2>1. u = v
      BY <1>7
    <2> HIDE DEF u, v, b
    <2>2. Nearest(m, u) <= Nearest(n, u) /\ Nearest(m, u) \in Nat
      BY <1>4, NearestMonotone, NearestBounds
    <2> QED
      BY <1>5, <2>1, <2>2
  <1>8. CASE k < j
    <2>1. k \in 0..(j - 1)
      BY <1>8
    <2>2. m >= 2^(k + Precision) /\ 2^(k + Precision) \in Nat
      <3>1. k + Precision \in Nat
        BY <1>1
      <3> QED
        BY <1>2, <2>1, <3>1, PowerDoubles
    <2> QED
      BY <1>3, <2>2
  <1>9. CASE j < k
    <2> DEFINE l == k - 1 - j
               e == j + Precision - k
               d == 2^(Precision - 1)
    <2>1. n >= b
      <3>1. j \in 0..(k - 1)
        BY <1>9
      <3> QED
        BY <1>3, <3>1
    <2>2. Nearest(m, u) <= b
      <3> DEFINE c == 2^Precision
      <3>1. c \in Nat /\ m < c * u /\ b = c * u
        BY <1>2, <1>6
      <3> HIDE DEF c, u, b
      <3>2. Nearest(m, u) <= c * u
        BY <1>4, <3>1, NearestBounds
      <3> QED
        BY <3>1, <3>2
    <2>3. b <= Nearest(n, v)
      <3>1. /\ Precision - 1 \in Nat /\ k + (Precision - 1) \in Nat
            /\ k - 1 \in 0..(k - 1)
            /\ j + Precision <= k + (Precision - 1)
            /\ (k - 1) + Precision = k + (Precision - 1)
        BY <1>1, <1>9
      <3>2. b <= 2^(k + (Precision - 1))
        <4>1. j + Precision \in Nat
          BY <1>1
        <4> QED
          BY <3>1, <4>1, PowerMonotone
      <3>3. n >= 2^(k + (Precision - 1))
        BY <1>3, <3>1
      <3>4. 2^(k + (Precision - 1)) = v * d /\ d \in Nat
        BY <3>1, PowerSum, PowerDoubles
      <3> HIDE DEF u, v, b, d
      <3>5. v * d = d * v
        BY <1>4, <3>4
      <3>6. Nearest(n, v) >= d * v /\ Nearest(n, v) \in Nat
        BY <1>4, <3>3, <3>4, <3>5, NearestBounds
      <3> QED
        BY <1>4, <3>2, <3>4, <3>5, <3>6
    <2> HIDE DEF u, v, b
    <2>4. Nearest(m, u) \in Nat /\ Nearest(n, v) \in Nat
      BY <1>4, NearestBounds
    <2> QED
      BY <1>4, <1>5, <2>2, <2>3, <2>4
  <1> QED
    BY <1>7, <1>8, <1>9

LEMMA RoundedType == \A n \in Nat : Rounded(n) \in Nat
  <1> SUFFICES ASSUME NEW n \in Nat PROVE Rounded(n) \in Nat
    OBVIOUS
  <1>1. n <= n
    OBVIOUS
  <1> QED
    BY <1>1, RoundedMonotone

-----------------------------------------------------------------------------
(* The events in the heap, each with a sequence number of its own.         *)
Event == [timeMs : Times, seqNum : Nat]

Distinct(h) ==
  \A i, j \in 1..Len(h) : h[i].seqNum = h[j].seqNum => i = j

HeapOrder(h) ==
  \A i \in 2..Len(h) : Priority(h[i \div 2]) <= Priority(h[i])

LEMMA PriorityType == \A e \in Event : Priority(e) \in Nat
  <1> SUFFICES ASSUME NEW e \in Event PROVE Priority(e) \in Nat
    OBVIOUS
  <1>1. e.timeMs \in Nat /\ e.seqNum \in Nat
    BY EventAssumption DEF Event
  <1>2. e.timeMs + e.seqNum \in Nat
    BY <1>1
  <1> QED
    BY <1>2, RoundedType DEF Priority

LEMMA Halves ==
  ASSUME NEW i \in Nat, i >= 2
  PROVE  /\ i \div 2 \in Nat /\ i \div 2 >= 1 /\ i \div 2 < i
         /\ i = 2 * (i \div 2) \/ i = 2 * (i \div 2) + 1
  OBVIOUS

(* g holds the events of h in some order.                                  *)
Shuffled(g, h) ==
  /\ g \in Seq(Event) /\ Len(g) = Len(h) /\ ToSet(g) = ToSet(h)
  /\ Distinct(g)

LEMMA SwapShuffles ==
  ASSUME NEW h \in Seq(Event), Distinct(h),
         NEW i \in 1..Len(h), NEW j \in 1..Len(h)
  PROVE  LET g == Swap(h, i, j) IN
         /\ Shuffled(g, h)
         /\ \A k \in 1..Len(h) :
              g[k] = IF k = i THEN h[j] ELSE IF k = j THEN h[i] ELSE h[k]
  <1> DEFINE g == Swap(h, i, j)
  <1>1. /\ g \in Seq(Event) /\ Len(g) = Len(h)
        /\ \A k \in 1..Len(h) :
             g[k] = IF k = i THEN h[j] ELSE IF k = j THEN h[i] ELSE h[k]
    BY DEF Swap
  <1> HIDE DEF g
  <1>2. /\ DOMAIN g = 1..Len(h) /\ DOMAIN h = 1..Len(h)
    BY <1>1
  <1>3. ToSet(g) = ToSet(h)
    <2>1. \A k \in 1..Len(h) : \E l \in 1..Len(h) : g[k] = h[l]
      BY <1>1
    <2>2. \A k \in 1..Len(h) : \E l \in 1..Len(h) : h[k] = g[l]
      <3> SUFFICES ASSUME NEW k \in 1..Len(h)
                   PROVE  \E l \in 1..Len(h) : h[k] = g[l]
        OBVIOUS
      <3>1. CASE k = i
        <4>1. g[j] = h[k]
          BY <1>1, <3>1
        <4> QED
          BY <4>1
      <3>2. CASE k # i /\ k = j
        <4>1. g[i] = h[k]
          BY <1>1, <3>2
        <4> QED
          BY <4>1
      <3>3. CASE k # i /\ k # j
        <4>1. g[k] = h[k]
          BY <1>1, <3>3
        <4> QED
          BY <4>1
      <3> QED
        BY <3>1, <3>2, <3>3
    <2>3. /\ ToSet(g) = {g[k] : k \in 1..Len(h)}
          /\ ToSet(h) = {h[k] : k \in 1..Len(h)}
      BY <1>2 DEF ToSet
    <2>4. ToSet(g) \subseteq ToSet(h) /\ ToSet(h) \subseteq ToSet(g)
      BY <2>1, <2>2, <2>3
    <2> QED
      BY <2>4
  <1>4. Distinct(g)
    <2> SUFFICES ASSUME NEW k \in 1..Len(h), NEW l \in 1..Len(h),
                        g[k].seqNum = g[l].seqNum
                 PROVE  k = l
      BY <1>1 DEF Distinct
    <2> DEFINE from(x) == IF x = i THEN j ELSE IF x = j THEN i ELSE x
    <2>1. /\ from(k) \in 1..Len(h) /\ from(l) \in 1..Len(h)
          /\ g[k] = h[from(k)] /\ g[l] = h[from(l)]
      BY <1>1
    <2>2. from(k) = from(l) => k = l
      OBVIOUS
    <2> HIDE DEF from
    <2> QED
      BY <2>1, <2>2 DEF Distinct
  <1>5. Shuffled(g, h)
    BY <1>1, <1>3, <1>4 DEF Shuffled
  <1> QED
    BY <1>1, <1>5 DEF g

-----------------------------------------------------------------------------
(* up: in order but for the element at `at', whose children are not less   *)
(* than its parent.                                                        *)
AlmostUp(g, at) ==
  /\ \A i \in 2..Len(g) : i # at => Priority(g[i \div 2]) <= Priority(g[i])
  /\ \A i \in 2..Len(g) : i \div 2 = at /\ at > 1 =>
       Priority(g[at \div 2]) <= Priority(g[i])

SettledUp(g, at) == at = 1 \/ Priority(g[at \div 2]) <= Priority(g[at])

LEMMA LiftOne ==
  ASSUME NEW g \in Seq(Event), Distinct(g), NEW at \in 2..Len(g),
         AlmostUp(g, at), Priority(g[at]) < Priority(g[at \div 2])
  PROVE  AlmostUp(Swap(g, at, at \div 2), at \div 2)
  <1> DEFINE p == at \div 2
             t == Swap(g, at, p)
             Key(i) == Priority(g[i])
  <1>1. /\ p \in 1..Len(g) /\ p < at /\ at \in 1..Len(g) /\ Len(g) \in Nat
    BY Halves
  <1>2. /\ Len(t) = Len(g)
        /\ \A k \in 1..Len(g) :
             t[k] = IF k = at THEN g[p] ELSE IF k = p THEN g[at] ELSE g[k]
    BY <1>1, SwapShuffles DEF Shuffled
  <1>3. \A i \in 1..Len(g) : Key(i) \in Nat
    BY PriorityType
  <1>4. /\ \A i \in 2..Len(g) : i # at => Key(i \div 2) <= Key(i)
        /\ \A i \in 2..Len(g) : i \div 2 = at => Key(p) <= Key(i)
        /\ Key(at) < Key(p)
    <2>1. at > 1
      OBVIOUS
    <2> QED
      BY <2>1 DEF AlmostUp
  <1>5. \A k \in 1..Len(g) :
          Priority(t[k]) = IF k = at THEN Key(p)
                           ELSE IF k = p THEN Key(at) ELSE Key(k)
    BY <1>2
  <1> HIDE DEF t, Key, p
  <1>6. ASSUME NEW i \in 2..Len(g), i # p
        PROVE  Priority(t[i \div 2]) <= Priority(t[i])
    <2>1. i \div 2 \in 1..Len(g) /\ i \div 2 < i /\ i \in 1..Len(g)
      BY <1>1, Halves
    <2>2. CASE i = at
      BY <1>1, <1>3, <1>4, <1>5, <2>1, <2>2 DEF p
    <2>3. CASE i \div 2 = at
      <3>1. Key(p) <= Key(i)
        BY <1>4, <2>3
      <3>2. i # at
        BY <1>1, <2>1, <2>3
      <3>3. Priority(t[i \div 2]) = Key(p) /\ Priority(t[i]) = Key(i)
        BY <1>5, <1>6, <2>1, <2>3, <3>2
      <3> QED
        BY <3>1, <3>3
    <2>4. CASE i # at /\ i \div 2 = p
      <3>1. Key(p) <= Key(i)
        BY <1>4, <2>4
      <3>2. Priority(t[i \div 2]) = Key(at) /\ Priority(t[i]) = Key(i)
        BY <1>1, <1>5, <1>6, <2>1, <2>4
      <3> QED
        BY <1>1, <1>3, <1>4, <2>1, <3>1, <3>2
    <2>5. CASE i # at /\ i \div 2 # at /\ i \div 2 # p
      BY <1>4, <1>5, <1>6, <2>1, <2>5
    <2> QED
      BY <2>2, <2>3, <2>4, <2>5
  <1>7. ASSUME NEW i \in 2..Len(g), i \div 2 = p, p > 1
        PROVE  Priority(t[p \div 2]) <= Priority(t[i])
    <2>1. /\ p \div 2 \in 1..Len(g) /\ p \div 2 < p /\ i \in 1..Len(g)
          /\ p < i
      BY <1>1, <1>7, Halves
    <2>2. Key(p \div 2) <= Key(p)
      BY <1>1, <1>4, <1>7
    <2>3. Priority(t[p \div 2]) = Key(p \div 2)
      BY <1>1, <1>5, <2>1
    <2>4. CASE i = at
      BY <1>1, <1>5, <2>1, <2>2, <2>3, <2>4
    <2>5. CASE i # at
      <3>1. Key(p) <= Key(i)
        BY <1>4, <1>7, <2>5
      <3>2. Priority(t[i]) = Key(i)
        BY <1>5, <2>1, <2>5
      <3> QED
        BY <1>1, <1>3, <2>1, <2>2, <2>3, <3>1, <3>2
    <2> QED
      BY <2>4, <2>5
  <1> QED
    BY <1>2, <1>6, <1>7 DEF AlmostUp, t, p

(* A state of the loop over the heap h, after n turns of at most Len(h).   *)
Lifts(h, n) ==
  {st \in [h : Seq(Event), at : 1..Len(h)] :
     /\ Shuffled(st.h, h)
     /\ AlmostUp(st.h, st.at)
     /\ SettledUp(st.h, st.at) \/ st.at + n <= Len(h)}

LEMMA LiftedKeeps ==
  ASSUME NEW h \in Seq(Event), NEW n \in Nat, NEW st \in Lifts(h, n), NEW turn
  PROVE  Lifted({}, st, turn) \in Lifts(h, n + 1)
  <1> DEFINE g == st.h
             at == st.at
             p == at \div 2
             st2 == [h |-> Swap(g, at, p), at |-> p]
  <1>1. /\ st = [h |-> g, at |-> at] /\ g \in Seq(Event) /\ at \in 1..Len(h)
        /\ Shuffled(g, h) /\ AlmostUp(g, at)
        /\ SettledUp(g, at) \/ at + n <= Len(h)
    BY DEF Lifts
  <1>2. Lifted({}, st, turn)
          = IF p >= 1 /\ Less(g, at, p) THEN st2 ELSE st
    BY DEF Lifted
  <1>3. Len(g) = Len(h) /\ Distinct(g) /\ ToSet(g) = ToSet(h) /\ Len(h) \in Nat
    BY <1>1 DEF Shuffled
  <1> HIDE DEF g, at
  <1>4. \A i \in 1..Len(g) : Priority(g[i]) \in Nat
    BY <1>1, PriorityType
  <1>5. CASE p >= 1 /\ Less(g, at, p)
    <2>1. at \in 2..Len(g) /\ p \in 1..Len(g) /\ p < at
      BY <1>1, <1>3, <1>5
    <2>2. Priority(g[at]) < Priority(g[p])
      BY <1>5 DEF Less
    <2>3. AlmostUp(Swap(g, at, p), p)
      BY <1>1, <1>3, <2>1, <2>2, LiftOne
    <2>4. Shuffled(Swap(g, at, p), h)
      <3>1. at \in 1..Len(g)
        BY <2>1
      <3>2. Shuffled(Swap(g, at, p), g)
        BY <1>1, <1>3, <2>1, <3>1, SwapShuffles
      <3> QED
        BY <1>3, <3>2 DEF Shuffled
    <2>5. ~SettledUp(g, at)
      <3>1. at \in 1..Len(g)
        BY <2>1
      <3> QED
        BY <1>4, <2>1, <2>2, <3>1 DEF SettledUp
    <2>6. p + (n + 1) <= Len(h) /\ p \in 1..Len(h)
      BY <1>1, <1>3, <2>1, <2>5
    <2> HIDE DEF p
    <2>7. Swap(g, at, p) \in Seq(Event)
      BY <2>4 DEF Shuffled
    <2>8. st2 \in Lifts(h, n + 1)
      BY <2>3, <2>4, <2>6, <2>7 DEF Lifts
    <2> QED
      BY <1>2, <1>5, <2>8
  <1>6. CASE ~(p >= 1 /\ Less(g, at, p))
    <2>1. SettledUp(g, at)
      <3>1. CASE at = 1
        BY <3>1 DEF SettledUp
      <3>2. CASE at # 1
        <4>1. p >= 1 /\ p \in 1..Len(g) /\ at \in 1..Len(g)
          BY <1>1, <1>3, <3>2
        <4>2. ~(Priority(g[at]) < Priority(g[p]))
          BY <1>6, <4>1 DEF Less
        <4> QED
          BY <1>4, <4>1, <4>2 DEF SettledUp
      <3> QED
        BY <3>1, <3>2
    <2>2. st \in Lifts(h, n + 1)
      BY <1>1, <2>1 DEF Lifts
    <2> QED
      BY <1>2, <1>6, <2>2
  <1> QED
    BY <1>5, <1>6

LEMMA UpFolds ==
  ASSUME NEW h \in Seq(Event)
  PROVE  \E last : /\ Lifting!FoldOf(last, {}, [h |-> h, at |-> Len(h)], h,
                                     Len(h))
                   /\ Up(h) = last.h
  <1> DEFINE base == [h |-> h, at |-> Len(h)]
             Body(st, turn) ==
               LET parent == st.at \div 2 IN
               IF parent >= 1 /\ Less(st.h, st.at, parent)
               THEN [h |-> Swap(st.h, st.at, parent), at |-> parent] ELSE st
             Turns(f) == f = [s \in SUBSET DOMAIN h |->
               IF s = {} THEN base ELSE Body(f[s \ {Max(s)}], h[Max(s)])]
  <1>1. Len(h) \in Nat /\ DOMAIN h = 1..Len(h)
    OBVIOUS
  <1>2. \A f : Turns(f) <=> Lifting!Folds(f, {}, base, h, Len(h))
    <2>1. \A st, turn : Body(st, turn) = Lifted({}, st, turn)
      BY DEF Lifted
    <2>2. \A s : Max(s) = Lifting!Greatest(s)
      BY DEF Lifting!Greatest, Max
    <2> HIDE DEF base, Body
    <2>3. ASSUME NEW f
          PROVE  [s \in SUBSET DOMAIN h |->
                    IF s = {} THEN base ELSE Body(f[s \ {Max(s)}], h[Max(s)])]
                 = [s \in SUBSET (1..Len(h)) |->
                    IF s = {} THEN base
                    ELSE Lifted({}, f[s \ {Lifting!Greatest(s)}],
                                h[Lifting!Greatest(s)])]
      BY <1>1, <2>1, <2>2
    <2> QED
      BY <2>3 DEF Lifting!Folds
  <1>3. \A f : Turns(f) => \E g : Turns(g) /\ Up(h) = g[DOMAIN h].h
    BY DEF Up, FoldLeft, MapThenFoldSet
  <1>4. PICK f : Lifting!Folds(f, {}, base, h, Len(h))
    BY <1>1, Lifting!FoldExists
  <1> HIDE DEF Turns, base
  <1>5. PICK g : Lifting!Folds(g, {}, base, h, Len(h)) /\ Up(h) = g[1..Len(h)].h
    BY <1>1, <1>2, <1>3, <1>4
  <1>6. Lifting!FoldOf(g[1..Len(h)], {}, base, h, Len(h))
    BY <1>5 DEF Lifting!FoldOf
  <1> QED
    BY <1>5, <1>6 DEF base

(* up puts a new last element where it belongs.                            *)
LEMMA UpOrders ==
  ASSUME NEW h \in Seq(Event), h # <<>>, Distinct(h), AlmostUp(h, Len(h))
  PROVE  Shuffled(Up(h), h) /\ HeapOrder(Up(h))
  <1> DEFINE N == Len(h)
             base == [h |-> h, at |-> N]
             R == [n \in 0..N |-> Lifts(h, n)]
  <1>1. N \in Nat /\ N >= 1
    OBVIOUS
  <1>2. PICK last : /\ Lifting!FoldOf(last, {}, base, h, N)
                    /\ Up(h) = last.h
    BY UpFolds
  <1>3. base \in R[0]
    <2>1. Shuffled(h, h)
      BY DEF Shuffled
    <2>2. base \in Lifts(h, 0)
      BY <1>1, <2>1 DEF Lifts
    <2> QED
      BY <1>1, <2>2
  <1>4. \A n \in 1..N : \A st \in R[n - 1] : Lifted({}, st, h[n]) \in R[n]
    <2> SUFFICES ASSUME NEW n \in 1..N, NEW st \in R[n - 1]
                 PROVE  Lifted({}, st, h[n]) \in R[n]
      OBVIOUS
    <2>1. n - 1 \in Nat /\ n - 1 \in 0..N /\ n \in 0..N /\ (n - 1) + 1 = n
      BY <1>1
    <2>2. st \in Lifts(h, n - 1)
      BY <2>1
    <2>3. Lifted({}, st, h[n]) \in Lifts(h, (n - 1) + 1)
      BY <2>1, <2>2, LiftedKeeps
    <2> QED
      BY <2>1, <2>3
  <1>5. last \in R[N]
    <2> HIDE DEF R, N, base
    <2> QED
      BY <1>1, <1>2, <1>3, <1>4, Lifting!LoopInvariant
  <1>6. last \in Lifts(h, N)
    BY <1>1, <1>5
  <1>7. /\ Shuffled(last.h, h) /\ AlmostUp(last.h, last.at)
        /\ SettledUp(last.h, last.at)
    BY <1>1, <1>6 DEF Lifts
  <1>8. HeapOrder(last.h)
    BY <1>7 DEF AlmostUp, SettledUp, HeapOrder
  <1> QED
    BY <1>2, <1>7, <1>8

-----------------------------------------------------------------------------
(* down: in order but for the element at `at', whose children are not less *)
(* than its parent.                                                        *)
AlmostDown(g, at) ==
  /\ \A i \in 2..Len(g) :
       i \div 2 # at => Priority(g[i \div 2]) <= Priority(g[i])
  /\ \A i \in 2..Len(g) : i \div 2 = at /\ at > 1 =>
       Priority(g[at \div 2]) <= Priority(g[i])

SettledDown(g, at) ==
  \A i \in 2..Len(g) : i \div 2 = at => Priority(g[at]) <= Priority(g[i])

LEMMA SmallerOfTwo ==
  ASSUME NEW g \in Seq(Event), NEW at \in 1..Len(g)
  PROVE  LET c == SmallerChild(g, at) IN
         /\ c \in Nat /\ c \div 2 = at /\ at < c
         /\ c > Len(g) => SettledDown(g, at)
         /\ c <= Len(g) =>
              \A i \in 2..Len(g) : i \div 2 = at => Priority(g[c]) <= Priority(g[i])
  <1> DEFINE c == SmallerChild(g, at)
             l == 2 * at
  <1>1. /\ Len(g) \in Nat /\ l \in Nat /\ l + 1 \in Nat /\ at < l
        /\ l \div 2 = at /\ (l + 1) \div 2 = at
    OBVIOUS
  <1>2. \A i \in 1..Len(g) : Priority(g[i]) \in Nat
    BY PriorityType
  <1>3. \A i \in 2..Len(g) : i \div 2 = at => i = l \/ i = l + 1
    <2> SUFFICES ASSUME NEW i \in 2..Len(g), i \div 2 = at
                 PROVE  i = l \/ i = l + 1
      OBVIOUS
    <2> QED
      BY Halves
  <1>4. c = IF l < Len(g) /\ Priority(g[l + 1]) < Priority(g[l]) THEN l + 1 ELSE l
    BY DEF SmallerChild, Less
  <1> HIDE DEF c, l
  <1>5. c \in Nat /\ c \div 2 = at /\ at < c
    BY <1>1, <1>4
  <1>6. ASSUME c > Len(g) PROVE SettledDown(g, at)
    <2>1. l > Len(g)
      BY <1>1, <1>4, <1>6
    <2>2. \A i \in 2..Len(g) : i \div 2 # at
      BY <1>1, <1>3, <2>1
    <2> QED
      BY <2>2 DEF SettledDown
  <1>7. ASSUME c <= Len(g), NEW i \in 2..Len(g), i \div 2 = at
        PROVE  Priority(g[c]) <= Priority(g[i])
    <2>1. i \in 1..Len(g) /\ (i = l \/ i = l + 1)
      BY <1>3, <1>7
    <2>2. l \in 1..Len(g)
      BY <1>1, <2>1
    <2>3. Priority(g[l]) \in Nat /\ Priority(g[i]) \in Nat
      BY <1>2, <2>1, <2>2
    <2>4. CASE l < Len(g)
      <3>1. l + 1 \in 1..Len(g)
        BY <1>1, <2>4
      <3>2. Priority(g[l + 1]) \in Nat
        BY <1>2, <3>1
      <3> QED
        BY <1>4, <2>1, <2>3, <2>4, <3>2
    <2>5. CASE ~(l < Len(g))
      <3>1. i = l /\ c = l
        BY <1>1, <1>4, <2>1, <2>5
      <3> QED
        BY <2>3, <3>1
    <2> QED
      BY <2>4, <2>5
  <1> QED
    BY <1>5, <1>6, <1>7 DEF c

LEMMA SinkOne ==
  ASSUME NEW g \in Seq(Event), Distinct(g), NEW at \in 1..Len(g),
         AlmostDown(g, at), NEW c \in 2..Len(g), c \div 2 = at,
         Priority(g[c]) < Priority(g[at]),
         \A i \in 2..Len(g) : i \div 2 = at => Priority(g[c]) <= Priority(g[i])
  PROVE  AlmostDown(Swap(g, at, c), c)
  <1> DEFINE t == Swap(g, at, c)
             Key(i) == Priority(g[i])
  <1>1. /\ at < c /\ c \in 1..Len(g) /\ Len(g) \in Nat
    BY Halves
  <1>2. /\ Len(t) = Len(g)
        /\ \A k \in 1..Len(g) :
             t[k] = IF k = at THEN g[c] ELSE IF k = c THEN g[at] ELSE g[k]
    <2>1. /\ Shuffled(t, g)
          /\ \A k \in 1..Len(g) :
               t[k] = IF k = at THEN g[c] ELSE IF k = c THEN g[at] ELSE g[k]
      BY <1>1, SwapShuffles
    <2> HIDE DEF t
    <2> QED
      BY <2>1 DEF Shuffled
  <1>3. \A i \in 1..Len(g) : Key(i) \in Nat
    BY PriorityType
  <1>4. /\ \A i \in 2..Len(g) : i \div 2 # at => Key(i \div 2) <= Key(i)
        /\ at > 1 => Key(at \div 2) <= Key(c)
        /\ \A i \in 2..Len(g) : i \div 2 = at => Key(c) <= Key(i)
        /\ Key(c) < Key(at)
    BY DEF AlmostDown
  <1>5. \A k \in 1..Len(g) :
          Priority(t[k]) = IF k = at THEN Key(c)
                           ELSE IF k = c THEN Key(at) ELSE Key(k)
    BY <1>2
  <1> HIDE DEF t, Key
  <1>6. ASSUME NEW i \in 2..Len(g), i \div 2 # c
        PROVE  Priority(t[i \div 2]) <= Priority(t[i])
    <2>1. i \div 2 \in 1..Len(g) /\ i \div 2 < i /\ i \in 1..Len(g)
      BY <1>1, Halves
    <2>2. CASE i = c
      BY <1>1, <1>3, <1>4, <1>5, <2>1, <2>2
    <2>3. CASE i # c /\ i \div 2 = at
      <3>1. Priority(t[i \div 2]) = Key(c) /\ Priority(t[i]) = Key(i)
        BY <1>5, <2>1, <2>3
      <3> QED
        BY <1>4, <2>3, <3>1
    <2>4. CASE i = at
      <3>1. Priority(t[i]) = Key(c)
        BY <1>5, <2>4
      <3>2. Priority(t[i \div 2]) = Key(i \div 2)
        BY <1>5, <1>6, <2>1, <2>4
      <3>3. Key(at \div 2) <= Key(c)
        BY <1>4, <2>4
      <3> QED
        BY <2>4, <3>1, <3>2, <3>3
    <2>5. CASE i # c /\ i # at /\ i \div 2 # at
      BY <1>4, <1>5, <1>6, <2>1, <2>5
    <2> QED
      BY <2>2, <2>3, <2>4, <2>5
  <1>7. ASSUME NEW i \in 2..Len(g), i \div 2 = c
        PROVE  Priority(t[c \div 2]) <= Priority(t[i])
    <2>1. i \in 1..Len(g) /\ c < i
      BY <1>7, Halves
    <2>2. Priority(t[c \div 2]) = Key(c)
      BY <1>5
    <2>3. Priority(t[i]) = Key(i)
      BY <1>1, <1>5, <2>1
    <2>4. Key(c) <= Key(i)
      BY <1>1, <1>4, <1>7
    <2> QED
      BY <2>2, <2>3, <2>4
  <1> QED
    BY <1>2, <1>6, <1>7 DEF AlmostDown, t

(* The body of the loop in down.                                           *)
Sunk(a, st, turn) ==
  LET child == SmallerChild(st.h, st.at) IN
  IF child <= Len(st.h) /\ Less(st.h, child, st.at)
  THEN [h |-> Swap(st.h, st.at, child), at |-> child] ELSE st

Sinking == INSTANCE FoldProofs WITH Step <- Sunk

Sinks(h, n) ==
  {st \in [h : Seq(Event), at : 1..Len(h)] :
     /\ Shuffled(st.h, h)
     /\ AlmostDown(st.h, st.at)
     /\ SettledDown(st.h, st.at) \/ st.at >= n + 1}

LEMMA SunkKeeps ==
  ASSUME NEW h \in Seq(Event), NEW n \in Nat, NEW st \in Sinks(h, n), NEW turn
  PROVE  Sunk({}, st, turn) \in Sinks(h, n + 1)
  <1> DEFINE g == st.h
             at == st.at
             c == SmallerChild(g, at)
             st2 == [h |-> Swap(g, at, c), at |-> c]
  <1>1. /\ st = [h |-> g, at |-> at] /\ g \in Seq(Event) /\ at \in 1..Len(h)
        /\ Shuffled(g, h) /\ AlmostDown(g, at)
        /\ SettledDown(g, at) \/ at >= n + 1
    BY DEF Sinks
  <1>2. Sunk({}, st, turn) = IF c <= Len(g) /\ Less(g, c, at) THEN st2 ELSE st
    BY DEF Sunk
  <1>3. Len(g) = Len(h) /\ Distinct(g) /\ ToSet(g) = ToSet(h) /\ Len(h) \in Nat
    BY <1>1 DEF Shuffled
  <1> HIDE DEF g, at
  <1>4. \A i \in 1..Len(g) : Priority(g[i]) \in Nat
    BY <1>1, PriorityType
  <1>5. /\ c \in Nat /\ c \div 2 = at /\ at < c
        /\ c > Len(g) => SettledDown(g, at)
        /\ c <= Len(g) =>
             \A i \in 2..Len(g) : i \div 2 = at => Priority(g[c]) <= Priority(g[i])
    BY <1>1, <1>3, SmallerOfTwo
  <1> HIDE DEF c
  <1>6. CASE c <= Len(g) /\ Less(g, c, at)
    <2>1. c \in 2..Len(g) /\ c \in 1..Len(g) /\ at \in 1..Len(g)
      BY <1>1, <1>3, <1>5, <1>6
    <2>2. Priority(g[c]) < Priority(g[at])
      BY <1>6 DEF Less
    <2>3. AlmostDown(Swap(g, at, c), c)
      BY <1>1, <1>3, <1>5, <1>6, <2>1, <2>2, SinkOne
    <2>4. Shuffled(Swap(g, at, c), h)
      <3>1. Shuffled(Swap(g, at, c), g)
        BY <1>1, <1>3, <2>1, SwapShuffles
      <3> QED
        BY <1>3, <3>1 DEF Shuffled
    <2>5. ~SettledDown(g, at)
      BY <1>4, <1>5, <2>1, <2>2 DEF SettledDown
    <2>6. c >= (n + 1) + 1 /\ c \in 1..Len(h)
      BY <1>1, <1>3, <1>5, <2>1, <2>5
    <2>7. Swap(g, at, c) \in Seq(Event)
      BY <2>4 DEF Shuffled
    <2>8. st2 \in Sinks(h, n + 1)
      BY <2>3, <2>4, <2>6, <2>7 DEF Sinks
    <2> QED
      BY <1>2, <1>6, <2>8
  <1>7. CASE ~(c <= Len(g) /\ Less(g, c, at))
    <2>1. SettledDown(g, at)
      <3>1. CASE c > Len(g)
        BY <1>5, <3>1
      <3>2. CASE c <= Len(g)
        <4>1. c \in 1..Len(g) /\ at \in 1..Len(g)
          BY <1>1, <1>3, <1>5, <3>2
        <4>2. ~(Priority(g[c]) < Priority(g[at]))
          BY <1>7, <3>2 DEF Less
        <4>3. Priority(g[at]) <= Priority(g[c])
          BY <1>4, <4>1, <4>2
        <4> SUFFICES ASSUME NEW i \in 2..Len(g), i \div 2 = at
                     PROVE  Priority(g[at]) <= Priority(g[i])
          BY DEF SettledDown
        <4>4. i \in 1..Len(g) /\ Priority(g[c]) <= Priority(g[i])
          BY <1>5, <3>2
        <4> QED
          BY <1>4, <4>1, <4>3, <4>4
      <3> QED
        BY <1>3, <1>5, <3>1, <3>2
    <2>2. st \in Sinks(h, n + 1)
      BY <1>1, <2>1 DEF Sinks
    <2> QED
      BY <1>2, <1>7, <2>2
  <1> QED
    BY <1>6, <1>7

LEMMA DownFolds ==
  ASSUME NEW h \in Seq(Event)
  PROVE  \E last : /\ Sinking!FoldOf(last, {}, [h |-> h, at |-> 1], h, Len(h))
                   /\ Down(h) = last.h
  <1> DEFINE base == [h |-> h, at |-> 1]
             Body(st, turn) ==
               LET child == SmallerChild(st.h, st.at) IN
               IF child <= Len(st.h) /\ Less(st.h, child, st.at)
               THEN [h |-> Swap(st.h, st.at, child), at |-> child] ELSE st
             Turns(f) == f = [s \in SUBSET DOMAIN h |->
               IF s = {} THEN base ELSE Body(f[s \ {Max(s)}], h[Max(s)])]
  <1>1. Len(h) \in Nat /\ DOMAIN h = 1..Len(h)
    OBVIOUS
  <1>2. \A f : Turns(f) <=> Sinking!Folds(f, {}, base, h, Len(h))
    <2>1. \A st, turn : Body(st, turn) = Sunk({}, st, turn)
      BY DEF Sunk
    <2>2. \A s : Max(s) = Sinking!Greatest(s)
      BY DEF Sinking!Greatest, Max
    <2> HIDE DEF base, Body
    <2>3. ASSUME NEW f
          PROVE  [s \in SUBSET DOMAIN h |->
                    IF s = {} THEN base ELSE Body(f[s \ {Max(s)}], h[Max(s)])]
                 = [s \in SUBSET (1..Len(h)) |->
                    IF s = {} THEN base
                    ELSE Sunk({}, f[s \ {Sinking!Greatest(s)}],
                              h[Sinking!Greatest(s)])]
      BY <1>1, <2>1, <2>2
    <2> QED
      BY <2>3 DEF Sinking!Folds
  <1>3. \A f : Turns(f) => \E g : Turns(g) /\ Down(h) = g[DOMAIN h].h
    BY DEF Down, FoldLeft, MapThenFoldSet
  <1>4. PICK f : Sinking!Folds(f, {}, base, h, Len(h))
    BY <1>1, Sinking!FoldExists
  <1> HIDE DEF Turns, base
  <1>5. PICK g : Sinking!Folds(g, {}, base, h, Len(h)) /\ Down(h) = g[1..Len(h)].h
    BY <1>1, <1>2, <1>3, <1>4
  <1>6. Sinking!FoldOf(g[1..Len(h)], {}, base, h, Len(h))
    BY <1>5 DEF Sinking!FoldOf
  <1> QED
    BY <1>5, <1>6 DEF base

(* down puts a new first element where it belongs.                         *)
LEMMA DownOrders ==
  ASSUME NEW h \in Seq(Event), h # <<>>, Distinct(h), AlmostDown(h, 1)
  PROVE  Shuffled(Down(h), h) /\ HeapOrder(Down(h))
  <1> DEFINE N == Len(h)
             base == [h |-> h, at |-> 1]
             R == [n \in 0..N |-> Sinks(h, n)]
  <1>1. N \in Nat /\ N >= 1
    OBVIOUS
  <1>2. PICK last : Sinking!FoldOf(last, {}, base, h, N) /\ Down(h) = last.h
    BY DownFolds
  <1>3. base \in R[0]
    <2>1. Shuffled(h, h)
      BY DEF Shuffled
    <2>2. base \in Sinks(h, 0)
      BY <1>1, <2>1 DEF Sinks
    <2> QED
      BY <1>1, <2>2
  <1>4. \A n \in 1..N : \A st \in R[n - 1] : Sunk({}, st, h[n]) \in R[n]
    <2> SUFFICES ASSUME NEW n \in 1..N, NEW st \in R[n - 1]
                 PROVE  Sunk({}, st, h[n]) \in R[n]
      OBVIOUS
    <2>1. n - 1 \in Nat /\ n - 1 \in 0..N /\ n \in 0..N /\ (n - 1) + 1 = n
      BY <1>1
    <2>2. st \in Sinks(h, n - 1)
      BY <2>1
    <2>3. Sunk({}, st, h[n]) \in Sinks(h, (n - 1) + 1)
      BY <2>1, <2>2, SunkKeeps
    <2> QED
      BY <2>1, <2>3
  <1>5. last \in R[N]
    <2> HIDE DEF R, N, base
    <2> QED
      BY <1>1, <1>2, <1>3, <1>4, Sinking!LoopInvariant
  <1>6. last \in Sinks(h, N)
    BY <1>1, <1>5
  <1>7. /\ Shuffled(last.h, h) /\ AlmostDown(last.h, last.at)
        /\ SettledDown(last.h, last.at)
    BY <1>1, <1>6 DEF Sinks
  <1>8. HeapOrder(last.h)
    BY <1>7 DEF AlmostDown, SettledDown, HeapOrder
  <1> QED
    BY <1>2, <1>7, <1>8

-----------------------------------------------------------------------------
(* A heap of events, and what Push and Pop make of it.                     *)
IsHeap(h) == h \in Seq(Event) /\ Distinct(h) /\ HeapOrder(h)

LEMMA Elements ==
  ASSUME NEW h \in Seq(Event)
  PROVE  /\ ToSet(h) = {h[i] : i \in 1..Len(h)}
         /\ ToSet(h) \in SUBSET Event
  BY DEF ToSet

LEMMA FirstLeast ==
  ASSUME NEW h, IsHeap(h), NEW e \in ToSet(h)
  PROVE  h[1] \in ToSet(h) /\ Priority(h[1]) <= Priority(e)
  <1>1. h \in Seq(Event) /\ HeapOrder(h) /\ Len(h) \in Nat
    BY DEF IsHeap
  <1>2. PICK j \in 1..Len(h) : e = h[j]
    BY <1>1, Elements
  <1>3. 1 \in 1..Len(h) /\ h[1] \in ToSet(h)
    <2>1. 1 \in 1..Len(h)
      BY <1>1, <1>2
    <2> QED
      BY <1>1, <2>1, Elements
  <1>4. \A i \in 1..Len(h) : Priority(h[i]) \in Nat
    BY <1>1, PriorityType
  <1> DEFINE T == {i \in 1..Len(h) : Priority(h[i]) < Priority(h[1])}
  <1>5. CASE T # {}
    <2>1. T \in SUBSET Nat
      OBVIOUS
    <2> HIDE DEF T
    <2>2. PICK m \in T : \A k \in T : m <= k
      BY <1>5, <2>1, Lifting!LeastNatural
    <2>3. m \in 1..Len(h) /\ Priority(h[m]) < Priority(h[1])
      BY DEF T
    <2>4. m \in 2..Len(h)
      <3>1. m # 1
        BY <1>3, <1>4, <2>3
      <3> QED
        BY <2>3, <3>1
    <2>5. m \div 2 \in 1..Len(h) /\ m \div 2 < m
      BY <1>1, <2>4, Halves
    <2>6. Priority(h[m \div 2]) <= Priority(h[m])
      BY <1>1, <2>4 DEF HeapOrder
    <2>7. Priority(h[m \div 2]) < Priority(h[1])
      BY <1>3, <1>4, <2>3, <2>5, <2>6
    <2>8. m \div 2 \in T
      BY <2>5, <2>7 DEF T
    <2> QED
      BY <2>2, <2>3, <2>5, <2>8
  <1>6. CASE T = {}
    BY <1>2, <1>3, <1>4, <1>6
  <1> QED
    BY <1>3, <1>5, <1>6

LEMMA PushAdds ==
  ASSUME NEW h, IsHeap(h), NEW e \in Event,
         \A f \in ToSet(h) : f.seqNum # e.seqNum
  PROVE  /\ IsHeap(Push(h, e))
         /\ ToSet(Push(h, e)) = ToSet(h) \cup {e}
         /\ Len(Push(h, e)) = Len(h) + 1
  <1> DEFINE g == Append(h, e)
  <1>1. h \in Seq(Event) /\ Distinct(h) /\ HeapOrder(h) /\ Len(h) \in Nat
    BY DEF IsHeap
  <1>2. /\ g \in Seq(Event) /\ Len(g) = Len(h) + 1 /\ g # <<>>
        /\ \A i \in 1..Len(h) : g[i] = h[i]
        /\ g[Len(h) + 1] = e
    BY <1>1
  <1> HIDE DEF g
  <1>3. ToSet(g) = ToSet(h) \cup {e}
    <2>1. /\ ToSet(g) = {g[i] : i \in 1..Len(g)}
          /\ ToSet(h) = {h[i] : i \in 1..Len(h)}
      BY <1>1, <1>2, Elements
    <2>2. 1..Len(g) = (1..Len(h)) \cup {Len(h) + 1}
      BY <1>1, <1>2
    <2> QED
      BY <1>2, <2>1, <2>2
  <1>4. Distinct(g)
    <2> SUFFICES ASSUME NEW i \in 1..Len(g), NEW j \in 1..Len(g),
                        g[i].seqNum = g[j].seqNum
                 PROVE  i = j
      BY DEF Distinct
    <2>1. \A k \in 1..Len(h) : h[k] \in ToSet(h)
      BY <1>1, Elements
    <2>2. /\ i \in 1..Len(h) \/ i = Len(h) + 1
          /\ j \in 1..Len(h) \/ j = Len(h) + 1
      BY <1>1, <1>2
    <2>3. CASE i \in 1..Len(h) /\ j \in 1..Len(h)
      BY <1>1, <1>2, <2>3 DEF Distinct
    <2> QED
      BY <1>2, <2>1, <2>2, <2>3
  <1>5. AlmostUp(g, Len(g))
    <2>1. ASSUME NEW i \in 2..Len(g), i # Len(g)
          PROVE  Priority(g[i \div 2]) <= Priority(g[i])
      <3>1. i \in 2..Len(h) /\ i \in 1..Len(h)
        BY <1>1, <1>2, <2>1
      <3>2. i \div 2 \in 1..Len(h)
        BY <1>1, <3>1, Halves
      <3> QED
        BY <1>1, <1>2, <3>1, <3>2 DEF HeapOrder
    <2>2. ASSUME NEW i \in 2..Len(g) PROVE i \div 2 # Len(g)
      BY <1>1, <1>2, Halves
    <2> QED
      BY <2>1, <2>2 DEF AlmostUp
  <1>6. Shuffled(Up(g), g) /\ HeapOrder(Up(g))
    BY <1>2, <1>4, <1>5, UpOrders
  <1>7. Push(h, e) = Up(g)
    BY DEF Push, g
  <1> QED
    BY <1>2, <1>3, <1>6, <1>7 DEF Shuffled, IsHeap

LEMMA PopTakes ==
  ASSUME NEW h, IsHeap(h), h # <<>>
  PROVE  /\ IsHeap(Pop(h))
         /\ ToSet(Pop(h)) = ToSet(h) \ {h[1]}
         /\ Len(Pop(h)) = Len(h) - 1
  <1> DEFINE N == Len(h)
             s == Swap(h, 1, N)
             g == Front(s)
  <1>1. /\ h \in Seq(Event) /\ Distinct(h) /\ HeapOrder(h)
        /\ N \in Nat /\ N >= 1 /\ 1 \in 1..N /\ N \in 1..N
    BY DEF IsHeap
  <1>2. ToSet(h) = {h[i] : i \in 1..N}
    BY <1>1, Elements
  <1>3. CASE N = 1
    <2>1. Pop(h) = <<>> /\ ToSet(h) = {h[1]}
      BY <1>2, <1>3 DEF Pop
    <2>2. ToSet(<<>>) = {}
      BY DEF ToSet
    <2>3. IsHeap(<<>>)
      BY DEF IsHeap, Distinct, HeapOrder
    <2> QED
      BY <1>3, <2>1, <2>2, <2>3
  <1>4. CASE N # 1
    <2>1. /\ Shuffled(s, h)
          /\ \A k \in 1..N : s[k] = IF k = 1 THEN h[N] ELSE IF k = N THEN h[1]
                                    ELSE h[k]
      BY <1>1, SwapShuffles
    <2>2. s \in Seq(Event) /\ Len(s) = N /\ Distinct(s)
      BY <2>1 DEF Shuffled
    <2> HIDE DEF s
    <2>3. /\ g \in Seq(Event) /\ Len(g) = N - 1
          /\ \A k \in 1..(N - 1) : g[k] = s[k]
      BY <1>1, <2>2 DEF Front
    <2> HIDE DEF g, N
    <2>4. /\ \A k \in 1..(N - 1) : k \in 1..N /\ k # N
          /\ \A k \in 2..(N - 1) : g[k] = h[k]
          /\ g[1] = h[N]
          /\ N - 1 >= 1
      BY <1>1, <1>4, <2>1, <2>3
    <2>5. Distinct(g)
      <3> SUFFICES ASSUME NEW i \in 1..(N - 1), NEW j \in 1..(N - 1),
                          g[i].seqNum = g[j].seqNum
                   PROVE  i = j
        BY <2>3 DEF Distinct
      <3>1. i \in 1..N /\ j \in 1..N /\ s[i].seqNum = s[j].seqNum
        BY <2>3, <2>4
      <3> QED
        BY <2>2, <3>1 DEF Distinct
    <2>6. ToSet(g) = ToSet(h) \ {h[1]}
      <3>1. ToSet(g) = {g[k] : k \in 1..(N - 1)}
        BY <2>3, Elements
      <3>2. \A i, j \in 1..N : h[i] = h[j] => i = j
        BY <1>1 DEF Distinct, N
      <3>3. ASSUME NEW k \in 1..(N - 1)
            PROVE  g[k] \in ToSet(h) /\ g[k] # h[1]
        <4>1. CASE k = 1
          BY <1>1, <1>2, <1>4, <2>4, <3>2, <4>1
        <4>2. CASE k # 1
          <5>1. k \in 2..(N - 1) /\ k \in 1..N
            BY <2>4, <4>2
          <5> QED
            BY <1>1, <1>2, <2>4, <3>2, <4>2, <5>1
        <4> QED
          BY <4>1, <4>2
      <3>4. ASSUME NEW i \in 1..N, h[i] # h[1]
            PROVE  \E k \in 1..(N - 1) : g[k] = h[i]
        <4>1. i # 1
          BY <3>4
        <4>2. CASE i = N
          <5>1. 1 \in 1..(N - 1)
            BY <1>1, <2>4
          <5> QED
            BY <2>4, <4>2, <5>1
        <4>3. CASE i # N
          <5>1. i \in 2..(N - 1) /\ i \in 1..(N - 1)
            BY <1>1, <4>1, <4>3
          <5> QED
            BY <2>4, <5>1
        <4> QED
          BY <4>2, <4>3
      <3>5. ToSet(g) \subseteq ToSet(h) \ {h[1]}
        BY <3>1, <3>3
      <3>6. ToSet(h) \ {h[1]} \subseteq ToSet(g)
        BY <1>2, <3>1, <3>4
      <3> QED
        BY <3>5, <3>6
    <2>7. AlmostDown(g, 1)
      <3>1. ASSUME NEW i \in 2..Len(g), i \div 2 # 1
            PROVE  Priority(g[i \div 2]) <= Priority(g[i])
        <4>1. i \in 2..(N - 1) /\ i \in 2..N
          BY <1>1, <2>3
        <4>2. i \div 2 \in 2..(N - 1)
          <5>1. i \div 2 \in Nat /\ i \div 2 >= 1 /\ i \div 2 < i
            BY <4>1, Halves
          <5> QED
            BY <1>1, <3>1, <4>1, <5>1
        <4>3. Priority(h[i \div 2]) <= Priority(h[i])
          BY <1>1, <4>1 DEF HeapOrder, N
        <4> QED
          BY <2>4, <4>1, <4>2, <4>3
      <3> QED
        BY <3>1 DEF AlmostDown
    <2>8. g # <<>>
      BY <2>3, <2>4
    <2>9. Shuffled(Down(g), g) /\ HeapOrder(Down(g))
      BY <2>3, <2>5, <2>7, <2>8, DownOrders
    <2>10. Pop(h) = Down(g)
      BY <1>4 DEF Pop, g, s, N
    <2> QED
      BY <2>3, <2>6, <2>9, <2>10 DEF Shuffled, IsHeap, N
  <1> QED
    BY <1>3, <1>4

(* ScheduleEvent for each of a sequence of times.                          *)
ScheduledOne(a, g, i) ==
  Push(g, [timeMs |-> a.times[i], seqNum |-> a.first + i - 1])

Scheduling == INSTANCE FoldProofs WITH Step <- ScheduledOne

LEMMA ScheduledFolds ==
  ASSUME NEW h, NEW times \in Seq(Times)
  PROVE  Scheduling!FoldOf(Scheduled(h, times),
                           [times |-> times, first |-> seqNum], h,
                           [i \in 1..Len(times) |-> i], Len(times))
  <1> DEFINE a == [times |-> times, first |-> seqNum]
             q == [i \in DOMAIN times |-> i]
             Body(g, i) == Push(g, [timeMs |-> times[i],
                                    seqNum |-> seqNum + i - 1])
             Turns(f) == f = [s \in SUBSET DOMAIN q |->
               IF s = {} THEN h ELSE Body(f[s \ {Max(s)}], q[Max(s)])]
  <1>1. Len(times) \in Nat /\ DOMAIN q = 1..Len(times)
    OBVIOUS
  <1>6. q = [i \in 1..Len(times) |-> i]
    OBVIOUS
  <1>2. \A f : Turns(f) <=> Scheduling!Folds(f, a, h, q, Len(times))
    <2>1. \A g, i : Body(g, i) = ScheduledOne(a, g, i)
      BY DEF ScheduledOne
    <2>2. \A s : Max(s) = Scheduling!Greatest(s)
      BY DEF Scheduling!Greatest, Max
    <2> HIDE DEF a, q, Body
    <2>3. ASSUME NEW f
          PROVE  [s \in SUBSET DOMAIN q |->
                    IF s = {} THEN h ELSE Body(f[s \ {Max(s)}], q[Max(s)])]
                 = [s \in SUBSET (1..Len(times)) |->
                    IF s = {} THEN h
                    ELSE ScheduledOne(a, f[s \ {Scheduling!Greatest(s)}],
                                      q[Scheduling!Greatest(s)])]
      BY <1>1, <2>1, <2>2
    <2> QED
      BY <2>3 DEF Scheduling!Folds
  <1>3. \A f : Turns(f) => \E g : Turns(g) /\ Scheduled(h, times) = g[DOMAIN q]
    <2>1. Scheduled(h, times) = FoldLeft(Body, h, q)
      BY DEF Scheduled, FoldLeftDomain
    <2> HIDE DEF q
    <2>2. \A f : Turns(f)
            => \E g : Turns(g) /\ FoldLeft(Body, h, q) = g[DOMAIN q]
      BY DEF FoldLeft, MapThenFoldSet
    <2> QED
      BY <2>1, <2>2
  <1>4. PICK f : Scheduling!Folds(f, a, h, q, Len(times))
    BY <1>1, Scheduling!FoldExists
  <1> HIDE DEF Turns, a, q
  <1>5. Scheduling!FoldOf(Scheduled(h, times), a, h, q, Len(times))
    BY <1>1, <1>2, <1>3, <1>4 DEF Scheduling!FoldOf
  <1> QED
    BY <1>5, <1>6 DEF a

NewEvents(times, n) ==
  {[timeMs |-> times[i], seqNum |-> seqNum + i - 1] : i \in 1..n}

LEMMA ScheduledAdds ==
  ASSUME NEW h, IsHeap(h), NEW times \in Seq(Times), seqNum \in Nat,
         \A e \in ToSet(h) : e.seqNum < seqNum
  PROVE  /\ IsHeap(Scheduled(h, times))
         /\ ToSet(Scheduled(h, times)) = ToSet(h) \cup NewEvents(times, Len(times))
  <1> DEFINE N == Len(times)
             a == [times |-> times, first |-> seqNum]
             q == [i \in 1..N |-> i]
             result == Scheduled(h, times)
             Holds(g, n) == /\ IsHeap(g)
                            /\ ToSet(g) = ToSet(h) \cup NewEvents(times, n)
             R == [n \in 0..N |-> {g \in Seq(Event) : Holds(g, n)}]
  <1>1. N \in Nat
    OBVIOUS
  <1>2. Scheduling!FoldOf(result, a, h, q, N)
    BY ScheduledFolds
  <1>3. \A n \in 1..N : q[n] = n
    OBVIOUS
  <1>4. \A g, i : ScheduledOne(a, g, i)
                    = Push(g, [timeMs |-> times[i], seqNum |-> seqNum + i - 1])
    BY DEF ScheduledOne
  <1> HIDE DEF q, a, result
  <1>5. h \in R[0]
    <2>1. NewEvents(times, 0) = {}
      BY DEF NewEvents
    <2>2. Holds(h, 0) /\ h \in Seq(Event) /\ 0 \in 0..N
      BY <1>1, <2>1 DEF IsHeap
    <2> HIDE DEF Holds
    <2> QED
      BY <2>2
  <1>6. ASSUME NEW n \in 1..N, NEW g \in R[n - 1]
        PROVE  ScheduledOne(a, g, q[n]) \in R[n]
    <2> DEFINE e == [timeMs |-> times[n], seqNum |-> seqNum + n - 1]
    <2>1. n - 1 \in 0..N /\ n \in 0..N
      BY <1>1
    <2>2. Holds(g, n - 1)
      <3> HIDE DEF Holds
      <3> QED
        BY <2>1
    <2>3. e \in Event
      BY <1>1 DEF Event
    <2>4. ASSUME NEW f \in ToSet(g) PROVE f.seqNum # e.seqNum
      <3>1. CASE f \in ToSet(h)
        <4>1. h \in Seq(Event)
          BY DEF IsHeap
        <4>2. f.seqNum \in Nat /\ f.seqNum < seqNum
          BY <3>1, <4>1, Elements DEF Event
        <4> QED
          BY <4>2
      <3>2. CASE f \in NewEvents(times, n - 1)
        <4> HIDE DEF e
        <4>1. PICK i \in 1..(n - 1) :
                f = [timeMs |-> times[i], seqNum |-> seqNum + i - 1]
          BY <3>2, Zenon DEF NewEvents
        <4>2. f.seqNum = seqNum + i - 1 /\ i \in Int /\ i <= n - 1
          BY <1>1, <4>1
        <4>3. e.seqNum = seqNum + n - 1
          BY DEF e
        <4> QED
          BY <1>1, <4>2, <4>3
      <3> QED
        BY <2>2, <2>4, <3>1, <3>2
    <2>5. NewEvents(times, n) = NewEvents(times, n - 1) \cup {e}
      <3>1. 1..n = (1..(n - 1)) \cup {n}
        OBVIOUS
      <3> QED
        BY <3>1 DEF NewEvents
    <2> HIDE DEF e
    <2>6. /\ IsHeap(Push(g, e))
          /\ ToSet(Push(g, e)) = ToSet(g) \cup {e}
      BY <2>2, <2>3, <2>4, PushAdds
    <2>7. Holds(Push(g, e), n) /\ Push(g, e) \in Seq(Event)
      BY <2>2, <2>5, <2>6 DEF IsHeap
    <2>8. ScheduledOne(a, g, q[n]) = Push(g, e)
      BY <1>3, <1>4 DEF e
    <2> HIDE DEF Holds
    <2> QED
      BY <2>1, <2>7, <2>8
  <1>7. result \in R[N]
    <2> HIDE DEF R
    <2> QED
      BY <1>1, <1>2, <1>5, <1>6, Scheduling!LoopInvariant
  <1>8. Holds(result, N)
    <2> HIDE DEF Holds
    <2> QED
      BY <1>1, <1>7
  <1> QED
    BY <1>8 DEF result

-----------------------------------------------------------------------------
(* The inductive invariant.                                                *)
QueueInv ==
  /\ IsHeap(heap)
  /\ \A e \in ToSet(heap) : e.seqNum < seqNum
  /\ seqNum \in 0..MaxEvents
  /\ clock \in Times \cup {0}
  /\ running \in BOOLEAN
  /\ ~running => clock = 0

LEMMA SchedulesType == Schedules \subseteq Seq(Times)
  <1> SUFFICES ASSUME NEW times \in Schedules PROVE times \in Seq(Times)
    OBVIOUS
  <1>1. CASE times = <<>>
    BY <1>1
  <1>2. CASE \E t \in Times : times = <<t>>
    <2>1. PICK t \in Times : times = <<t>>
      BY <1>2
    <2> QED
      BY <2>1
  <1>3. CASE \E s, t \in Times : times = <<s, t>>
    <2>1. PICK s \in Times, t \in Times : times = <<s, t>>
      BY <1>3
    <2> QED
      BY <2>1
  <1>4. times = <<>> \/ times \in {<<t>> : t \in Times} \/ times \in Times \X Times
    BY Zenon DEF Schedules
  <1>5. times \in {<<t>> : t \in Times} => \E t \in Times : times = <<t>>
    BY Zenon
  <1>6. times \in Times \X Times => \E s, t \in Times : times = <<s, t>>
    OBVIOUS
  <1> QED
    BY <1>1, <1>2, <1>3, <1>4, <1>5, <1>6

LEMMA InitQueue == Init => QueueInv
  <1> SUFFICES ASSUME Init PROVE QueueInv
    OBVIOUS
  <1>1. heap = <<>> /\ seqNum = 0 /\ clock = 0 /\ running = FALSE
    BY DEF Init
  <1>2. \A e \in ToSet(heap) : e.seqNum < seqNum
    <2>1. ToSet(heap) = {}
      BY <1>1 DEF ToSet
    <2> QED
      BY <2>1
  <1>3. IsHeap(heap)
    BY <1>1 DEF IsHeap, Distinct, HeapOrder
  <1>4. seqNum \in 0..MaxEvents
    BY <1>1, EventAssumption
  <1> QED
    BY <1>1, <1>2, <1>3, <1>4 DEF QueueInv

(* What a schedule makes of the heap h with the sequence numbers so far.   *)
LEMMA ScheduleKeeps ==
  ASSUME NEW h, IsHeap(h), \A e \in ToSet(h) : e.seqNum < seqNum,
         NEW times \in Seq(Times), seqNum \in Nat,
         heap' = Scheduled(h, times), seqNum' = seqNum + Len(times)
  PROVE  /\ IsHeap(heap')
         /\ \A e \in ToSet(heap') : e.seqNum < seqNum'
         /\ ToSet(h) \subseteq ToSet(heap')
         /\ \A f \in ToSet(heap') \ ToSet(h) :
              /\ f.seqNum >= seqNum
              /\ \E i \in DOMAIN times : f.timeMs = times[i]
  <1> DEFINE N == Len(times)
  <1>1. /\ IsHeap(heap')
        /\ ToSet(heap') = ToSet(h) \cup NewEvents(times, N)
    BY ScheduledAdds
  <1>2. N \in Nat /\ DOMAIN times = 1..N
    OBVIOUS
  <1>3. ASSUME NEW f \in NewEvents(times, N)
        PROVE  /\ f.seqNum >= seqNum /\ f.seqNum < seqNum + N
               /\ \E i \in DOMAIN times : f.timeMs = times[i]
    <2>1. PICK i \in 1..N :
            f = [timeMs |-> times[i], seqNum |-> seqNum + i - 1]
      BY DEF NewEvents
    <2>2. f.timeMs = times[i] /\ f.seqNum = seqNum + i - 1
      BY <2>1
    <2> QED
      BY <1>2, <2>2
  <1>4. ASSUME NEW e \in ToSet(h) PROVE e.seqNum < seqNum + N
    <2>1. h \in Seq(Event)
      BY DEF IsHeap
    <2>2. e.seqNum \in Nat /\ e.seqNum < seqNum
      BY <2>1, Elements DEF Event
    <2> QED
      BY <1>2, <2>2
  <1> QED
    BY <1>1, <1>3, <1>4

LEMMA ArrivalScheduled ==
  ASSUME QueueInv, NEW t \in Times, ScheduleArrival(t)
  PROVE  /\ QueueInv'
         /\ ToSet(heap) \subseteq ToSet(heap')
         /\ \A f \in ToSet(heap') \ ToSet(heap) : f.timeMs >= clock
         /\ UNCHANGED clock
  <1> DEFINE times == <<t>>
  <1>1. /\ ~running /\ seqNum < MaxEvents /\ heap' = Scheduled(heap, times)
        /\ seqNum' = seqNum + 1 /\ UNCHANGED <<clock, running>>
    BY DEF ScheduleArrival
  <1>2. times \in Seq(Times) /\ Len(times) = 1 /\ \A i \in DOMAIN times : times[i] = t
    OBVIOUS
  <1>3. IsHeap(heap) /\ seqNum \in Nat /\ MaxEvents \in Nat
        /\ \A e \in ToSet(heap) : e.seqNum < seqNum
    BY EventAssumption DEF QueueInv
  <1> HIDE DEF times
  <1>4. /\ IsHeap(heap')
        /\ \A e \in ToSet(heap') : e.seqNum < seqNum'
        /\ ToSet(heap) \subseteq ToSet(heap')
        /\ \A f \in ToSet(heap') \ ToSet(heap) :
             /\ f.seqNum >= seqNum
             /\ \E i \in DOMAIN times : f.timeMs = times[i]
    BY <1>1, <1>2, <1>3, ScheduleKeeps
  <1>5. QueueInv'
    BY <1>1, <1>3, <1>4 DEF QueueInv
  <1>6. t \in Nat /\ clock = 0
    BY <1>1, EventAssumption DEF QueueInv
  <1> QED
    BY <1>1, <1>2, <1>4, <1>5, <1>6

LEMMA TurnFires ==
  ASSUME QueueInv, NEW times \in Schedules, Turn(times)
  PROVE  /\ QueueInv'
         /\ heap # <<>> /\ clock' = heap[1].timeMs
         /\ heap[1] \in ToSet(heap) /\ heap[1] \notin ToSet(heap')
         /\ ToSet(heap) \ {heap[1]} \subseteq ToSet(heap')
         /\ \A f \in ToSet(heap') \ ToSet(heap) : f.timeMs >= clock'
  <1> DEFINE h == Pop(heap)
             first == heap[1]
  <1>1. /\ heap # <<>> /\ seqNum + Len(times) <= MaxEvents /\ running' = TRUE
        /\ clock' = first.timeMs
        /\ \A i \in DOMAIN times : times[i] >= clock'
        /\ heap' = Scheduled(h, times)
        /\ seqNum' = seqNum + Len(times)
    BY DEF Turn
  <1>2. /\ IsHeap(heap) /\ seqNum \in Nat /\ MaxEvents \in Nat
        /\ \A e \in ToSet(heap) : e.seqNum < seqNum
    BY EventAssumption DEF QueueInv
  <1>3. times \in Seq(Times) /\ Len(times) \in Nat
    BY SchedulesType
  <1>4. /\ IsHeap(h) /\ ToSet(h) = ToSet(heap) \ {first}
    BY <1>1, <1>2, PopTakes
  <1>5. first \in ToSet(heap) /\ first \in Event
    <2>1. heap \in Seq(Event)
      BY <1>2 DEF IsHeap
    <2>2. 1 \in 1..Len(heap)
      BY <1>1, <2>1
    <2> QED
      BY <2>1, <2>2, Elements
  <1> HIDE DEF h, first
  <1>6. /\ IsHeap(heap')
        /\ \A e \in ToSet(heap') : e.seqNum < seqNum'
        /\ ToSet(h) \subseteq ToSet(heap')
        /\ \A f \in ToSet(heap') \ ToSet(h) :
             /\ f.seqNum >= seqNum
             /\ \E i \in DOMAIN times : f.timeMs = times[i]
    BY <1>1, <1>2, <1>3, <1>4, ScheduleKeeps
  <1>7. first \notin ToSet(heap')
    <2>1. first.seqNum < seqNum /\ first.seqNum \in Nat /\ first \notin ToSet(h)
      BY <1>2, <1>4, <1>5 DEF Event
    <2> QED
      BY <1>2, <1>6, <2>1
  <1>8. \A f \in ToSet(heap') \ ToSet(heap) : f.timeMs >= clock'
    BY <1>1, <1>4, <1>6
  <1>9. seqNum' \in 0..MaxEvents
    BY <1>1, <1>2, <1>3
  <1>10. clock' \in Times
    BY <1>1, <1>5 DEF Event
  <1>11. QueueInv'
    BY <1>1, <1>6, <1>9, <1>10 DEF QueueInv
  <1> QED
    BY <1>1, <1>4, <1>5, <1>6, <1>7, <1>8, <1>11 DEF first

LEMMA NextQueue == QueueInv /\ [Next]_vars => QueueInv'
  <1> SUFFICES ASSUME QueueInv, [Next]_vars PROVE QueueInv'
    OBVIOUS
  <1>1. CASE \E t \in Times : ScheduleArrival(t)
    BY <1>1, ArrivalScheduled
  <1>2. CASE \E times \in Schedules : Turn(times)
    BY <1>2, TurnFires
  <1>3. CASE UNCHANGED vars
    BY <1>3 DEF vars, QueueInv
  <1> QED
    BY <1>1, <1>2, <1>3 DEF Next

LEMMA QueueAlways == Spec => []QueueInv
  BY InitQueue, NextQueue, PTL DEF Spec

LEMMA DistinctNumbers ==
  ASSUME NEW h \in Seq(Event), Distinct(h)
  PROVE  Cardinality({e.seqNum : e \in ToSet(h)}) = Len(h)
  <1> DEFINE S == 1..Len(h)
             T == {e.seqNum : e \in ToSet(h)}
             f == [i \in S |-> h[i].seqNum]
  <1>1. IsFiniteSet(S) /\ Cardinality(S) = Len(h)
    <2>1. Len(h) \in Nat
      OBVIOUS
    <2> DEFINE n == Len(h)
    <2> HIDE DEF n
    <2>2. ASSUME n \in Nat
          PROVE  IsFiniteSet(1..n) /\ Cardinality(1..n) = n
      <3>1. /\ IsFiniteSet(1..n)
            /\ Cardinality(1..n) = IF 1 > n THEN 0 ELSE n - 1 + 1
        BY <2>2, FS_Interval
      <3>2. (IF 1 > n THEN 0 ELSE n - 1 + 1) = n
        BY <2>2
      <3> QED
        BY <3>1, <3>2
    <2> QED
      BY <2>1, <2>2 DEF n
  <1>2. ToSet(h) = {h[i] : i \in S}
    BY Elements
  <1>3. f \in [S -> T] /\ \A i \in S : f[i] = h[i].seqNum
    BY <1>2
  <1>4. \A x \in T : \E i \in S : f[i] = x
    BY <1>2
  <1>5. \A i, j \in S : f[i] = f[j] => i = j
    BY DEF Distinct
  <1> HIDE DEF f, S, T
  <1>6. f \in Bijection(S, T)
    BY <1>3, <1>4, <1>5 DEF Bijection, Injection, Surjection, IsInjective
  <1>7. Cardinality(T) = Cardinality(S)
    BY <1>1, <1>6, FS_Bijection DEF ExistsBijection
  <1> QED
    BY <1>1, <1>7 DEF T

(* The engine numbers the events it schedules one after the other: no two  *)
(* in the queue have one number, and none has a number still to be given.  *)
THEOREM QueueTypes == Spec => []TypeOK
  <1>1. QueueInv => TypeOK
    <2> SUFFICES ASSUME QueueInv PROVE TypeOK
      OBVIOUS
    <2>1. heap \in Seq(Event) /\ Distinct(heap) /\ seqNum \in Nat
      BY EventAssumption DEF QueueInv, IsHeap
    <2>2. Cardinality({e.seqNum : e \in ToSet(heap)}) = Len(heap)
      BY <2>1, DistinctNumbers
    <2>3. heap \in Seq([timeMs : Times, seqNum : 0..(seqNum - 1)])
      <3>1. \A i \in 1..Len(heap) : heap[i] \in [timeMs : Times, seqNum : 0..(seqNum - 1)]
        <4> SUFFICES ASSUME NEW i \in 1..Len(heap)
                     PROVE  heap[i] \in [timeMs : Times, seqNum : 0..(seqNum - 1)]
          OBVIOUS
        <4>1. heap[i] \in ToSet(heap) /\ heap[i] \in Event
          BY <2>1, Elements
        <4>2. heap[i].seqNum < seqNum
          BY <4>1 DEF QueueInv
        <4> QED
          BY <2>1, <4>1, <4>2 DEF Event
      <3> DEFINE S == [timeMs : Times, seqNum : 0..(seqNum - 1)]
      <3> HIDE DEF S
      <3>2. Len(heap) \in Nat /\ heap = [i \in 1..Len(heap) |-> heap[i]]
        BY <2>1
      <3>3. \A i \in 1..Len(heap) : heap[i] \in S
        BY <3>1 DEF S
      <3>4. heap \in Seq(S)
        BY <3>2, <3>3
      <3> QED
        BY <3>4 DEF S
    <2> QED
      BY <2>2, <2>3 DEF QueueInv, TypeOK
  <1> QED
    BY <1>1, QueueAlways, PTL

(* Whatever is pushed and popped, in whatever order, the slice is a heap:  *)
(* up and down restore the order that Push and Pop disturb, within as many *)
(* turns as there are levels.                                              *)
THEOREM HeapStaysOrdered == Spec => []HeapOrdered
  <1>1. QueueInv => HeapOrdered
    BY DEF QueueInv, IsHeap, HeapOrder, HeapOrdered
  <1> QED
    BY <1>1, QueueAlways, PTL

-----------------------------------------------------------------------------
(* The key of an event lies between its time and the time at which all     *)
(* fractions are added to it, and so an event with a lesser key fires      *)
(* before that.                                                            *)
LEMMA UntilGrows ==
  ASSUME NEW s \in Times, NEW t \in Times, s <= t
  PROVE  s \in Nat /\ Until(t) \in Nat /\ s <= Until(t)
  <1>1. s \in Nat /\ t \in Nat /\ MaxEvents \in Nat /\ Rounded(s) = s
    BY EventAssumption
  <1>2. Rounded(s) <= Rounded(t + MaxEvents)
    BY <1>1, RoundedMonotone
  <1>3. Rounded(t + MaxEvents) \in Nat
    BY <1>1, RoundedType
  <1> QED
    BY <1>1, <1>2, <1>3 DEF Until

LEMMA LesserKeyFiresInTime ==
  ASSUME NEW e \in Event, NEW f \in Event, f.seqNum <= MaxEvents,
         Priority(e) <= Priority(f)
  PROVE  e.timeMs <= Until(f.timeMs)
  <1>1. /\ e.timeMs \in Nat /\ f.timeMs \in Nat
        /\ e.seqNum \in Nat /\ f.seqNum \in Nat /\ MaxEvents \in Nat
        /\ Rounded(e.timeMs) = e.timeMs
    BY EventAssumption DEF Event
  <1>2. Rounded(f.timeMs + f.seqNum) <= Rounded(f.timeMs + MaxEvents)
    BY <1>1, RoundedMonotone
  <1>3. Rounded(e.timeMs) <= Rounded(e.timeMs + e.seqNum)
    BY <1>1, RoundedMonotone
  <1>4. /\ Rounded(f.timeMs + f.seqNum) \in Nat
        /\ Rounded(f.timeMs + MaxEvents) \in Nat
        /\ Rounded(e.timeMs + e.seqNum) \in Nat
    BY <1>1, RoundedType
  <1> QED
    BY <1>1, <1>2, <1>3, <1>4 DEF Priority, Until

LEMMA TurnInTime ==
  ASSUME QueueInv, NEW times \in Schedules, Turn(times)
  PROVE  \A f \in ToSet(heap) : heap[1].timeMs <= Until(f.timeMs)
  <1> SUFFICES ASSUME NEW f \in ToSet(heap)
               PROVE  heap[1].timeMs <= Until(f.timeMs)
    OBVIOUS
  <1>1. IsHeap(heap) /\ heap \in Seq(Event)
    BY DEF QueueInv, IsHeap
  <1>2. heap[1] \in ToSet(heap)
    BY TurnFires
  <1>3. Priority(heap[1]) <= Priority(f)
    BY <1>1, FirstLeast
  <1>4. heap[1] \in Event /\ f \in Event
    BY <1>1, <1>2, Elements
  <1>5. f.seqNum <= MaxEvents
    <2>1. f.seqNum < seqNum /\ seqNum \in 0..MaxEvents /\ MaxEvents \in Nat
      BY EventAssumption DEF QueueInv
    <2>2. f.seqNum \in Nat
      BY <1>4 DEF Event
    <2> QED
      BY <2>1, <2>2
  <1> QED
    BY <1>3, <1>4, <1>5, LesserKeyFiresInTime

(* The loop of Engine.Run does what EventBag promises, with a heap whose   *)
(* keys are rounded: every event fires, none schedules one in the past,    *)
(* and none fires past a waiting one that is earlier by more than the      *)
(* fractions of all events of the run.                                     *)
THEOREM QueueImplementsBag == Spec => ImplementsEventBag
  <1>1. Init => Abstract!Init
    BY DEF Init, Abstract!Init
  <1>2. QueueInv /\ [Next]_vars => [Abstract!Next]_(Abstract!vars)
    <2> SUFFICES ASSUME QueueInv, [Next]_vars
                 PROVE  [Abstract!Next]_(Abstract!vars)
      OBVIOUS
    <2>1. CASE \E t \in Times : ScheduleArrival(t)
      <3>1. Abstract!Schedule
        BY <2>1, ArrivalScheduled DEF Abstract!Schedule
      <3> QED
        BY <3>1 DEF Abstract!Next
    <2>2. CASE \E times \in Schedules : Turn(times)
      <3>1. /\ heap # <<>> /\ clock' = heap[1].timeMs
            /\ heap[1] \in ToSet(heap) /\ heap[1] \notin ToSet(heap')
            /\ ToSet(heap) \ {heap[1]} \subseteq ToSet(heap')
            /\ \A f \in ToSet(heap') \ ToSet(heap) : f.timeMs >= clock'
        BY <2>2, TurnFires
      <3>2. \A f \in ToSet(heap) : heap[1].timeMs <= Until(f.timeMs)
        BY <2>2, TurnInTime
      <3>3. Abstract!Fire(heap[1])
        BY <3>1, <3>2 DEF Abstract!Fire
      <3> QED
        BY <3>1, <3>3 DEF Abstract!Next
    <2>3. CASE UNCHANGED vars
      BY <2>3 DEF vars, Abstract!vars
    <2> QED
      BY <2>1, <2>2, <2>3 DEF Next
  <1> QED
    BY <1>1, <1>2, QueueAlways, PTL DEF Spec, ImplementsEventBag, Abstract!Spec

(* What is waiting is not further back from the clock than the fractions   *)
(* are: an event that fires in time leaves none behind, and schedules none *)
(* in the past.                                                            *)
Waiting == \A f \in ToSet(heap) : clock <= Until(f.timeMs)

LEMMA NextWaiting ==
  ASSUME QueueInv, Waiting, [Next]_vars
  PROVE  Waiting' /\ (clock' # clock => clock <= Until(clock'))
  <1>1. QueueInv'
    BY NextQueue
  <1>2. \A f \in ToSet(heap') : f \in Event /\ f.timeMs \in Times
    BY <1>1, Elements DEF QueueInv, IsHeap, Event
  <1>3. CASE \E t \in Times : ScheduleArrival(t)
    <2>1. clock' = clock /\ clock = 0
      BY <1>3 DEF ScheduleArrival, QueueInv
    <2>2. ASSUME NEW f \in ToSet(heap') PROVE Until(f.timeMs) \in Nat
      <3>1. f.timeMs \in Times
        BY <1>2, <2>2
      <3>2. f.timeMs \in Nat
        BY <3>1, EventAssumption
      <3>3. f.timeMs <= f.timeMs
        BY <3>2
      <3> QED
        BY <3>1, <3>3, UntilGrows
    <2> QED
      BY <2>1, <2>2 DEF Waiting
  <1>4. CASE \E times \in Schedules : Turn(times)
    <2>1. /\ clock' = heap[1].timeMs /\ heap[1] \in ToSet(heap)
          /\ ToSet(heap) \ {heap[1]} \subseteq ToSet(heap')
          /\ \A f \in ToSet(heap') \ ToSet(heap) : f.timeMs >= clock'
      BY <1>4, TurnFires
    <2>2. \A f \in ToSet(heap) : clock' <= Until(f.timeMs)
      BY <1>4, <2>1, TurnInTime
    <2>3. clock' \in Times
      BY <2>1, Elements DEF QueueInv, IsHeap, Event
    <2>4. ASSUME NEW f \in ToSet(heap'), f \notin ToSet(heap)
          PROVE  clock' <= Until(f.timeMs)
      <3>1. f.timeMs \in Times /\ f.timeMs >= clock'
        BY <1>2, <2>1, <2>4
      <3> QED
        BY <2>3, <3>1, UntilGrows, EventAssumption
    <2>5. Waiting'
      BY <2>2, <2>4 DEF Waiting, Until
    <2>6. clock <= Until(clock')
      BY <2>1 DEF Waiting
    <2> QED
      BY <2>5, <2>6
  <1>5. CASE UNCHANGED vars
    BY <1>5 DEF vars, Waiting, Until
  <1> QED
    BY <1>3, <1>4, <1>5 DEF Next

(* The order of events at close times may be wrong, and the clock then     *)
(* turned back, by no more than the fractions of all events of the run.    *)
THEOREM ClockStaysNearlyMonotone == Spec => ClockNearlyMonotone
  <1>1. Init => Waiting
    BY DEF Init, Waiting, ToSet
  <1>2. QueueInv /\ Waiting /\ [Next]_vars => Waiting'
    BY NextWaiting
  <1>3. QueueInv /\ Waiting /\ [Next]_vars => [clock <= Until(clock')]_vars
    <2> SUFFICES ASSUME QueueInv, Waiting, [Next]_vars
                 PROVE  clock <= Until(clock') \/ UNCHANGED vars
      OBVIOUS
    <2>1. CASE clock' # clock
      BY <2>1, NextWaiting
    <2>2. CASE clock' = clock
      <3>1. clock = 0 \/ clock \in Times
        BY DEF QueueInv
      <3>2. clock <= Until(clock)
        <4>1. CASE clock = 0
          <5>1. clock + MaxEvents \in Nat
            BY <4>1, EventAssumption
          <5>2. Until(clock) \in Nat
            BY <5>1, RoundedType DEF Until
          <5> QED
            BY <4>1, <5>2
        <4>2. CASE clock \in Times
          <5>1. clock <= clock
            BY <4>2, EventAssumption
          <5> QED
            BY <4>2, <5>1, UntilGrows
        <4> QED
          BY <3>1, <4>1, <4>2
      <3> QED
        BY <2>2, <3>2
    <2> QED
      BY <2>1, <2>2
  <1> QED
    BY <1>1, <1>2, <1>3, QueueAlways, PTL DEF Spec, ClockNearlyMonotone

(* Of two events of one time whose keys are exact the one scheduled first  *)
(* fires first: only rounding can let a tie be broken the other way.       *)
THEOREM ExactTiesBrokenInOrder == Spec => ExactTiesInOrder
  <1>1. QueueInv /\ [Next]_vars =>
          [\A e, f \in ToSet(heap) :
             FiresBefore(e, f) /\ Exact(e) /\ Exact(f) => InOrder(e, f)]_vars
    <2> SUFFICES ASSUME QueueInv, Next,
                        NEW e \in ToSet(heap), NEW f \in ToSet(heap),
                        FiresBefore(e, f), Exact(e), Exact(f),
                        e.timeMs = f.timeMs
                 PROVE  e.seqNum < f.seqNum
      BY DEF InOrder
    <2>1. IsHeap(heap) /\ heap \in Seq(Event) /\ Distinct(heap)
      BY DEF QueueInv, IsHeap
    <2>2. e = heap[1] /\ f # heap[1]
      <3>1. e \notin ToSet(heap') /\ f \in ToSet(heap')
        BY DEF FiresBefore
      <3>2. CASE \E t \in Times : ScheduleArrival(t)
        BY <3>1, <3>2, ArrivalScheduled
      <3>3. CASE \E times \in Schedules : Turn(times)
        BY <3>1, <3>3, TurnFires
      <3> QED
        BY <3>2, <3>3 DEF Next
    <2>3. Priority(e) <= Priority(f)
      BY <2>1, <2>2, FirstLeast
    <2>4. e \in Event /\ f \in Event
      BY <2>1, Elements
    <2>5. /\ e.timeMs \in Nat /\ f.timeMs \in Nat
          /\ e.seqNum \in Nat /\ f.seqNum \in Nat
      BY <2>4, EventAssumption DEF Event
    <2>6. e.seqNum <= f.seqNum
      BY <2>3, <2>5 DEF Exact
    <2>7. e.seqNum # f.seqNum
      <3>1. PICK i \in 1..Len(heap), j \in 1..Len(heap) : e = heap[i] /\ f = heap[j]
        BY <2>1, Elements
      <3> QED
        BY <2>1, <2>2, <3>1 DEF Distinct
    <2> QED
      BY <2>5, <2>6, <2>7
  <1> QED
    BY <1>1, QueueAlways, PTL DEF Spec, ExactTiesInOrder
=============================================================================
