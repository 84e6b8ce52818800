--------------------------- MODULE SessionProofs ---------------------------
(***************************************************************************)
(* The invariants of Session and of the generators in it, proved for every *)
(* set of configurations, every number of words and every list of          *)
(* policies.                                                               *)
(***************************************************************************)
EXTENDS Session, SequenceTheorems, FiniteSetTheorems, TLAPS

-----------------------------------------------------------------------------
(* What a call of the generator returns is determined by the words of the  *)
(* seed: a call that starts after k words and uses n of them.              *)
RngType ==
  {g \in [words : Seq(Words), used : Nat] : g.used <= Len(g.words)}

Extends(w, v) ==
  Len(v) <= Len(w) /\ \A i \in 1..Len(v) : w[i] = v[i]

Later(h, g, n) ==
  /\ h \in RngType
  /\ h.used = g.used + n
  /\ Extends(h.words, g.words)

IntWords(range) == IF range.min >= range.max THEN 0 ELSE 1

IntAt(w, k, range) ==
  IF range.min >= range.max THEN range.min
  ELSE range.min + (w[k + 1] % (range.max - range.min + 1))

GapWords(rate) == IF rate <= 0 THEN 0 ELSE 1

GapAt(w, k, rate) ==
  IF rate <= 0 THEN MaxFloat64
  ELSE (Waits[w[k + 1]] + rate - 1) \div rate

PrefixWords(share) == IF share <= 0 THEN 0 ELSE 1

PrefixAt(w, k, share) ==
  IF share <= 0 THEN FALSE ELSE Float64Below(w[k + 1], share)

RequestOf(time, context, output, tier, shares) ==
  [arrivalMs |-> time, contextTokens |-> context, outputTokens |-> output,
   tier |-> tier, sharesPrefix |-> shares]

(* A request but for its tier, which takes one word whatever it is.        *)
RequestWords(c) ==
  IntWords(c.contextTokens) + IntWords(c.outputTokens) + 1
  + PrefixWords(c.prefixHitRate)

RequestAt(c, w, k, time) ==
  LET output == k + IntWords(c.contextTokens)
      prefix == output + IntWords(c.outputTokens) + 1
  IN RequestOf(time, IntAt(w, k, c.contextTokens),
               IntAt(w, output, c.outputTokens), "",
               PrefixAt(w, prefix, c.prefixHitRate))

LEMMA ExtendsTransitive ==
  ASSUME NEW u \in Seq(Words), NEW v \in Seq(Words), NEW w \in Seq(Words),
         Extends(w, v), Extends(v, u)
  PROVE  Extends(w, u)
  BY DEF Extends

LEMMA LaterNone ==
  ASSUME NEW g \in RngType
  PROVE  Later(g, g, 0) /\ g.words \in Seq(Words) /\ g.used \in Nat
  BY DEF RngType, Later, Extends

LEMMA LaterTwice ==
  ASSUME NEW g \in RngType, NEW h, NEW i, NEW m \in Nat, NEW n \in Nat,
         Later(h, g, m), Later(i, h, n)
  PROVE  Later(i, g, m + n)
  <1>1. g.words \in Seq(Words) /\ h.words \in Seq(Words)
        /\ i.words \in Seq(Words) /\ g.used \in Nat
    BY DEF Later, RngType
  <1>2. Extends(i.words, g.words)
    BY <1>1, ExtendsTransitive DEF Later
  <1> QED
    BY <1>1, <1>2 DEF Later

(* The word a draw returns is the next one of the seed, now and in every   *)
(* longer sequence.                                                        *)
LEMMA DrawAt ==
  ASSUME NEW g \in RngType, NEW d \in Draw(g)
  PROVE  /\ d.value \in Words
         /\ Later(d.rng, g, 1)
         /\ \A w \in Seq(Words) :
              Extends(w, d.rng.words) => d.value = w[g.used + 1]
  <1>0. g.words \in Seq(Words) /\ g.used \in Nat /\ g.used <= Len(g.words)
        /\ g = [words |-> g.words, used |-> g.used]
    BY DEF RngType
  <1>1. CASE g.used < Len(g.words)
    <2>1. d = [value |-> g.words[g.used + 1],
               rng |-> [g EXCEPT !.used = @ + 1]]
      BY <1>1 DEF Draw
    <2>2. d.value = g.words[g.used + 1]
          /\ d.rng = [words |-> g.words, used |-> g.used + 1]
      BY <1>0, <2>1
    <2>3. g.used + 1 \in 1..Len(g.words)
      BY <1>0, <1>1
    <2> QED
      BY <1>0, <2>2, <2>3 DEF Later, RngType, Extends
  <1>2. CASE ~(g.used < Len(g.words))
    <2>1. PICK u \in Words :
            d = [value |-> u, rng |-> [words |-> Append(g.words, u),
                                       used |-> g.used + 1]]
      BY <1>2 DEF Draw
    <2>2. /\ Append(g.words, u) \in Seq(Words)
          /\ Len(Append(g.words, u)) = g.used + 1
          /\ \A i \in 1..Len(g.words) : Append(g.words, u)[i] = g.words[i]
          /\ Append(g.words, u)[g.used + 1] = u
      BY <1>0, <1>2
    <2>3. d.value = u /\ d.rng.words = Append(g.words, u)
          /\ d.rng.used = g.used + 1 /\ d.rng \in RngType
      BY <1>0, <2>1, <2>2 DEF RngType
    <2> QED
      BY <1>0, <2>2, <2>3 DEF Later, Extends
  <1> QED
    BY <1>1, <1>2

LEMMA IntRangeAt ==
  ASSUME NEW g \in RngType, NEW range, NEW d \in IntRange(g, range)
  PROVE  /\ Later(d.rng, g, IntWords(range))
         /\ \A w \in Seq(Words) :
              Extends(w, d.rng.words) => d.value = IntAt(w, g.used, range)
  <1>1. CASE range.min >= range.max
    <2>1. d = [value |-> range.min, rng |-> g]
      BY <1>1 DEF IntRange
    <2> QED
      BY <1>1, <2>1, LaterNone DEF IntAt, IntWords
  <1>2. CASE ~(range.min >= range.max)
    <2>1. PICK e \in Draw(g) :
            d = [value |->
                   range.min + (e.value % (range.max - range.min + 1)),
                 rng |-> e.rng]
      BY <1>2 DEF IntRange, Intn, Map
    <2> QED
      BY <1>2, <2>1, DrawAt DEF IntAt, IntWords
  <1> QED
    BY <1>1, <1>2

LEMMA PickTierAt ==
  ASSUME NEW g \in RngType, NEW d \in PickTier(g)
  PROVE  Later(d.rng, g, 1)
  <1>1. CASE DOMAIN cfg.tierWeights = {}
    <2>1. PICK e \in Draw(g) : d.rng = e.rng
      BY <1>1 DEF PickTier, Intn, Map
    <2> QED
      BY <2>1, DrawAt
  <1>2. CASE DOMAIN cfg.tierWeights # {}
    <2>1. PICK e \in Draw(g) : d.rng = e.rng
      BY <1>2 DEF PickTier
    <2> QED
      BY <2>1, DrawAt
  <1> QED
    BY <1>1, <1>2

LEMMA PickPrefixAt ==
  ASSUME NEW g \in RngType, NEW d \in PickPrefix(g)
  PROVE  /\ Later(d.rng, g, PrefixWords(cfg.prefixHitRate))
         /\ \A w \in Seq(Words) :
              Extends(w, d.rng.words) =>
                d.value = PrefixAt(w, g.used, cfg.prefixHitRate)
  <1>1. CASE cfg.prefixHitRate <= 0
    <2>1. d = [value |-> FALSE, rng |-> g]
      BY <1>1 DEF PickPrefix
    <2> QED
      BY <1>1, <2>1, LaterNone DEF PrefixAt, PrefixWords
  <1>2. CASE ~(cfg.prefixHitRate <= 0)
    <2>1. PICK e \in Draw(g) :
            d = [value |-> Float64Below(e.value, cfg.prefixHitRate),
                 rng |-> e.rng]
      BY <1>2 DEF PickPrefix, Map
    <2> QED
      BY <1>2, <2>1, DrawAt DEF PrefixAt, PrefixWords
  <1> QED
    BY <1>1, <1>2

(* The tiers that pickTier may return when the configuration is valid.     *)
TierOf(t) ==
  IF DOMAIN cfg.tierWeights = {}
  THEN \E n \in DOMAIN cfg.tiers : cfg.tiers[n] = t
  ELSE \/ t \in DOMAIN cfg.tierWeights
       \/ /\ Weight(cfg.tierWeights, DOMAIN cfg.tierWeights) < 0
          /\ t = cfg.tiers[1]

(* The weights are whole numbers, and so are their sums.                   *)
Added(weights, sum, name) == sum + weights[name]

Adding == INSTANCE FoldProofs WITH Step <- Added

LEMMA WeightType ==
  ASSUME NEW names, IsFiniteSet(names), NEW weights,
         \A n \in names : weights[n] \in Int
  PROVE  Weight(weights, names) \in Int
  <1> DEFINE F == CHOOSE F : Adding!Summing(F, SUBSET names, weights)
  <1>1. Adding!Summing(F, SUBSET names, weights)
    BY Adding!SummingExists DEF IsFiniteSet, Adding!IsFiniteSet
  <1>2. Weight(weights, names) = F[names]
    BY DEF Weight, MapThenSumSet, MapThenFoldSet, Adding!Summing, Adding!First
  <1> HIDE DEF F
  <1>3. F[names] \in Int
    BY <1>1, Adding!SummingType DEF IsFiniteSet, Adding!IsFiniteSet
  <1> QED
    BY <1>2, <1>3

LEMMA ShareReached ==
  ASSUME NEW u \in Nat, NEW n \in Nat, u < n, NEW total \in Nat
  PROVE  (2 * u + 1) * total <= 2 * n * total
  <1> DEFINE k == 2 * n - (2 * u + 1)
  <1>1. k \in Nat /\ 2 * n = (2 * u + 1) + k
    OBVIOUS
  <1> HIDE DEF k
  <1>2. k * total \in Nat
    BY <1>1
  <1>3. ((2 * u + 1) + k) * total = (2 * u + 1) * total + k * total
    BY <1>1
  <1> QED
    BY <1>1, <1>2, <1>3

(* A walk meets every name, so that a total that is not negative reaches   *)
(* every share of itself.                                                  *)
LEMMA TierOnWalkOf ==
  ASSUME cfg \in Configs, DOMAIN cfg.tierWeights # {},
         NEW u \in Words, NEW walk \in Walks
  PROVE  TierOf(TierOnWalk(u, walk))
  <1> DEFINE names == DOMAIN cfg.tierWeights
             n == Cardinality(names)
             reached == {i \in DOMAIN walk :
                           Reaches(u, {walk[j] : j \in 1..i})}
  <1>1. n \in Nat \ {0}
    BY WorkloadAssumption, FS_CardinalityType, FS_EmptySet
  <1>2. /\ walk \in [1..n -> names]
        /\ \A t \in names : \E j \in 1..n : walk[j] = t
    BY DEF Walks, Bijection, Injection, Surjection
  <1>3. CASE reached # {}
    <2>1. reached \in SUBSET Nat /\ reached \subseteq 1..n
      BY <1>1, <1>2
    <2>2. PICK m \in reached : \A k \in reached : m <= k
      <3> HIDE DEF reached
      <3> QED
        BY <1>3, <2>1, Adding!LeastNatural
    <2>3. Min(reached) \in reached
      <3> HIDE DEF reached
      <3> QED
        BY <2>2 DEF Min
    <2>4. TierOnWalk(u, walk) = walk[Min(reached)]
      BY <1>3 DEF TierOnWalk
    <2>5. walk[Min(reached)] \in names
      <3> HIDE DEF reached, names
      <3> QED
        BY <1>2, <2>1, <2>3
    <2> QED
      BY <2>4, <2>5 DEF TierOf
  <1>4. CASE reached = {}
    <2>1. TierOnWalk(u, walk) = cfg.tiers[1]
      BY <1>4 DEF TierOnWalk
    <2>2. n \in DOMAIN walk /\ {walk[j] : j \in 1..n} = names
      <3> HIDE DEF names, n
      <3> QED
        BY <1>1, <1>2
    <2>3. ~Reaches(u, names)
      BY <1>4, <2>2
    <2> DEFINE total == Weight(cfg.tierWeights, names)
    <2>4. total \in Int
      BY WorkloadAssumption, WeightType
    <2>5. u \in Nat /\ WordCount \in Nat /\ u < WordCount
      BY WorkloadAssumption DEF Words
    <2>6. ~((2 * u + 1) * total <= 2 * WordCount * total)
      BY <2>3 DEF Reaches
    <2>7. total < 0
      <3> HIDE DEF total
      <3> QED
        BY <2>4, <2>5, <2>6, ShareReached
    <2> QED
      BY <2>1, <2>7 DEF TierOf
  <1> QED
    BY <1>3, <1>4

LEMMA Remainder ==
  ASSUME NEW u \in Nat, NEW n \in Nat \ {0}
  PROVE  u % n \in 0..(n - 1)
  BY SMTT(30)

LEMMA PickTierOf ==
  ASSUME cfg \in Configs, Valid(cfg), NEW g \in RngType, NEW d \in PickTier(g)
  PROVE  TierOf(d.value)
  <1>1. CASE DOMAIN cfg.tierWeights = {}
    <2>1. PICK e \in Draw(g) :
            d.value = cfg.tiers[(e.value % Len(cfg.tiers)) + 1]
      BY <1>1 DEF PickTier, Intn, Map
    <2>2. cfg.tiers \in Seq(STRING) /\ Len(cfg.tiers) \in Nat \ {0}
      BY WorkloadAssumption, EmptySeq, LenProperties DEF Valid
    <2>3. e.value \in Nat
      BY DrawAt, WorkloadAssumption DEF Words
    <2> DEFINE L == Len(cfg.tiers)
               m == e.value % L
    <2>4. m \in 0..(L - 1)
      BY <2>2, <2>3, Remainder, Zenon
    <2>5. m + 1 \in 1..L /\ d.value = cfg.tiers[m + 1]
      <3> HIDE DEF m
      <3>1. m + 1 \in 1..L
        BY <2>2, <2>4
      <3> QED
        BY <2>1, <3>1 DEF m
    <2> QED
      BY <1>1, <2>2, <2>5 DEF TierOf
  <1>2. CASE DOMAIN cfg.tierWeights # {}
    <2>1. PICK e \in Draw(g) : d.value \in WeightedTiers(e.value)
      BY <1>2 DEF PickTier
    <2>2. e.value \in Words
      BY DrawAt
    <2>3. PICK walk \in Walks : d.value = TierOnWalk(e.value, walk)
      BY <2>1 DEF WeightedTiers
    <2> QED
      BY <1>2, <2>2, <2>3, TierOnWalkOf
  <1> QED
    BY <1>1, <1>2

LEMMA RequestOfFields ==
  ASSUME NEW r, NEW a, NEW m, NEW n, NEW p,
         ButTier(r) = RequestOf(a, m, n, "", p)
  PROVE  r.contextTokens = m /\ r.outputTokens = n /\ r.sharesPrefix = p
  <1>1. ASSUME NEW s, s = RequestOf(a, m, n, "", p)
        PROVE  /\ s.contextTokens = m /\ s.outputTokens = n
               /\ s.sharesPrefix = p
               /\ DOMAIN s = {"arrivalMs", "contextTokens", "outputTokens",
                              "tier", "sharesPrefix"}
    BY <1>1 DEF RequestOf
  <1> DEFINE s == ButTier(r)
  <1>2. DOMAIN r = DOMAIN s /\ \A x \in DOMAIN r : x # "tier" => s[x] = r[x]
    BY DEF ButTier
  <1> HIDE DEF s
  <1>3. s = RequestOf(a, m, n, "", p)
    BY DEF s
  <1>4. /\ s.contextTokens = m /\ s.outputTokens = n
        /\ s.sharesPrefix = p
        /\ DOMAIN s = {"arrivalMs", "contextTokens", "outputTokens",
                       "tier", "sharesPrefix"}
    BY <1>1, <1>3
  <1> QED
    BY <1>2, <1>4

LEMMA RequestFields ==
  ASSUME NEW c, NEW w, NEW k, NEW time, NEW r,
         ButTier(r) = RequestAt(c, w, k, time)
  PROVE  LET output == k + IntWords(c.contextTokens)
             prefix == output + IntWords(c.outputTokens) + 1
         IN /\ r.contextTokens = IntAt(w, k, c.contextTokens)
            /\ r.outputTokens = IntAt(w, output, c.outputTokens)
            /\ r.sharesPrefix = PrefixAt(w, prefix, c.prefixHitRate)
  BY RequestOfFields DEF RequestAt

LEMMA ButTierOf ==
  ASSUME NEW a, NEW m, NEW n, NEW t, NEW p
  PROVE  ButTier(RequestOf(a, m, n, t, p)) = RequestOf(a, m, n, "", p)
  <1> DEFINE R == [arrivalMs : {a}, contextTokens : {m}, outputTokens : {n},
                   tier : {t, ""}, sharesPrefix : {p}]
             r == RequestOf(a, m, n, t, p)
             s == RequestOf(a, m, n, "", p)
  <1>1. r \in R /\ s \in R /\ s.tier = ""
    BY DEF RequestOf
  <1> HIDE DEF r, s
  <1>2. ButTier(r) \in R /\ ButTier(r).tier = ""
    BY <1>1 DEF ButTier
  <1> QED
    BY <1>1, <1>2 DEF r, s, RequestOf

(* makeRequest appends one request of the given time; all but its tier is  *)
(* determined by the words.                                                *)
LEMMA MakeRequestAt ==
  ASSUME cfg \in Configs, NEW g \in RngType, NEW time, MakeRequest(g, time)
  PROVE  \E r :
           /\ requests' = Append(requests, r)
           /\ r.arrivalMs = time
           /\ Valid(cfg) => TierOf(r.tier)
           /\ Later(rng', g, RequestWords(cfg))
           /\ \A w \in Seq(Words) : Extends(w, rng'.words) =>
                ButTier(r) = RequestAt(cfg, w, g.used, time)
  <1> DEFINE Made(context, output, tier, prefix) ==
               RequestOf(time, context.value, output.value, tier.value,
                         prefix.value)
  <1>1. PICK context \in IntRange(g, cfg.contextTokens) :
        \E output \in IntRange(context.rng, cfg.outputTokens) :
        \E tier \in PickTier(output.rng) :
        \E prefix \in PickPrefix(tier.rng) :
          /\ requests' = Append(requests, Made(context, output, tier, prefix))
          /\ rng' = prefix.rng
    BY DEF MakeRequest, RequestOf
  <1>2. PICK output \in IntRange(context.rng, cfg.outputTokens) :
        \E tier \in PickTier(output.rng) :
        \E prefix \in PickPrefix(tier.rng) :
          /\ requests' = Append(requests, Made(context, output, tier, prefix))
          /\ rng' = prefix.rng
    BY <1>1
  <1>3. PICK tier \in PickTier(output.rng) :
        \E prefix \in PickPrefix(tier.rng) :
          /\ requests' = Append(requests, Made(context, output, tier, prefix))
          /\ rng' = prefix.rng
    BY <1>2
  <1>4. PICK prefix \in PickPrefix(tier.rng) :
          /\ requests' = Append(requests, Made(context, output, tier, prefix))
          /\ rng' = prefix.rng
    BY <1>3
  <1> DEFINE nc == IntWords(cfg.contextTokens)
             no == IntWords(cfg.outputTokens)
             np == PrefixWords(cfg.prefixHitRate)
  <1>5. nc \in Nat /\ no \in Nat /\ np \in Nat /\ g.used \in Nat
    BY DEF IntWords, PrefixWords, RngType
  <1> HIDE DEF nc, no, np
  <1>6. Later(context.rng, g, nc) /\ context.rng \in RngType
    BY IntRangeAt DEF nc, Later
  <1>7. Later(output.rng, context.rng, no) /\ output.rng \in RngType
    BY <1>6, IntRangeAt DEF no, Later
  <1>8. Later(tier.rng, output.rng, 1) /\ tier.rng \in RngType
    BY <1>7, PickTierAt DEF Later
  <1>9. Later(prefix.rng, tier.rng, np) /\ prefix.rng \in RngType
    BY <1>8, PickPrefixAt DEF np, Later
  <1>10. Later(prefix.rng, g, nc + no + 1 + np)
    <2>1. Later(output.rng, g, nc + no)
      BY <1>5, <1>6, <1>7, LaterTwice
    <2>2. Later(tier.rng, g, nc + no + 1)
      BY <1>5, <1>8, <2>1, LaterTwice
    <2> QED
      BY <1>5, <1>9, <2>2, LaterTwice
  <1>11. ASSUME NEW w \in Seq(Words), Extends(w, prefix.rng.words)
         PROVE  ButTier(Made(context, output, tier, prefix))
                = RequestAt(cfg, w, g.used, time)
    <2>1. context.rng.words \in Seq(Words) /\ output.rng.words \in Seq(Words)
          /\ tier.rng.words \in Seq(Words) /\ prefix.rng.words \in Seq(Words)
      BY <1>6, <1>7, <1>8, <1>9, LaterNone
    <2>2. Extends(w, tier.rng.words)
      BY <1>9, <1>11, <2>1, ExtendsTransitive DEF Later
    <2>3. Extends(w, output.rng.words)
      BY <1>8, <2>1, <2>2, ExtendsTransitive DEF Later
    <2>4. Extends(w, context.rng.words)
      BY <1>7, <2>1, <2>3, ExtendsTransitive DEF Later
    <2>5. context.value = IntAt(w, g.used, cfg.contextTokens)
      BY <2>4, IntRangeAt
    <2>6. output.value = IntAt(w, g.used + nc, cfg.outputTokens)
      BY <1>6, <2>3, IntRangeAt DEF Later
    <2>7. tier.rng.used = g.used + nc + no + 1
      BY <1>5, <1>6, <1>7, <1>8 DEF Later
    <2>8. prefix.value
          = PrefixAt(w, g.used + nc + no + 1, cfg.prefixHitRate)
      BY <1>8, <1>11, <2>7, PickPrefixAt
    <2>9. RequestAt(cfg, w, g.used, time)
          = RequestOf(time, context.value, output.value, "", prefix.value)
      BY <2>5, <2>6, <2>8 DEF RequestAt, nc, no
    <2> QED
      BY <2>9, ButTierOf, Zenon
  <1>12. Valid(cfg) => TierOf(tier.value)
    BY <1>7, PickTierOf
  <1>13. Later(rng', g, RequestWords(cfg))
    BY <1>4, <1>10 DEF RequestWords, nc, no, np
  <1> DEFINE made == Made(context, output, tier, prefix)
  <1>14. requests' = Append(requests, made) /\ made.arrivalMs = time
         /\ made.tier = tier.value /\ rng' = prefix.rng
    BY <1>4 DEF RequestOf
  <1>15. \A w \in Seq(Words) : Extends(w, rng'.words) =>
           ButTier(made) = RequestAt(cfg, w, g.used, time)
    BY <1>11, <1>14
  <1> HIDE DEF made
  <1> QED
    BY <1>12, <1>13, <1>14, <1>15

LEMMA MakeRequestAppends ==
  ASSUME cfg \in Configs, NEW g \in RngType, NEW time, MakeRequest(g, time)
  PROVE  /\ \E r : requests' = Append(requests, r) /\ r.arrivalMs = time
         /\ rng' \in RngType
  BY MakeRequestAt DEF Later

(* A gap is at least one tick, also at a high rate.                        *)
LEMMA GapPositive ==
  ASSUME NEW g \in RngType, NEW rate \in Int, NEW gap \in Exponential(g, rate)
  PROVE  /\ gap.value \in Int /\ gap.rng \in RngType
         /\ gap.value >= 1 \/ gap.value = MaxFloat64
         /\ Later(gap.rng, g, GapWords(rate))
         /\ \A w \in Seq(Words) :
              Extends(w, gap.rng.words) => gap.value = GapAt(w, g.used, rate)
  <1>1. CASE rate <= 0
    <2>1. gap = [value |-> MaxFloat64, rng |-> g]
      BY <1>1 DEF Exponential, Map
    <2> QED
      BY <1>1, <2>1, WorkloadAssumption, LaterNone DEF GapWords, GapAt
  <1>2. CASE rate > 0
    <2>1. PICK d \in Draw(g) :
            gap = [value |-> (Waits[d.value] + rate - 1) \div rate,
                   rng |-> d.rng]
      BY <1>2 DEF Exponential, Map
    <2>2. d.value \in Words /\ d.rng \in RngType
      BY DrawAt DEF Later
    <2>3. Waits[d.value] \in Nat \ {0}
      BY <2>2, WorkloadAssumption
    <2>4. ASSUME NEW n \in Nat, n >= rate
          PROVE  n \div rate \in Int /\ n \div rate >= 1
      BY <1>2, <2>4, SMTT(30)
    <2>5. /\ Later(gap.rng, g, GapWords(rate))
          /\ \A w \in Seq(Words) :
               Extends(w, gap.rng.words) => gap.value = GapAt(w, g.used, rate)
      BY <1>2, <2>1, DrawAt DEF GapWords, GapAt
    <2>6. gap.value >= 1 /\ gap.value \in Int
      BY <1>2, <2>1, <2>3, <2>4
    <2> QED
      BY <2>1, <2>2, <2>5, <2>6
  <1> QED
    BY <1>1, <1>2

-----------------------------------------------------------------------------
(* The steps of main leave the generator alone, but for the start of a     *)
(* simulation and the turns of the generator itself.                       *)
LEMMA WorkloadSteps ==
  ASSUME [SessionNext]_sessionVars
  PROVE  UNCHANGED workloadVars \/ Generate \/ GeneratorTurn
  BY DEF SessionNext, sessionVars, Load, StartSimulation, GenerateWorkload,
         Simulate, WorkloadError, MakeDir, ExportSummary, ExportRequests

(* A slice to which something is appended.                                 *)
LEMMA AppendAny ==
  ASSUME NEW S, NEW s \in Seq(S), NEW r
  PROVE  /\ Append(s, r) \in Seq(S \cup {r})
         /\ Len(s) \in Nat /\ DOMAIN s = 1..Len(s)
         /\ DOMAIN Append(s, r) = 1..(Len(s) + 1)
         /\ \A i \in 1..Len(s) : Append(s, r)[i] = s[i]
         /\ Append(s, r)[Len(s) + 1] = r
  <1>1. s \in Seq(S \cup {r})
    OBVIOUS
  <1> QED
    BY <1>1, AppendProperties, LenProperties

-----------------------------------------------------------------------------
(* Every arrival so far lies in the burst that goes on, or more than an    *)
(* idle period before it; between two bursts, before the idle period.      *)
InPeriod(a) ==
  /\ a \in Int /\ a <= timeMs
  /\ inBurst => \/ periodStart <= a /\ a < periodStart + BurstDur
                \/ a < periodStart - IdleDur
  /\ ~inBurst => a < periodStart

GeneratorTypeOK ==
  /\ cfg \in Configs
  /\ rng \in RngType
  /\ timeMs \in Nat /\ periodStart \in Nat /\ inBurst \in BOOLEAN
  /\ \E S : requests \in Seq(S)

BurstInv ==
  /\ GeneratorTypeOK
  /\ cfg.type = "bursty" =>
       /\ periodStart <= timeMs
       /\ \A i \in DOMAIN requests : InPeriod(requests[i].arrivalMs)
  /\ BurstsApart

LEMMA PeriodLengths ==
  ASSUME cfg \in Configs
  PROVE  BurstDur \in Nat \ {0} /\ IdleDur \in Nat \ {0}
  BY WorkloadAssumption DEF BurstDur, IdleDur

LEMMA BurstInit ==
  ASSUME SessionInit
  PROVE  BurstInv
  <1>1. requests = <<>> /\ requests \in Seq({}) /\ DOMAIN requests = {}
    BY DEF SessionInit, WorkloadInit
  <1>2. rng \in RngType
    BY DEF SessionInit, WorkloadInit, RngType
  <1> QED
    BY <1>1, <1>2 DEF SessionInit, WorkloadInit, BurstInv, GeneratorTypeOK,
                      BurstsApart

LEMMA GenerateBurstInv ==
  ASSUME BurstInv, Generate
  PROVE  BurstInv'
  <1>1. requests' = <<>> /\ requests' \in Seq({}) /\ DOMAIN requests' = {}
    BY DEF Generate
  <1>2. rng' \in RngType
    BY DEF Generate, NewRNG, RngType, BurstInv, GeneratorTypeOK
  <1>3. GeneratorTypeOK'
    BY <1>1, <1>2 DEF Generate, BurstInv, GeneratorTypeOK
  <1> QED
    BY <1>1, <1>3 DEF Generate, BurstInv, BurstsApart

(* What a turn with an arrival in it does.                                 *)
LEMMA ArrivalInBurst ==
  ASSUME BurstInv, cfg.type = "bursty", inBurst,
         cfg' = cfg, inBurst' = inBurst, periodStart' = periodStart,
         NEW time \in Nat, timeMs <= time, timeMs' = time,
         time - periodStart < BurstDur,
         NEW g \in RngType, MakeRequest(g, time)
  PROVE  BurstInv'
  <1> USE DEF BurstInv, GeneratorTypeOK
  <1>1. PICK r : requests' = Append(requests, r) /\ r.arrivalMs = time
    BY MakeRequestAppends
  <1>2. PICK S : requests \in Seq(S)
    OBVIOUS
  <1>3. /\ requests' \in Seq(S \cup {r})
        /\ Len(requests) \in Nat /\ DOMAIN requests = 1..Len(requests)
        /\ DOMAIN requests' = 1..(Len(requests) + 1)
        /\ \A i \in 1..Len(requests) : requests'[i] = requests[i]
        /\ requests'[Len(requests) + 1] = r
    BY <1>1, <1>2, AppendAny
  <1>4. GeneratorTypeOK'
    BY <1>3, MakeRequestAppends
  <1>5. /\ BurstDur \in Nat \ {0} /\ IdleDur \in Nat \ {0}
        /\ BurstDur' = BurstDur /\ IdleDur' = IdleDur
    BY PeriodLengths DEF BurstDur, IdleDur
  <1>6. ASSUME NEW i \in DOMAIN requests'
        PROVE  InPeriod(requests[i].arrivalMs)' 
    <2>1. CASE i \in DOMAIN requests
      <3>1. InPeriod(requests[i].arrivalMs) /\ requests'[i] = requests[i]
        BY <1>3, <2>1
      <3> QED
        BY <1>5, <3>1 DEF InPeriod
    <2>2. CASE i = Len(requests) + 1
      BY <1>1, <1>3, <1>5, <2>2 DEF InPeriod
    <2> QED
      BY <1>3, <2>1, <2>2
  <1>7. ASSUME NEW i \in DOMAIN requests', NEW j \in DOMAIN requests', i < j
        PROVE  LET apart == requests'[j].arrivalMs - requests'[i].arrivalMs
               IN apart < BurstDur \/ apart > IdleDur
    <2>1. CASE j \in DOMAIN requests
      <3>1. i \in DOMAIN requests /\ requests'[i] = requests[i]
            /\ requests'[j] = requests[j]
        BY <1>3, <1>7, <2>1
      <3> QED
        BY <1>7, <2>1, <3>1 DEF BurstsApart
    <2>2. CASE j = Len(requests) + 1
      <3>1. i \in DOMAIN requests /\ requests'[i] = requests[i]
            /\ requests'[j].arrivalMs = time
        BY <1>1, <1>3, <1>7, <2>2
      <3>2. InPeriod(requests[i].arrivalMs)
        BY <3>1
      <3> QED
        BY <1>5, <3>1, <3>2 DEF InPeriod
    <2> QED
      BY <1>3, <2>1, <2>2
  <1> QED
    BY <1>4, <1>5, <1>6, <1>7 DEF BurstsApart

LEMMA BurstTurnBurstInv ==
  ASSUME BurstInv, BurstTurn
  PROVE  BurstInv'
  <1> USE DEF BurstInv, GeneratorTypeOK
  <1>1. PICK gap \in Exponential(rng, cfg.peakRPS) :
          LET time == timeMs + gap.value IN
          \/ time >= cfg.durationMs /\ Finish(gap.rng)
          \/ /\ time < cfg.durationMs
             /\ timeMs' = time
             /\ IF time - periodStart >= BurstDur
                THEN /\ inBurst' = FALSE
                     /\ periodStart' = time
                     /\ EndBurst(gap.rng, time)
                ELSE /\ MakeRequest(gap.rng, time)
                     /\ UNCHANGED <<inBurst, periodStart>>
             /\ UNCHANGED <<cfg, phase>>
    BY DEF BurstTurn
  <1>2. cfg.type = "bursty" /\ inBurst
    BY DEF BurstTurn
  <1>3. cfg.peakRPS \in Int /\ cfg.durationMs \in Int
        /\ cfg.durationMs < MaxFloat64 /\ MaxFloat64 \in Nat
    BY WorkloadAssumption
  <1>4. gap.value \in Int /\ gap.rng \in RngType
        /\ (gap.value >= 1 \/ gap.value = MaxFloat64)
    BY <1>3, GapPositive
  <1> DEFINE time == timeMs + gap.value
  <1>5. CASE Finish(gap.rng)
    BY <1>4, <1>5 DEF Finish, BurstsApart, InPeriod, BurstDur, IdleDur
  <1>6. CASE /\ time < cfg.durationMs
             /\ timeMs' = time
             /\ UNCHANGED <<cfg, phase>>
             /\ time - periodStart >= BurstDur
             /\ inBurst' = FALSE
             /\ periodStart' = time
             /\ EndBurst(gap.rng, time)
    <2>1. time \in Nat /\ timeMs < time
      BY <1>3, <1>4, <1>6
    <2>2. GeneratorTypeOK' /\ requests' = requests
      BY <1>4, <1>6, <2>1 DEF EndBurst
    <2>3. ASSUME NEW i \in DOMAIN requests
          PROVE  InPeriod(requests[i].arrivalMs)'
      <3>1. InPeriod(requests[i].arrivalMs)
        BY <1>2
      <3> QED
        BY <1>6, <2>1, <2>2, <3>1 DEF InPeriod
    <2> QED
      BY <1>2, <1>6, <2>1, <2>2, <2>3 DEF BurstsApart, BurstDur, IdleDur
  <1>7. CASE /\ time < cfg.durationMs
             /\ timeMs' = time
             /\ UNCHANGED <<cfg, phase>>
             /\ ~(time - periodStart >= BurstDur)
             /\ MakeRequest(gap.rng, time)
             /\ UNCHANGED <<inBurst, periodStart>>
    <2>1. time \in Nat /\ timeMs <= time
      BY <1>3, <1>4, <1>7
    <2>2. time - periodStart < BurstDur
      BY <1>7, <2>1, PeriodLengths
    <2> QED
      BY <1>2, <1>4, <1>7, <2>1, <2>2, ArrivalInBurst
  <1> QED
    BY <1>1, <1>5, <1>6, <1>7

LEMMA IdleTurnBurstInv ==
  ASSUME BurstInv, IdleTurn
  PROVE  BurstInv'
  <1> USE DEF BurstInv, GeneratorTypeOK
  <1>1. /\ cfg.type = "bursty" /\ ~inBurst
        /\ timeMs' = periodStart + IdleDur /\ periodStart' = timeMs'
        /\ inBurst' = TRUE
        /\ cfg' = cfg /\ rng' = rng /\ requests' = requests
    BY DEF IdleTurn
  <1>2. /\ BurstDur \in Nat \ {0} /\ IdleDur \in Nat \ {0}
        /\ BurstDur' = BurstDur /\ IdleDur' = IdleDur
    BY <1>1, PeriodLengths DEF BurstDur, IdleDur
  <1>3. ASSUME NEW i \in DOMAIN requests
        PROVE  InPeriod(requests[i].arrivalMs)'
    <2>1. InPeriod(requests[i].arrivalMs)
      BY <1>1
    <2> QED
      BY <1>1, <1>2, <2>1 DEF InPeriod
  <1> QED
    BY <1>1, <1>2, <1>3 DEF BurstsApart

(* The other generators are not the one of bursts; they keep the types.    *)
LEMMA OtherTurnsBurstInv ==
  ASSUME BurstInv, PoissonTurn \/ TraceTurn
  PROVE  BurstInv'
  <1> USE DEF BurstInv, GeneratorTypeOK
  <1>1. cfg.type # "bursty" /\ cfg' = cfg
    BY DEF PoissonTurn, TraceTurn, Finish
  <1>2. PICK S : requests \in Seq(S)
    OBVIOUS
  <1>3. CASE PoissonTurn
    <2>1. PICK gap \in Exponential(rng, cfg.rps) :
            \/ Finish(gap.rng)
            \/ /\ timeMs + gap.value < cfg.durationMs
               /\ timeMs' = timeMs + gap.value
               /\ MakeRequest(gap.rng, timeMs + gap.value)
               /\ UNCHANGED <<cfg, phase, periodStart, inBurst>>
      BY <1>3 DEF PoissonTurn
    <2>2. gap.value \in Nat /\ gap.rng \in RngType
      <3>1. cfg.rps \in Int /\ MaxFloat64 \in Nat
        BY WorkloadAssumption
      <3>2. gap.value \in Int /\ gap.rng \in RngType
            /\ (gap.value >= 1 \/ gap.value = MaxFloat64)
        BY <3>1, GapPositive
      <3> QED
        BY <3>1, <3>2
    <2>3. CASE Finish(gap.rng)
      BY <1>1, <2>2, <2>3 DEF Finish, BurstsApart
    <2>4. CASE /\ timeMs' = timeMs + gap.value
               /\ MakeRequest(gap.rng, timeMs + gap.value)
               /\ UNCHANGED <<cfg, phase, periodStart, inBurst>>
      <3>1. PICK r : requests' = Append(requests, r)
        BY <2>2, <2>4, MakeRequestAppends
      <3>2. requests' \in Seq(S \cup {r}) /\ rng' \in RngType
        BY <1>2, <2>2, <2>4, <3>1, AppendAny, MakeRequestAppends
      <3> QED
        BY <1>1, <2>2, <2>4, <3>2 DEF BurstsApart
    <2> QED
      BY <2>1, <2>3, <2>4
  <1>4. CASE TraceTurn
    <2>1. \/ requests' = requests
          \/ requests' = <<>>
          \/ \E r : requests' = Append(requests, r)
      BY <1>4 DEF TraceTurn, ReadRow, RowError
    <2>2. \E T : requests' \in Seq(T)
      <3>1. CASE requests' = requests
        BY <1>2, <3>1
      <3>2. CASE requests' = <<>>
        <4>1. requests' \in Seq({})
          BY <3>2
        <4> QED
          BY <4>1
      <3>3. CASE \E r : requests' = Append(requests, r)
        <4>1. PICK r : requests' = Append(requests, r)
          BY <3>3
        <4>2. requests' \in Seq(S \cup {r})
          BY <1>2, <4>1, AppendAny
        <4> QED
          BY <4>2
      <3> QED
        BY <2>1, <3>1, <3>2, <3>3
    <2> QED
      BY <1>1, <1>4, <2>2 DEF TraceTurn, BurstsApart
  <1> QED
    BY <1>3, <1>4

LEMMA BurstInvariant == SessionSpec => []BurstInv
  <1>1. SessionInit => BurstInv
    BY BurstInit
  <1>2. BurstInv /\ [SessionNext]_sessionVars => BurstInv'
    <2> SUFFICES ASSUME BurstInv, [SessionNext]_sessionVars
                 PROVE  BurstInv'
      OBVIOUS
    <2>1. CASE UNCHANGED workloadVars
      BY <2>1 DEF workloadVars, BurstInv, GeneratorTypeOK, InPeriod,
                  BurstsApart, BurstDur, IdleDur
    <2>2. CASE Generate
      BY <2>2, GenerateBurstInv
    <2>3. CASE GeneratorTurn
      BY <2>3, BurstTurnBurstInv, IdleTurnBurstInv, OtherTurnsBurstInv
         DEF GeneratorTurn
    <2> QED
      BY <2>1, <2>2, <2>3, WorkloadSteps
  <1> QED
    BY <1>1, <1>2, PTL DEF SessionSpec

(* Two arrivals of a bursty workload lie within the duration of a burst,   *)
(* or more than an idle period apart, wherever its bursts are cut off:     *)
(* generateBursty drops the arrival that ends a burst and starts the idle  *)
(* period with it.                                                         *)
THEOREM BurstsStayApart == SessionSpec => []BurstsApart
  <1>1. BurstInv => BurstsApart
    BY DEF BurstInv
  <1> QED
    BY <1>1, BurstInvariant, PTL

-----------------------------------------------------------------------------
(* The policies still to be run are the last ones of the list.             *)
TodoOK ==
  /\ compare \in BOOLEAN
  /\ stage # "finished" => todo # <<>>
  /\ compare => /\ todo \in Seq(SchedulerNames)
                /\ Len(todo) <= Len(Policies)
                /\ \A n \in 1..Len(todo) :
                     todo[n] = Policies[Len(Policies) - Len(todo) + n]
  /\ ~compare => todo = <<>> \/ \E p : todo = <<p>>

DiskType == [Dirs -> [summary : FileStates, requests : FileStates]]

(* The rows are written only beside a summary of the same simulation.      *)
MixInv ==
  /\ TodoOK
  /\ disk \in DiskType
  /\ stage = "requests" => disk[Current].summary = "new"
  /\ NoSilentMix

LEMMA CurrentIsDir ==
  ASSUME TodoOK, stage # "finished"
  PROVE  Current \in Dirs
  <1>1. CASE compare
    <2>1. todo \in Seq(SchedulerNames) /\ todo # <<>>
      BY <1>1 DEF TodoOK
    <2>2. Head(todo) \in SchedulerNames
      BY <2>1, HeadTailProperties
    <2> QED
      BY <1>1, <2>2 DEF Current, DirOf, Dirs
  <1>2. CASE ~compare
    BY <1>2 DEF Current, DirOf, Dirs
  <1> QED
    BY <1>1, <1>2 DEF TodoOK

(* Going on to the next policy keeps the list, and counts the current one  *)
(* as exported.                                                            *)
LEMMA NextPolicyExported ==
  ASSUME TodoOK, stage # "finished", NextPolicy, compare' = compare
  PROVE  /\ TodoOK'
         /\ Exported' = Exported \cup {Current}
         /\ stage' # "requests"
  <1>1. todo # <<>> /\ todo' = Tail(todo)
        /\ (stage' # "finished" => todo' # <<>>) /\ stage' # "requests"
    BY DEF TodoOK, NextPolicy
  <1>2. CASE compare
    <2> DEFINE L == Len(Policies)
               T == Len(todo)
    <2>1. /\ todo \in Seq(SchedulerNames) /\ T \in Nat \ {0}
          /\ L \in Nat /\ T <= L
          /\ \A n \in 1..T : todo[n] = Policies[L - T + n]
      BY <1>1, <1>2, SessionAssumption, EmptySeq, LenProperties DEF TodoOK
    <2>2. /\ todo' \in Seq(SchedulerNames) /\ Len(todo') = T - 1
          /\ \A n \in 1..(T - 1) : todo'[n] = todo[n + 1]
      BY <1>1, <2>1, HeadTailProperties
    <2>3. \A n \in 1..(T - 1) : todo'[n] = Policies[L - (T - 1) + n]
      BY <2>1, <2>2
    <2>4. TodoOK'
      BY <1>1, <1>2, <2>1, <2>2, <2>3 DEF TodoOK
    <2>5. Current = Policies[L - T + 1]
      BY <1>2, <2>1 DEF Current, DirOf
    <2>6. /\ Exported = {Policies[n] : n \in 1..(L - T)}
          /\ Exported' = {Policies[n] : n \in 1..(L - (T - 1))}
      BY <1>2, <2>2 DEF Exported
    <2>7. 1..(L - (T - 1)) = 1..(L - T) \cup {L - T + 1}
      BY <2>1
    <2> QED
      BY <1>1, <2>4, <2>5, <2>6, <2>7
  <1>3. CASE ~compare
    <2>1. PICK p : todo = <<p>>
      BY <1>1, <1>3 DEF TodoOK
    <2>2. todo' = <<>>
      BY <1>1, <2>1
    <2>3. TodoOK'
      BY <1>1, <1>3, <2>2 DEF TodoOK
    <2>4. Exported = {} /\ Exported' = {OutDir} /\ Current = OutDir
      BY <1>1, <1>3, <2>2 DEF Exported, Current, DirOf
    <2> QED
      BY <1>1, <2>3, <2>4
  <1> QED
    BY <1>2, <1>3 DEF TodoOK

(* A reported error excuses the directory it is about.                     *)
LEMMA ExportErrorMix ==
  ASSUME MixInv, stage # "finished", ExportError, compare' = compare,
         disk' \in DiskType,
         \A d \in Dirs : d # Current => disk'[d] = disk[d]
  PROVE  MixInv'
  <1>1. /\ TodoOK'
        /\ Exported' \subseteq Exported \cup {Current}
        /\ stage' # "requests"
    <2>1. CASE compare
      BY <2>1, NextPolicyExported DEF ExportError, MixInv
    <2>2. CASE ~compare
      BY <2>2 DEF ExportError, MixInv, TodoOK, Exported
    <2> QED
      BY <2>1, <2>2
  <1>2. Exported \subseteq Dirs
    BY SessionAssumption DEF Exported, Dirs, MixInv, TodoOK
  <1>3. reported' = reported \cup {Current}
    BY DEF ExportError
  <1>4. NoSilentMix'
    BY <1>1, <1>2, <1>3 DEF MixInv, NoSilentMix
  <1> QED
    BY <1>1, <1>4 DEF MixInv

LEMMA MakeDirMix ==
  ASSUME MixInv, MakeDir
  PROVE  MixInv'
  <1>1. /\ stage = "mkdir" /\ compare' = compare /\ disk' = disk
        /\ \/ stage' = "summary" /\ UNCHANGED <<todo, reported>>
           \/ ExportError
    BY DEF MakeDir
  <1>2. CASE stage' = "summary" /\ UNCHANGED <<todo, reported>>
    BY <1>1, <1>2 DEF MixInv, TodoOK, NoSilentMix, Exported
  <1>3. CASE ExportError
    BY <1>1, <1>3, ExportErrorMix DEF MixInv
  <1> QED
    BY <1>1, <1>2, <1>3

LEMMA ExportSummaryMix ==
  ASSUME MixInv, ExportSummary
  PROVE  MixInv'
  <1>1. stage = "summary" /\ compare' = compare /\ Current \in Dirs
        /\ disk \in DiskType
    BY CurrentIsDir DEF ExportSummary, MixInv
  <1>2. CASE /\ disk' = [disk EXCEPT ![Current].summary = "new"]
             /\ stage' = "requests" /\ UNCHANGED <<todo, reported>>
    <2>1. /\ disk' \in DiskType
          /\ disk'[Current] = [disk[Current] EXCEPT !.summary = "new"]
          /\ \A d \in Dirs : d # Current => disk'[d] = disk[d]
      BY <1>1, <1>2 DEF DiskType, FileStates
    <2>2. Current' = Current /\ Exported' = Exported /\ TodoOK'
      BY <1>1, <1>2 DEF MixInv, TodoOK, Current, DirOf, Exported
    <2>3. Exported \subseteq Dirs
      BY SessionAssumption DEF Exported, Dirs, MixInv, TodoOK
    <2>4. disk'[Current].summary = "new"
          /\ disk'[Current].requests = disk[Current].requests
      BY <1>1, <2>1 DEF DiskType
    <2>5. NoSilentMix'
      BY <1>2, <2>1, <2>2, <2>3, <2>4 DEF MixInv, NoSilentMix
    <2> QED
      BY <1>2, <2>1, <2>2, <2>4, <2>5 DEF MixInv
  <1>3. CASE /\ \/ UNCHANGED disk
                \/ disk' = [disk EXCEPT ![Current].summary = "partial"]
             /\ ExportError
    <2>1. /\ disk' \in DiskType
          /\ \A d \in Dirs : d # Current => disk'[d] = disk[d]
      BY <1>1, <1>3 DEF DiskType, FileStates
    <2> QED
      BY <1>1, <1>3, <2>1, ExportErrorMix
  <1> QED
    BY <1>2, <1>3 DEF ExportSummary, SummaryWritten

LEMMA ExportRequestsMix ==
  ASSUME MixInv, ExportRequests
  PROVE  MixInv'
  <1>1. stage = "requests" /\ compare' = compare /\ Current \in Dirs
        /\ disk \in DiskType /\ disk[Current].summary = "new"
    BY CurrentIsDir DEF ExportRequests, MixInv
  <1>2. CASE /\ \E state \in {"new", "partial"} :
                  disk' = [disk EXCEPT ![Current].requests = state]
             /\ NextPolicy
             /\ UNCHANGED reported
    <2>1. PICK state \in {"new", "partial"} :
            disk' = [disk EXCEPT ![Current].requests = state]
      BY <1>2
    <2>2. /\ disk' \in DiskType
          /\ disk'[Current].summary = "new"
          /\ disk'[Current].requests \in {"new", "partial"}
          /\ \A d \in Dirs : d # Current => disk'[d] = disk[d]
      BY <1>1, <2>1 DEF DiskType, FileStates
    <2>3. TodoOK' /\ Exported' \subseteq Exported \cup {Current}
          /\ stage' # "requests"
      BY <1>1, <1>2, NextPolicyExported DEF MixInv
    <2>4. Exported \subseteq Dirs
      BY SessionAssumption DEF Exported, Dirs, MixInv, TodoOK
    <2>5. NoSilentMix'
      BY <1>2, <2>2, <2>3, <2>4 DEF MixInv, NoSilentMix
    <2> QED
      BY <2>2, <2>3, <2>5 DEF MixInv
  <1>3. CASE /\ \/ UNCHANGED disk
                \/ disk' = [disk EXCEPT ![Current].requests = "partial"]
             /\ ExportError
    <2>1. /\ disk' \in DiskType
          /\ \A d \in Dirs : d # Current => disk'[d] = disk[d]
      BY <1>1, <1>3 DEF DiskType, FileStates
    <2> QED
      BY <1>1, <1>3, <2>1, ExportErrorMix
  <1> QED
    BY <1>2, <1>3 DEF ExportRequests

(* The other steps leave files and policies alone.                         *)
LEMMA OtherStepsMix ==
  ASSUME MixInv, stage' # "requests" \/ UNCHANGED stage,
         stage = "finished" => stage' = "finished",
         UNCHANGED <<compare, todo, disk, reported>>
  PROVE  MixInv'
  BY DEF MixInv, TodoOK, NoSilentMix, Exported, Current, DirOf

LEMMA MixInvariant == SessionSpec => []MixInv
  <1>1. SessionInit => MixInv
    <2> SUFFICES ASSUME SessionInit
                 PROVE  MixInv
      OBVIOUS
    <2>1. compare \in BOOLEAN /\ stage = "load"
          /\ todo = IF compare THEN Policies ELSE <<cfg.scheduler>>
      BY DEF SessionInit
    <2>2. Policies \in Seq(SchedulerNames) /\ Policies # <<>>
          /\ Len(Policies) \in Nat
      BY SessionAssumption
    <2>3. TodoOK
      <3>1. CASE compare
        <4>1. todo = Policies /\ Len(todo) \in Nat
          BY <2>1, <2>2, <3>1
        <4>2. \A n \in 1..Len(todo) : Len(Policies) - Len(todo) + n = n
          BY <4>1
        <4>3. \A n \in 1..Len(todo) :
                todo[n] = Policies[Len(Policies) - Len(todo) + n]
          BY <4>1, <4>2
        <4> QED
          BY <2>1, <2>2, <3>1, <4>1, <4>3 DEF TodoOK
      <3>2. CASE ~compare
        BY <2>1, <3>2 DEF TodoOK
      <3> QED
        BY <2>1, <3>1, <3>2
    <2>4. disk \in DiskType
      BY DEF SessionInit, DiskType, FileStates
    <2>5. Exported = {}
      <3>1. CASE compare
        <4>1. Len(Policies) - Len(todo) = 0
          BY <2>1, <2>2, <3>1
        <4> QED
          BY <3>1, <4>1 DEF Exported
      <3>2. CASE ~compare
        BY <2>1, <3>2 DEF Exported
      <3> QED
        BY <2>1, <3>1, <3>2
    <2> QED
      BY <2>1, <2>3, <2>4, <2>5 DEF MixInv, NoSilentMix
  <1>2. MixInv /\ [SessionNext]_sessionVars => MixInv'
    <2> SUFFICES ASSUME MixInv, [SessionNext]_sessionVars
                 PROVE  MixInv'
      OBVIOUS
    <2>1. CASE UNCHANGED sessionVars
      BY <2>1, OtherStepsMix DEF sessionVars
    <2>2. CASE Load \/ StartSimulation \/ GenerateWorkload \/ Simulate
               \/ WorkloadError
      BY <2>2, OtherStepsMix
         DEF Load, StartSimulation, GenerateWorkload, Simulate, WorkloadError
    <2> QED
      BY <2>1, <2>2, MakeDirMix, ExportSummaryMix, ExportRequestsMix
         DEF SessionNext
  <1> QED
    BY <1>1, <1>2, PTL DEF SessionSpec

(* Unless an error is reported for it, a directory that was exported to    *)
(* holds the summary and the rows of one simulation: exportResults writes  *)
(* the rows only after the summary, and a comparison goes on to the next   *)
(* directory after an error.                                               *)
THEOREM ResultsBelongTogether == SessionSpec => []NoSilentMix
  <1>1. MixInv => NoSilentMix
    BY DEF MixInv
  <1> QED
    BY <1>1, MixInvariant, PTL

-----------------------------------------------------------------------------
(* Only the export of a generated workload changes the results, and only   *)
(* in the directory of the current policy.                                 *)
Touched(d) ==
  \/ d \in Exported
  \/ /\ stage \in {"summary", "requests", "fatal"}
     /\ phase = "done" /\ d = Current

RefusalInv ==
  /\ stage \notin {"load", "fatal"} => Valid(cfg)
  /\ stage \in {"mkdir", "summary", "requests"} => phase = "done"
  /\ phase = "failed" => stage \in {"generate", "fatal"}
  /\ cfg.type \in {"poisson", "bursty"} => phase # "failed"
  /\ cfg.type \notin {"poisson", "bursty", "trace"} =>
       phase \in {"idle", "failed"}
  /\ \A d \in Dirs : Untouched(d) \/ Touched(d)
  /\ ~Valid(cfg) \/ cfg.type \notin {"poisson", "bursty", "trace"} =>
       \A d \in Dirs : Untouched(d)

LEMMA GenerateRefusal ==
  ASSUME RefusalInv, StartSimulation
  PROVE  RefusalInv'
  <1>1. /\ cfg' = cfg /\ disk' = disk /\ Valid(cfg)
        /\ stage = "start" /\ stage' = "generate" /\ Exported' = Exported
    BY DEF RefusalInv, StartSimulation, Generate, Exported
  <1>2. \/ cfg.type \in {"poisson", "bursty", "trace"} /\ phase' = "running"
        \/ cfg.type \notin {"poisson", "bursty"} /\ phase' = "failed"
    BY DEF StartSimulation, Generate
  <1>3. \A d \in Dirs : Untouched(d)' \/ Touched(d)'
    BY <1>1 DEF RefusalInv, Touched, Untouched
  <1> QED
    BY <1>1, <1>2, <1>3 DEF RefusalInv, Untouched

LEMMA TurnRefusal ==
  ASSUME RefusalInv, GenerateWorkload
  PROVE  RefusalInv'
  <1>1. /\ cfg' = cfg /\ disk' = disk /\ stage' = stage
        /\ stage = "generate" /\ phase = "running" /\ Exported' = Exported
    BY DEF GenerateWorkload, GeneratorTurn, PoissonTurn, BurstTurn, IdleTurn,
           TraceTurn, Finish, Exported
  <1>2. /\ cfg.type \in {"poisson", "bursty", "trace"}
        /\ phase' = "failed" => cfg.type = "trace"
    BY <1>1 DEF GenerateWorkload, GeneratorTurn, PoissonTurn, BurstTurn,
                IdleTurn, TraceTurn, Finish
  <1>3. \A d \in Dirs : Untouched(d)' \/ Touched(d)'
    BY <1>1 DEF RefusalInv, Touched, Untouched
  <1> QED
    BY <1>1, <1>2, <1>3 DEF RefusalInv, Untouched

(* After the workload: only a valid configuration whose workload is done   *)
(* reaches the export.                                                     *)
LEMMA MainRefusal ==
  ASSUME RefusalInv, MixInv, UNCHANGED workloadVars,
         \/ Load \/ Simulate \/ WorkloadError
         \/ MakeDir \/ ExportSummary \/ ExportRequests
  PROVE  RefusalInv'
  <1>1. cfg' = cfg /\ phase' = phase /\ compare' = compare
    BY DEF workloadVars, Load, Simulate, WorkloadError, MakeDir,
           ExportSummary, ExportRequests
  <1>2. CASE Load \/ Simulate \/ WorkloadError
    <2>1. /\ disk' = disk /\ stage' \in {"start", "mkdir", "fatal"}
          /\ stage' # "fatal" => Valid(cfg)
          /\ stage' = "mkdir" => phase = "done"
          /\ phase = "failed" => stage' = "fatal"
          /\ stage \in {"load", "generate"}
          /\ Exported' = Exported
      BY <1>1, <1>2 DEF Load, Simulate, Generated, WorkloadError, RefusalInv,
                        Exported
    <2>2. \A d \in Dirs : Untouched(d)' \/ Touched(d)'
      BY <1>1, <2>1 DEF RefusalInv, Touched, Untouched
    <2> QED
      BY <1>1, <2>1, <2>2 DEF RefusalInv, Untouched
  <1>3. CASE MakeDir \/ ExportSummary \/ ExportRequests
    <2>1. /\ stage \in {"mkdir", "summary", "requests"}
          /\ Valid(cfg) /\ phase = "done" /\ cfg.type \in {"poisson", "bursty", "trace"}
          /\ TodoOK /\ disk \in DiskType
      BY <1>3 DEF MakeDir, ExportSummary, ExportRequests, RefusalInv, MixInv
    <2>2. \A d \in Dirs : d # Current => disk'[d] = disk[d]
      BY <1>3, <2>1 DEF MakeDir, ExportSummary, SummaryWritten,
                        ExportRequests, DiskType
    <2>3. \/ NextPolicy
          \/ /\ stage' \in {"summary", "requests", "fatal"}
             /\ UNCHANGED todo
      BY <1>3 DEF MakeDir, ExportSummary, ExportRequests, ExportError
    <2>4. /\ \/ Current \in Exported'
             \/ /\ stage' \in {"summary", "requests", "fatal"}
                /\ phase' = "done" /\ Current' = Current
          /\ Exported \subseteq Exported'
      <3>1. CASE NextPolicy
        BY <1>1, <2>1, <3>1, NextPolicyExported
      <3>2. CASE /\ stage' \in {"summary", "requests", "fatal"}
                 /\ UNCHANGED todo
        BY <1>1, <2>1, <3>2 DEF Exported, Current, DirOf
      <3> QED
        BY <2>3, <3>1, <3>2
    <2>5. ASSUME NEW d \in Dirs PROVE Untouched(d)' \/ Touched(d)'
      <3>1. CASE d = Current
        BY <2>4, <3>1 DEF Touched
      <3>2. CASE d # Current
        <4>1. disk'[d] = disk[d]
          BY <2>2, <3>2
        <4>2. Untouched(d) \/ d \in Exported
          BY <3>2 DEF RefusalInv, Touched
        <4>3. Untouched(d)' \/ d \in Exported'
          BY <2>4, <4>1, <4>2 DEF Untouched
        <4> QED
          BY <4>3 DEF Touched
      <3> QED
        BY <3>1, <3>2
    <2> QED
      BY <1>1, <2>1, <2>5 DEF RefusalInv
  <1> QED
    BY <1>2, <1>3

LEMMA RefusalInvariant == SessionSpec => []RefusalInv
  <1>1. SessionInit => RefusalInv
    BY DEF SessionInit, WorkloadInit, RefusalInv, Untouched
  <1>2. MixInv /\ RefusalInv /\ [SessionNext]_sessionVars => RefusalInv'
    <2> SUFFICES ASSUME MixInv, RefusalInv, [SessionNext]_sessionVars
                 PROVE  RefusalInv'
      OBVIOUS
    <2>1. CASE UNCHANGED sessionVars
      BY <2>1 DEF sessionVars, workloadVars, RefusalInv, Untouched, Touched,
                  Exported, Current, DirOf
    <2>2. CASE StartSimulation
      BY <2>2, GenerateRefusal
    <2>3. CASE GenerateWorkload
      BY <2>3, TurnRefusal
    <2>4. CASE Load \/ Simulate \/ WorkloadError
               \/ MakeDir \/ ExportSummary \/ ExportRequests
      <3>1. UNCHANGED workloadVars
        BY <2>4 DEF Load, Simulate, WorkloadError, MakeDir, ExportSummary,
                    ExportRequests
      <3> QED
        BY <2>4, <3>1, MainRefusal
    <2> QED
      BY <2>1, <2>2, <2>3, <2>4 DEF SessionNext
  <1> QED
    BY <1>1, <1>2, MixInvariant, PTL DEF SessionSpec

(* A configuration that Validate refuses leaves all results of earlier     *)
(* invocations alone.  A workload that is refused leaves those of its      *)
(* policy and of the later ones alone; and if it is not a trace, which     *)
(* each policy reads anew, all of them.                                    *)
THEOREM RefusalsLeaveResults == SessionSpec => []RefusedBeforeExport
  <1>1. RefusalInv => RefusedBeforeExport
    BY DEF RefusalInv, RefusedBeforeExport, Touched
  <1> QED
    BY <1>1, RefusalInvariant, PTL

-----------------------------------------------------------------------------
(* Where main is, and which directories it may report.                     *)
MainInv ==
  /\ phase \in {"idle", "running", "done", "failed"}
  /\ stage \in {"load", "start", "generate", "mkdir", "summary", "requests",
                "finished", "fatal"}
  /\ stage = "finished" => todo = <<>>
  /\ reported \subseteq Dirs
  /\ first = {} \/ \E f : first = {f}

LEMMA NextPolicyStage ==
  ASSUME NextPolicy
  PROVE  /\ stage' \in {"start", "finished"}
         /\ stage' = "finished" => todo' = <<>>
  BY DEF NextPolicy

LEMMA ExportErrorMain ==
  ASSUME TodoOK, MainInv, stage # "finished", ExportError
  PROVE  /\ stage' \in {"start", "finished", "fatal"}
         /\ stage' = "finished" => todo' = <<>>
         /\ reported' \subseteq Dirs
  <1>1. reported' = reported \cup {Current} /\ Current \in Dirs
    BY CurrentIsDir DEF ExportError
  <1>2. /\ stage' \in {"start", "finished", "fatal"}
        /\ stage' = "finished" => todo' = <<>>
    BY NextPolicyStage DEF ExportError
  <1> QED
    BY <1>1, <1>2 DEF MainInv

LEMMA StepMain ==
  ASSUME TodoOK, MainInv, [SessionNext]_sessionVars
  PROVE  MainInv'
  <1>1. CASE UNCHANGED sessionVars
    BY <1>1 DEF sessionVars, workloadVars, MainInv
  <1>2. CASE Load
    BY <1>2 DEF Load, workloadVars, MainInv
  <1>3. CASE StartSimulation
    BY <1>3 DEF StartSimulation, Generate, MainInv
  <1>4. CASE GenerateWorkload
    <2>1. phase' \in {phase, "running", "done", "failed"}
      BY <1>4 DEF GenerateWorkload, GeneratorTurn, PoissonTurn, BurstTurn,
                  IdleTurn, TraceTurn, ReadRow, RowError, Finish
    <2> QED
      BY <1>4, <2>1 DEF GenerateWorkload, MainInv
  <1>5. CASE Simulate \/ WorkloadError
    BY <1>5 DEF Simulate, WorkloadError, workloadVars, MainInv
  <1>6. CASE MakeDir \/ ExportSummary \/ ExportRequests
    <2>1. /\ stage \in {"mkdir", "summary", "requests"}
          /\ phase' = phase /\ first' = first
          /\ \/ ExportError
             \/ NextPolicy /\ UNCHANGED reported
             \/ stage' \in {"summary", "requests"} /\ UNCHANGED reported
      BY <1>6 DEF MakeDir, ExportSummary, ExportRequests, workloadVars
    <2>2. CASE ExportError
      BY <2>1, <2>2, ExportErrorMain DEF MainInv
    <2>3. CASE NextPolicy /\ UNCHANGED reported
      BY <2>1, <2>3, NextPolicyStage DEF MainInv
    <2> QED
      BY <2>1, <2>2, <2>3 DEF MainInv
  <1> QED
    BY <1>1, <1>2, <1>3, <1>4, <1>5, <1>6 DEF SessionNext

(* The state of an invocation keeps its types, and main is at its end when *)
(* no policy is left.                                                      *)
THEOREM SessionTypes == SessionSpec => []SessionTypeOK
  <1>1. SessionInit => MainInv
    BY DEF SessionInit, WorkloadInit, MainInv
  <1>2. MixInv /\ MainInv /\ [SessionNext]_sessionVars => MainInv'
    BY StepMain DEF MixInv
  <1>3. BurstInv /\ MixInv /\ MainInv => SessionTypeOK
    <2> SUFFICES ASSUME BurstInv, MixInv, MainInv
                 PROVE  SessionTypeOK
      OBVIOUS
    <2>1. /\ cfg \in Configs
          /\ rng.words \in Seq(Words) /\ rng.used \in 0..Len(rng.words)
          /\ timeMs \in Nat /\ periodStart \in Nat /\ inBurst \in BOOLEAN
      BY DEF BurstInv, GeneratorTypeOK, RngType
    <2>2. /\ compare \in BOOLEAN
          /\ todo = <<>> <=> stage = "finished"
          /\ disk \in [Dirs -> [summary : FileStates, requests : FileStates]]
      BY DEF MixInv, TodoOK, DiskType, MainInv
    <2>3. Cardinality(first) <= 1
      <3>1. CASE first = {}
        BY <3>1, FS_EmptySet
      <3>2. CASE \E f : first = {f}
        BY <3>2, FS_Singleton
      <3> QED
        BY <3>1, <3>2 DEF MainInv
    <2> QED
      BY <2>1, <2>2, <2>3 DEF SessionTypeOK, MainInv
  <1> QED
    BY <1>1, <1>2, <1>3, BurstInvariant, MixInvariant, PTL DEF SessionSpec

-----------------------------------------------------------------------------
(* A request as makeRequest makes them.                                    *)
Configured(r) ==
  /\ r.arrivalMs \in Nat /\ r.arrivalMs < cfg.durationMs
  /\ Allowed(cfg.contextTokens, r.contextTokens)
  /\ Allowed(cfg.outputTokens, r.outputTokens)
  /\ TierOf(r.tier)
  /\ r.sharesPrefix => cfg.prefixHitRate > 0

(* Time has not passed the next arrival of a Poisson workload; for a       *)
(* bursty one this follows from InPeriod.                                  *)
ConfigInv ==
  cfg.type # "trace" =>
    /\ \A i \in DOMAIN requests :
         /\ Configured(requests[i])
         /\ cfg.type = "poisson" => requests[i].arrivalMs <= timeMs
    /\ \A i, j \in DOMAIN requests :
         i < j => requests[i].arrivalMs <= requests[j].arrivalMs

LEMMA IntAtAllowed ==
  ASSUME NEW range, range.min \in Int, range.max \in Int,
         NEW w \in Seq(Words), NEW k \in Nat, k + IntWords(range) <= Len(w)
  PROVE  Allowed(range, IntAt(w, k, range))
  <1>1. CASE range.min >= range.max
    BY <1>1 DEF Allowed, IntAt
  <1>2. CASE ~(range.min >= range.max)
    <2> DEFINE n == range.max - range.min + 1
               m == w[k + 1] % n
    <2>1. n \in Nat \ {0} /\ k + 1 \in 1..Len(w)
      BY <1>2 DEF IntWords
    <2>2. w[k + 1] \in Nat
      <3>1. w[k + 1] \in Words
        BY <2>1
      <3> QED
        BY <3>1, WorkloadAssumption DEF Words
    <2>3. m \in 0..(n - 1)
      <3> DEFINE u == w[k + 1]
      <3> HIDE DEF n, u
      <3>1. u % n \in 0..(n - 1)
        BY <2>1, <2>2, Remainder DEF u
      <3> QED
        BY <3>1 DEF u
    <2>4. IntAt(w, k, range) = range.min + m
      BY <1>2 DEF IntAt
    <2> HIDE DEF m
    <2> QED
      BY <1>2, <2>3, <2>4 DEF Allowed
  <1> QED
    BY <1>1, <1>2

LEMMA MakeRequestConfigured ==
  ASSUME cfg \in Configs, Valid(cfg), NEW g \in RngType,
         NEW time \in Nat, time < cfg.durationMs, MakeRequest(g, time)
  PROVE  \E r : requests' = Append(requests, r) /\ r.arrivalMs = time
                /\ Configured(r)
  <1>1. PICK r :
           /\ requests' = Append(requests, r)
           /\ r.arrivalMs = time
           /\ TierOf(r.tier)
           /\ Later(rng', g, RequestWords(cfg))
           /\ \A w \in Seq(Words) : Extends(w, rng'.words) =>
                ButTier(r) = RequestAt(cfg, w, g.used, time)
    BY MakeRequestAt
  <1> DEFINE w == rng'.words
             k == g.used
             nc == IntWords(cfg.contextTokens)
             no == IntWords(cfg.outputTokens)
             np == PrefixWords(cfg.prefixHitRate)
  <1>2. /\ w \in Seq(Words) /\ k \in Nat /\ Len(w) \in Nat
        /\ nc \in Nat /\ no \in Nat /\ np \in Nat
        /\ k + (nc + no + 1 + np) <= Len(w)
    BY <1>1 DEF Later, RngType, RequestWords, IntWords, PrefixWords
  <1>3. ButTier(r) = RequestAt(cfg, w, k, time)
    <2>1. Extends(w, w)
      BY <1>2 DEF Extends
    <2> QED
      BY <1>1, <1>2, <2>1, Zenon
  <1> HIDE DEF w, k
  <1> DEFINE context == IntAt(w, k, cfg.contextTokens)
             output == IntAt(w, k + nc, cfg.outputTokens)
             shares == PrefixAt(w, k + nc + no + 1, cfg.prefixHitRate)
  <1>5. /\ r.contextTokens = context
        /\ r.outputTokens = output
        /\ r.sharesPrefix = shares
    BY <1>3, RequestFields
  <1>6. /\ cfg.contextTokens.min \in Int /\ cfg.contextTokens.max \in Int
        /\ cfg.outputTokens.min \in Int /\ cfg.outputTokens.max \in Int
        /\ cfg.prefixHitRate \in Int
    BY WorkloadAssumption
  <1>7. Allowed(cfg.contextTokens, r.contextTokens)
    <2>1. k + nc <= Len(w)
      BY <1>2
    <2>2. Allowed(cfg.contextTokens, context)
      BY <1>2, <1>6, <2>1, IntAtAllowed
    <2> HIDE DEF context
    <2> QED
      BY <1>5, <2>2
  <1>8. Allowed(cfg.outputTokens, r.outputTokens)
    <2>1. k + nc \in Nat /\ k + nc + no <= Len(w)
      BY <1>2
    <2> HIDE DEF nc
    <2>2. Allowed(cfg.outputTokens, output)
      BY <1>2, <1>6, <2>1, IntAtAllowed
    <2> HIDE DEF output
    <2> QED
      BY <1>5, <2>2
  <1>9. r.sharesPrefix => cfg.prefixHitRate > 0
    <2>1. shares => cfg.prefixHitRate > 0
      BY <1>6 DEF PrefixAt
    <2> HIDE DEF shares
    <2> QED
      BY <1>5, <2>1, Zenon
  <1> QED
    BY <1>1, <1>7, <1>8, <1>9 DEF Configured

(* A turn with an arrival in it.                                           *)
LEMMA ArrivalConfigured ==
  ASSUME ConfigInv, GeneratorTypeOK, Valid(cfg), cfg.type # "trace",
         cfg' = cfg, NEW time \in Nat, time < cfg.durationMs, timeMs' = time,
         \A i \in DOMAIN requests : requests[i].arrivalMs <= time,
         NEW g \in RngType, MakeRequest(g, time)
  PROVE  ConfigInv'
  <1>1. PICK r : requests' = Append(requests, r) /\ r.arrivalMs = time
                 /\ Configured(r)
    BY MakeRequestConfigured DEF GeneratorTypeOK
  <1>2. PICK S : requests \in Seq(S)
    BY DEF GeneratorTypeOK
  <1>3. /\ Len(requests) \in Nat /\ DOMAIN requests = 1..Len(requests)
        /\ DOMAIN requests' = 1..(Len(requests) + 1)
        /\ \A i \in 1..Len(requests) : requests'[i] = requests[i]
        /\ requests'[Len(requests) + 1] = r
    BY <1>1, <1>2, AppendAny
  <1>4. /\ \A i \in DOMAIN requests : Configured(requests[i])
        /\ \A i, j \in DOMAIN requests :
             i < j => requests[i].arrivalMs <= requests[j].arrivalMs
    BY DEF ConfigInv
  <1>5. \A i \in DOMAIN requests' :
          Configured(requests'[i]) /\ requests'[i].arrivalMs <= time
    BY <1>1, <1>3, <1>4
  <1>6. \A i, j \in DOMAIN requests' :
          i < j => requests'[i].arrivalMs <= requests'[j].arrivalMs
    BY <1>1, <1>3, <1>4, <1>5
  <1>7. \A i \in DOMAIN requests' : Configured(requests[i])'
    BY <1>5 DEF Configured, TierOf
  <1> QED
    BY <1>5, <1>6, <1>7 DEF ConfigInv

(* A turn without one.                                                     *)
LEMMA NoArrivalConfigured ==
  ASSUME ConfigInv, cfg' = cfg, requests' = requests,
         timeMs' = timeMs \/ cfg.type # "poisson"
  PROVE  ConfigInv'
  BY DEF ConfigInv, Configured, TierOf

LEMMA TurnConfigured ==
  ASSUME ConfigInv, BurstInv, Valid(cfg), GeneratorTurn
  PROVE  ConfigInv'
  <1> USE DEF BurstInv, GeneratorTypeOK
  <1>1. CASE PoissonTurn
    <2>1. PICK gap \in Exponential(rng, cfg.rps) :
            \/ Finish(gap.rng)
            \/ /\ timeMs + gap.value < cfg.durationMs
               /\ timeMs' = timeMs + gap.value
               /\ MakeRequest(gap.rng, timeMs + gap.value)
               /\ UNCHANGED <<cfg, phase, periodStart, inBurst>>
      BY <1>1 DEF PoissonTurn
    <2>2. cfg.rps \in Int /\ MaxFloat64 \in Nat /\ cfg.type = "poisson"
      BY <1>1, WorkloadAssumption DEF PoissonTurn
    <2>3. gap.value \in Nat /\ gap.rng \in RngType
      BY <2>2, GapPositive
    <2>4. CASE Finish(gap.rng)
      BY <2>4, NoArrivalConfigured DEF Finish
    <2>5. CASE /\ timeMs + gap.value < cfg.durationMs
               /\ timeMs' = timeMs + gap.value
               /\ MakeRequest(gap.rng, timeMs + gap.value)
               /\ UNCHANGED <<cfg, phase, periodStart, inBurst>>
      <3> DEFINE time == timeMs + gap.value
      <3>1. time \in Nat /\ timeMs <= time
        BY <2>3
      <3>2. \A i \in DOMAIN requests : requests[i].arrivalMs <= time
        BY <2>2, <3>1 DEF ConfigInv, Configured
      <3>3. /\ time < cfg.durationMs /\ timeMs' = time /\ cfg' = cfg
            /\ MakeRequest(gap.rng, time) /\ cfg.type # "trace"
        BY <2>2, <2>5
      <3> HIDE DEF time
      <3> QED
        BY <2>3, <3>1, <3>2, <3>3, ArrivalConfigured
    <2> QED
      BY <2>1, <2>4, <2>5
  <1>2. CASE BurstTurn
    <2>1. PICK gap \in Exponential(rng, cfg.peakRPS) :
            \/ Finish(gap.rng)
            \/ /\ timeMs' = timeMs + gap.value
               /\ cfg' = cfg
               /\ EndBurst(gap.rng, timeMs + gap.value)
            \/ /\ timeMs + gap.value < cfg.durationMs
               /\ timeMs' = timeMs + gap.value
               /\ MakeRequest(gap.rng, timeMs + gap.value)
               /\ cfg' = cfg
      BY <1>2 DEF BurstTurn
    <2>2. cfg.peakRPS \in Int /\ MaxFloat64 \in Nat /\ cfg.type = "bursty"
      BY <1>2, WorkloadAssumption DEF BurstTurn
    <2>3. gap.value \in Nat /\ gap.rng \in RngType
      BY <2>2, GapPositive
    <2>4. CASE Finish(gap.rng)
      BY <2>4, NoArrivalConfigured DEF Finish
    <2>5. CASE cfg' = cfg /\ EndBurst(gap.rng, timeMs + gap.value)
      BY <2>2, <2>5, NoArrivalConfigured DEF EndBurst
    <2>6. CASE /\ timeMs + gap.value < cfg.durationMs
               /\ timeMs' = timeMs + gap.value
               /\ MakeRequest(gap.rng, timeMs + gap.value)
               /\ cfg' = cfg
      <3> DEFINE time == timeMs + gap.value
      <3>1. time \in Nat /\ timeMs <= time
        BY <2>3
      <3>2. \A i \in DOMAIN requests : requests[i].arrivalMs <= time
        BY <2>2, <3>1 DEF InPeriod
      <3>3. /\ time < cfg.durationMs /\ timeMs' = time /\ cfg' = cfg
            /\ MakeRequest(gap.rng, time) /\ cfg.type # "trace"
        BY <2>2, <2>6
      <3> HIDE DEF time
      <3> QED
        BY <2>3, <3>1, <3>2, <3>3, ArrivalConfigured
    <2> QED
      BY <2>1, <2>4, <2>5, <2>6
  <1>3. CASE IdleTurn
    BY <1>3, NoArrivalConfigured DEF IdleTurn
  <1>4. CASE TraceTurn
    BY <1>4 DEF TraceTurn, ConfigInv
  <1> QED
    BY <1>1, <1>2, <1>3, <1>4 DEF GeneratorTurn

(* What is generated is what the simulation is written for: the arrivals   *)
(* are in order and before the end of the duration, and the tokens, tier   *)
(* and prefix of each are ones that the configuration allows.              *)
THEOREM GeneratedAsConfigured == SessionSpec => []WithinConfiguration
  <1>1. SessionInit => ConfigInv
    BY DEF SessionInit, WorkloadInit, ConfigInv
  <1>2. BurstInv /\ RefusalInv /\ ConfigInv /\ [SessionNext]_sessionVars
        => ConfigInv'
    <2> SUFFICES ASSUME BurstInv, RefusalInv, ConfigInv,
                        [SessionNext]_sessionVars
                 PROVE  ConfigInv'
      OBVIOUS
    <2>1. CASE UNCHANGED workloadVars
      BY <2>1, NoArrivalConfigured DEF workloadVars
    <2>2. CASE Generate
      BY <2>2 DEF Generate, ConfigInv
    <2>3. CASE GenerateWorkload
      <3>1. Valid(cfg) /\ GeneratorTurn
        BY <2>3 DEF GenerateWorkload, RefusalInv
      <3> QED
        BY <3>1, TurnConfigured
    <2>4. \/ UNCHANGED workloadVars \/ Generate \/ GenerateWorkload
      BY DEF SessionNext, sessionVars, Load, StartSimulation, Simulate,
             WorkloadError, MakeDir, ExportSummary, ExportRequests
    <2> QED
      BY <2>1, <2>2, <2>3, <2>4
  <1>3. BurstInv /\ ConfigInv => WithinConfiguration
    BY WorkloadAssumption
       DEF BurstInv, GeneratorTypeOK, ConfigInv, Configured, TierOf,
           WithinConfiguration
  <1> QED
    BY <1>1, <1>2, <1>3, BurstInvariant, RefusalInvariant, PTL
       DEF SessionSpec

-----------------------------------------------------------------------------
(* The tiers are drawn by walking a map, in any order.  All else that the  *)
(* generator keeps, a snapshot of it, is determined by the words: After is *)
(* what a turn makes of a snapshot.                                        *)
Plain(s) == [i \in DOMAIN s |-> ButTier(s[i])]

Snap(k, status, plain, time, start, burst) ==
  [used |-> k, phase |-> status, plain |-> plain,
   timeMs |-> time, periodStart |-> start, inBurst |-> burst]

Snapshot ==
  Snap(rng.used, phase, Plain(requests), timeMs, periodStart, inBurst)

StartSnapshot == Snap(0, "running", <<>>, 0, 0, TRUE)

AfterDone(a, k) ==
  Snap(k, "done", a.plain, a.timeMs, a.periodStart, a.inBurst)

AfterArrival(c, w, a, k, time) ==
  Snap(k + RequestWords(c), a.phase,
       Append(a.plain, RequestAt(c, w, k, time)),
       time, a.periodStart, a.inBurst)

AfterBurst(a, k, time) == Snap(k, a.phase, a.plain, time, time, FALSE)

BurstOf(c) == IF c.burstDurationMs <= 0 THEN DefaultBurst
              ELSE c.burstDurationMs
IdleOf(c) == IF c.idleDurationMs <= 0 THEN DefaultIdle
             ELSE c.idleDurationMs

AfterIdle(c, a) ==
  LET time == a.periodStart + IdleOf(c)
  IN Snap(a.used, IF time < c.durationMs THEN "running" ELSE "done",
          a.plain, time, time, TRUE)

AfterTrace(c, a) ==
  LET next == Len(a.plain) + 1
      rows == CHOOSE t \in c.traces : TRUE
  IN IF next > Len(rows) THEN AfterDone(a, a.used)
     ELSE Snap(a.used, a.phase, Append(a.plain, ButTier(rows[next])),
               a.timeMs, a.periodStart, a.inBurst)

AfterGap(c, w, a, rate) ==
  LET k == a.used + GapWords(rate)
      time == a.timeMs + GapAt(w, a.used, rate)
  IN IF time >= c.durationMs THEN AfterDone(a, k)
     ELSE IF c.type = "bursty" /\ time - a.periodStart >= BurstOf(c)
     THEN AfterBurst(a, k, time)
     ELSE AfterArrival(c, w, a, k, time)

After(c, w, a) ==
  IF c.type = "trace" THEN AfterTrace(c, a)
  ELSE IF c.type = "poisson" THEN AfterGap(c, w, a, c.rps)
  ELSE IF a.inBurst THEN AfterGap(c, w, a, c.peakRPS)
  ELSE AfterIdle(c, a)

LEMMA SnapFields ==
  ASSUME NEW k, NEW status, NEW plain, NEW time, NEW start, NEW burst,
         NEW a, a = Snap(k, status, plain, time, start, burst)
  PROVE  /\ a.used = k /\ a.phase = status /\ a.plain = plain
         /\ a.timeMs = time /\ a.periodStart = start /\ a.inBurst = burst
  BY DEF Snap

LEMMA SnapshotFields ==
  /\ Snapshot.used = rng.used /\ Snapshot.phase = phase
  /\ Snapshot.plain = Plain(requests) /\ Snapshot.timeMs = timeMs
  /\ Snapshot.periodStart = periodStart /\ Snapshot.inBurst = inBurst
  BY SnapFields DEF Snapshot

LEMMA PlainAppend ==
  ASSUME NEW S, NEW s \in Seq(S), NEW r
  PROVE  /\ Plain(Append(s, r)) = Append(Plain(s), ButTier(r))
         /\ Len(Plain(s)) = Len(s)
  <1> DEFINE P == {ButTier(s[i]) : i \in DOMAIN s}
             b == ButTier(r)
             p == Plain(s)
             n == Len(s)
             t == Append(s, r)
  <1>1. n \in Nat /\ DOMAIN s = 1..n
    OBVIOUS
  <1>2. p = [i \in 1..n |-> ButTier(s[i])]
    BY <1>1 DEF Plain
  <1>3. p \in Seq(P) /\ Len(p) = n /\ \A i \in 1..n : p[i] = ButTier(s[i])
    <2>1. p \in [1..n -> P]
      BY <1>1, <1>2
    <2> HIDE DEF p, P, n
    <2>2. p \in Seq(P) /\ Len(p) = n
      BY <1>1, <2>1
    <2> QED
      BY <1>2, <2>2
  <1>4. /\ DOMAIN t = 1..(n + 1)
        /\ \A i \in 1..n : t[i] = s[i]
        /\ t[n + 1] = r
    BY AppendAny
  <1> HIDE DEF p, P, n, t, b
  <1> DEFINE u == Append(p, b)
  <1>5. /\ u \in Seq(P \cup {b}) /\ DOMAIN u = 1..(n + 1)
        /\ \A i \in 1..n : u[i] = p[i]
        /\ u[n + 1] = b
    BY <1>3, AppendAny
  <1> DEFINE v == Plain(t)
  <1>6. v = [i \in 1..(n + 1) |-> ButTier(t[i])]
    BY <1>4 DEF Plain
  <1> HIDE DEF u, v
  <1>7. \A i \in 1..(n + 1) : v[i] = u[i]
    <2> SUFFICES ASSUME NEW i \in 1..(n + 1)
                 PROVE  v[i] = u[i]
      OBVIOUS
    <2>1. v[i] = ButTier(t[i])
      BY <1>6
    <2>2. CASE i \in 1..n
      BY <1>3, <1>4, <1>5, <2>1, <2>2
    <2>3. CASE i = n + 1
      BY <1>4, <1>5, <2>1, <2>3 DEF b
    <2> QED
      BY <1>1, <2>2, <2>3
  <1>8. u = [i \in 1..(n + 1) |-> u[i]]
    BY <1>5
  <1>9. v = u
    BY <1>6, <1>7, <1>8
  <1> QED
    BY <1>3, <1>9 DEF u, v, p, b, t, n

(* A gap, and the three things that may come of it.                        *)
LEMMA GapSnapshot ==
  ASSUME GeneratorTypeOK, NEW rate \in Int, NEW gap \in Exponential(rng, rate),
         NEW time, time = timeMs + gap.value
  PROVE  LET k == gap.rng.used IN
         /\ time \in Int /\ cfg.durationMs \in Int
         /\ gap.rng \in RngType /\ Extends(gap.rng.words, rng.words)
         /\ \A w \in Seq(Words) : Extends(w, gap.rng.words) =>
              AfterGap(cfg, w, Snapshot, rate)
              = IF time >= cfg.durationMs THEN AfterDone(Snapshot, k)
                ELSE IF cfg.type = "bursty" /\ time - periodStart >= BurstDur
                THEN AfterBurst(Snapshot, k, time)
                ELSE AfterArrival(cfg, w, Snapshot, k, time)
  <1>1. /\ rng \in RngType /\ timeMs \in Nat /\ cfg \in Configs
        /\ gap.value \in Int /\ gap.rng \in RngType
        /\ Later(gap.rng, rng, GapWords(rate))
        /\ \A w \in Seq(Words) :
             Extends(w, gap.rng.words) => gap.value = GapAt(w, rng.used, rate)
    BY GapPositive DEF GeneratorTypeOK
  <1>2. /\ time \in Int /\ cfg.durationMs \in Int
        /\ gap.rng.used = rng.used + GapWords(rate)
        /\ Extends(gap.rng.words, rng.words)
    BY <1>1, WorkloadAssumption DEF Later
  <1>3. BurstDur = BurstOf(cfg)
    BY DEF BurstDur, BurstOf
  <1> QED
    BY <1>1, <1>2, <1>3, SnapshotFields DEF AfterGap

LEMMA GapDone ==
  ASSUME GeneratorTypeOK, NEW rate \in Int, NEW gap \in Exponential(rng, rate),
         NEW time, time = timeMs + gap.value,
         time >= cfg.durationMs, Finish(gap.rng)
  PROVE  /\ rng' \in RngType /\ Extends(rng'.words, rng.words)
         /\ \A w \in Seq(Words) : Extends(w, rng'.words) =>
              Snapshot' = AfterGap(cfg, w, Snapshot, rate)
  <1>1. Snapshot' = AfterDone(Snapshot, gap.rng.used)
    BY SnapshotFields DEF Finish, Snapshot, AfterDone
  <1> QED
    BY <1>1, GapSnapshot DEF Finish

LEMMA GapEndsBurst ==
  ASSUME GeneratorTypeOK, NEW rate \in Int, NEW gap \in Exponential(rng, rate),
         NEW time, time = timeMs + gap.value,
         time < cfg.durationMs, cfg.type = "bursty",
         time - periodStart >= BurstDur,
         timeMs' = time, inBurst' = FALSE, periodStart' = time,
         UNCHANGED <<cfg, phase>>, rng' = gap.rng, requests' = requests
  PROVE  /\ rng' \in RngType /\ Extends(rng'.words, rng.words)
         /\ \A w \in Seq(Words) : Extends(w, rng'.words) =>
              Snapshot' = AfterGap(cfg, w, Snapshot, rate)
  <1>1. Snapshot' = AfterBurst(Snapshot, gap.rng.used, time)
    BY SnapshotFields DEF Snapshot, AfterBurst
  <1>2. ~(time >= cfg.durationMs)
    BY GapSnapshot
  <1> QED
    BY <1>1, <1>2, GapSnapshot

LEMMA GapArrives ==
  ASSUME GeneratorTypeOK, NEW rate \in Int, NEW gap \in Exponential(rng, rate),
         NEW time, time = timeMs + gap.value,
         time < cfg.durationMs,
         cfg.type = "bursty" => ~(time - periodStart >= BurstDur),
         timeMs' = time, MakeRequest(gap.rng, time),
         UNCHANGED <<cfg, phase, inBurst, periodStart>>
  PROVE  /\ rng' \in RngType /\ Extends(rng'.words, rng.words)
         /\ \A w \in Seq(Words) : Extends(w, rng'.words) =>
              Snapshot' = AfterGap(cfg, w, Snapshot, rate)
  <1> DEFINE k == gap.rng.used
  <1>1. /\ time \in Int /\ cfg.durationMs \in Int
        /\ gap.rng \in RngType /\ Extends(gap.rng.words, rng.words)
        /\ cfg \in Configs
    BY GapSnapshot DEF GeneratorTypeOK
  <1>2. PICK r :
           /\ requests' = Append(requests, r)
           /\ Later(rng', gap.rng, RequestWords(cfg))
           /\ \A w \in Seq(Words) : Extends(w, rng'.words) =>
                ButTier(r) = RequestAt(cfg, w, k, time)
    BY <1>1, MakeRequestAt
  <1>3. PICK S : requests \in Seq(S)
    BY DEF GeneratorTypeOK
  <1>4. Plain(requests') = Append(Plain(requests), ButTier(r))
    BY <1>2, <1>3, PlainAppend
  <1>5. /\ rng' \in RngType /\ rng'.used = k + RequestWords(cfg)
        /\ Extends(rng'.words, gap.rng.words)
    BY <1>2 DEF Later
  <1>6. /\ rng'.words \in Seq(Words) /\ gap.rng.words \in Seq(Words)
        /\ rng.words \in Seq(Words)
    BY <1>1, <1>5, LaterNone DEF GeneratorTypeOK
  <1>7. ASSUME NEW w \in Seq(Words), Extends(w, rng'.words)
        PROVE  Snapshot' = AfterGap(cfg, w, Snapshot, rate)
    <2>1. Extends(w, gap.rng.words)
      BY <1>5, <1>6, <1>7, ExtendsTransitive
    <2>2. Snapshot' = AfterArrival(cfg, w, Snapshot, k, time)
      BY <1>2, <1>4, <1>5, <1>7, SnapshotFields DEF Snapshot, AfterArrival
    <2>3. AfterGap(cfg, w, Snapshot, rate)
          = AfterArrival(cfg, w, Snapshot, k, time)
      <3>1. ~(time >= cfg.durationMs)
        BY <1>1
      <3> QED
        BY <2>1, <3>1, GapSnapshot
    <2> QED
      BY <2>2, <2>3
  <1>8. Extends(rng'.words, rng.words)
    BY <1>1, <1>5, <1>6, ExtendsTransitive
  <1> QED
    BY <1>5, <1>7, <1>8

(* The words that are there stay, and those after the turn determine what  *)
(* it makes of the snapshot.                                               *)
Determined ==
  /\ rng' \in RngType /\ Extends(rng'.words, rng.words)
  /\ \A w \in Seq(Words) :
       Extends(w, rng'.words) => Snapshot' = After(cfg, w, Snapshot)

LEMMA PoissonDetermined ==
  ASSUME GeneratorTypeOK, PoissonTurn
  PROVE  Determined
  <1>1. PICK gap \in Exponential(rng, cfg.rps) :
          \/ timeMs + gap.value >= cfg.durationMs /\ Finish(gap.rng)
          \/ /\ timeMs + gap.value < cfg.durationMs
             /\ timeMs' = timeMs + gap.value
             /\ MakeRequest(gap.rng, timeMs + gap.value)
             /\ UNCHANGED <<cfg, phase, periodStart, inBurst>>
    BY DEF PoissonTurn
  <1>2. cfg.rps \in Int /\ cfg.type = "poisson"
    BY WorkloadAssumption DEF PoissonTurn, GeneratorTypeOK
  <1>3. \A w : After(cfg, w, Snapshot) = AfterGap(cfg, w, Snapshot, cfg.rps)
    BY <1>2 DEF After
  <1>4. CASE timeMs + gap.value >= cfg.durationMs /\ Finish(gap.rng)
    <2>1. /\ rng' \in RngType /\ Extends(rng'.words, rng.words)
          /\ \A w \in Seq(Words) : Extends(w, rng'.words) =>
               Snapshot' = AfterGap(cfg, w, Snapshot, cfg.rps)
      BY <1>2, <1>4, GapDone
    <2> QED
      BY <1>3, <2>1 DEF Determined
  <1>5. CASE /\ timeMs + gap.value < cfg.durationMs
             /\ timeMs' = timeMs + gap.value
             /\ MakeRequest(gap.rng, timeMs + gap.value)
             /\ UNCHANGED <<cfg, phase, periodStart, inBurst>>
    <2>1. cfg.type # "bursty"
      BY <1>2
    <2>2. /\ rng' \in RngType /\ Extends(rng'.words, rng.words)
          /\ \A w \in Seq(Words) : Extends(w, rng'.words) =>
               Snapshot' = AfterGap(cfg, w, Snapshot, cfg.rps)
      BY <1>2, <1>5, <2>1, GapArrives
    <2> QED
      BY <1>3, <2>2 DEF Determined
  <1> QED
    BY <1>1, <1>4, <1>5

LEMMA BurstDetermined ==
  ASSUME GeneratorTypeOK, BurstTurn
  PROVE  Determined
  <1>1. PICK gap \in Exponential(rng, cfg.peakRPS) :
          LET time == timeMs + gap.value IN
          \/ time >= cfg.durationMs /\ Finish(gap.rng)
          \/ /\ time < cfg.durationMs
             /\ timeMs' = time
             /\ IF time - periodStart >= BurstDur
                THEN /\ inBurst' = FALSE
                     /\ periodStart' = time
                     /\ EndBurst(gap.rng, time)
                ELSE /\ MakeRequest(gap.rng, time)
                     /\ UNCHANGED <<inBurst, periodStart>>
             /\ UNCHANGED <<cfg, phase>>
    BY DEF BurstTurn
  <1>2. cfg.peakRPS \in Int /\ cfg.type = "bursty" /\ inBurst
    BY WorkloadAssumption DEF BurstTurn, GeneratorTypeOK
  <1>3. \A w : After(cfg, w, Snapshot)
               = AfterGap(cfg, w, Snapshot, cfg.peakRPS)
    BY <1>2, SnapshotFields DEF After
  <1>4. PICK time : time = timeMs + gap.value
    OBVIOUS
  <1>5. SUFFICES /\ rng' \in RngType /\ Extends(rng'.words, rng.words)
                 /\ \A w \in Seq(Words) : Extends(w, rng'.words) =>
                      Snapshot' = AfterGap(cfg, w, Snapshot, cfg.peakRPS)
    BY <1>3 DEF Determined
  <1>6. CASE time >= cfg.durationMs /\ Finish(gap.rng)
    BY <1>2, <1>4, <1>6, GapDone
  <1>7. CASE /\ time < cfg.durationMs
             /\ timeMs' = time
             /\ time - periodStart >= BurstDur
             /\ inBurst' = FALSE
             /\ periodStart' = time
             /\ EndBurst(gap.rng, time)
             /\ UNCHANGED <<cfg, phase>>
    BY <1>2, <1>4, <1>7, GapEndsBurst DEF EndBurst
  <1>8. CASE /\ time < cfg.durationMs
             /\ timeMs' = time
             /\ ~(time - periodStart >= BurstDur)
             /\ MakeRequest(gap.rng, time)
             /\ UNCHANGED <<inBurst, periodStart>>
             /\ UNCHANGED <<cfg, phase>>
    BY <1>2, <1>4, <1>8, GapArrives
  <1> QED
    BY <1>1, <1>4, <1>6, <1>7, <1>8

LEMMA IdleDetermined ==
  ASSUME GeneratorTypeOK, IdleTurn
  PROVE  Determined
  <1> DEFINE time == periodStart + IdleDur
  <1>1. /\ cfg.type = "bursty" /\ ~inBurst
        /\ timeMs' = time /\ periodStart' = time /\ inBurst' = TRUE
        /\ phase' = IF time < cfg.durationMs THEN "running" ELSE "done"
        /\ rng' = rng /\ requests' = requests
    BY DEF IdleTurn
  <1>2. IdleDur = IdleOf(cfg)
    BY DEF IdleDur, IdleOf
  <1>3. \A w : After(cfg, w, Snapshot) = AfterIdle(cfg, Snapshot)
    BY <1>1, SnapshotFields DEF After
  <1>4. Snapshot' = AfterIdle(cfg, Snapshot)
    BY <1>1, <1>2, SnapshotFields DEF AfterIdle, Snapshot
  <1>5. rng' \in RngType /\ Extends(rng'.words, rng.words)
    BY <1>1, LaterNone DEF GeneratorTypeOK, Later
  <1> QED
    BY <1>3, <1>4, <1>5 DEF Determined

LEMMA TraceDetermined ==
  ASSUME GeneratorTypeOK, Unedited, TraceTurn, phase' # "failed"
  PROVE  Determined
  <1> DEFINE next == Len(requests) + 1
  <1>1. PICK S : requests \in Seq(S)
    BY DEF GeneratorTypeOK
  <1>2. cfg.type = "trace" /\ cfg \in Configs /\ Len(requests) \in Nat
    BY <1>1 DEF TraceTurn, GeneratorTypeOK
  <1>3. PICK rows \in cfg.traces :
          \/ /\ next <= Len(rows) /\ phase' = phase
             /\ requests' = Append(requests, rows[next])
          \/ /\ Len(requests) = Len(rows) /\ phase' = "done"
             /\ requests' = requests
    <2>1. ReadRow
      BY DEF TraceTurn, RowError
    <2>2. PICK rows \in cfg.traces :
            \/ /\ Len(requests) < Len(rows) /\ phase' = phase
               /\ requests' = Append(requests, rows[next])
            \/ /\ Len(requests) = Len(rows) /\ phase' = "done"
               /\ requests' = requests
      BY <2>1 DEF ReadRow
    <2>3. Len(rows) \in Nat
      BY <1>2, WorkloadAssumption
    <2> QED
      BY <1>2, <2>2, <2>3
  <1>4. rows = CHOOSE t \in cfg.traces : TRUE
    BY <1>2, <1>3 DEF Unedited
  <1>5. Len(rows) \in Nat
    BY <1>2, WorkloadAssumption
  <1>6. Len(Snapshot.plain) + 1 = next
    BY <1>1, PlainAppend, SnapshotFields
  <1>7. \A w : After(cfg, w, Snapshot) = AfterTrace(cfg, Snapshot)
    BY <1>2 DEF After
  <1>8. rng' \in RngType /\ Extends(rng'.words, rng.words) /\ rng' = rng
        /\ UNCHANGED <<timeMs, periodStart, inBurst>>
    BY LaterNone DEF TraceTurn, GeneratorTypeOK, Later
  <1>9. CASE /\ Len(requests) = Len(rows) /\ phase' = "done"
             /\ requests' = requests
    <2>1. AfterTrace(cfg, Snapshot) = AfterDone(Snapshot, Snapshot.used)
      BY <1>4, <1>5, <1>6, <1>9 DEF AfterTrace
    <2>2. Snapshot' = AfterDone(Snapshot, Snapshot.used)
      BY <1>8, <1>9, SnapshotFields DEF AfterDone, Snapshot
    <2> QED
      BY <1>7, <1>8, <2>1, <2>2 DEF Determined
  <1>10. CASE /\ next <= Len(rows) /\ phase' = phase
              /\ requests' = Append(requests, rows[next])
    <2>1. Plain(requests') = Append(Plain(requests), ButTier(rows[next]))
      BY <1>1, <1>10, PlainAppend
    <2>2. AfterTrace(cfg, Snapshot)
          = Snap(rng.used, phase, Append(Plain(requests), ButTier(rows[next])),
                 timeMs, periodStart, inBurst)
      BY <1>2, <1>4, <1>5, <1>6, <1>10, SnapshotFields DEF AfterTrace
    <2>3. Snapshot' = AfterTrace(cfg, Snapshot)
      BY <1>8, <1>10, <2>1, <2>2 DEF Snapshot
    <2> QED
      BY <1>7, <1>8, <2>3 DEF Determined
  <1> QED
    BY <1>3, <1>9, <1>10

LEMMA TurnDetermined ==
  ASSUME GeneratorTypeOK, Unedited, GeneratorTurn, phase' # "failed"
  PROVE  Determined
  BY PoissonDetermined, BurstDetermined, IdleDetermined, TraceDetermined
     DEF GeneratorTurn

-----------------------------------------------------------------------------
(* T[1] to T[n] are the snapshots of one generation, as the words so far   *)
(* determine them.                                                         *)
Path(c, words, T, n) ==
  /\ T[1] = StartSnapshot
  /\ \A i \in 1..(n - 1) :
       /\ T[i].phase = "running"
       /\ \A w \in Seq(Words) :
            Extends(w, words) => T[i + 1] = After(c, w, T[i])

(* They are those of the first generation; each later one goes the same    *)
(* way.                                                                    *)
Replays(T, n) ==
  /\ Path(cfg, rng.words, T, n)
  /\ phase \in {"running", "done"} =>
       \E k \in 1..n : T[k] = Snapshot /\ (first = {} => k = n)
  /\ \A f \in first : T[n].phase = "done" /\ T[n].plain = Plain(f)

FirstOnce ==
  /\ first = {} \/ \E f : first = {f}
  /\ \A f \in first : \E S : f \in Seq(S)

Replayed == \E n \in Nat \ {0} : \E T : Replays(T, n)

ReplayInv == FirstOnce /\ (Unedited => Replayed)

LEMMA PathExtends ==
  ASSUME NEW c, NEW v \in Seq(Words), NEW u \in Seq(Words), Extends(v, u),
         NEW T, NEW n \in Nat \ {0}, Path(c, u, T, n)
  PROVE  Path(c, v, T, n)
  BY ExtendsTransitive DEF Path

LEMMA StartPath ==
  ASSUME NEW c, NEW words
  PROVE  Path(c, words, [i \in 1..1 |-> StartSnapshot], 1)
  BY DEF Path

LEMMA StartReplay ==
  ASSUME Replayed, GeneratorTypeOK, Generate, first' = first
  PROVE  Replayed'
  <1>1. /\ rng'.words = rng.words /\ rng'.used = 0
        /\ requests' = <<>> /\ timeMs' = 0 /\ periodStart' = 0
        /\ inBurst' = TRUE /\ phase' \in {"running", "failed"} /\ cfg' = cfg
    BY DEF Generate, NewRNG, GeneratorTypeOK, RngType
  <1>2. phase' = "running" => Snapshot' = StartSnapshot
    <2>1. Plain(requests') = <<>>
      BY <1>1 DEF Plain
    <2> QED
      BY <1>1, <2>1 DEF Snapshot, StartSnapshot
  <1>3. CASE first = {}
    <2> DEFINE T == [i \in 1..1 |-> StartSnapshot]
    <2>1. Path(cfg, rng.words, T, 1) /\ T[1] = StartSnapshot
      BY StartPath
    <2> HIDE DEF T
    <2>2. Replays(T, 1)'
      BY <1>1, <1>2, <1>3, <2>1 DEF Replays
    <2> QED
      BY <1>3, <2>2 DEF Replayed
  <1>4. CASE first # {}
    <2>1. PICK n \in Nat \ {0} : \E T : Replays(T, n)
      BY DEF Replayed
    <2>2. PICK T : Replays(T, n)
      BY <2>1
    <2>3. T[1] = StartSnapshot /\ 1 \in 1..n
      BY <2>2 DEF Replays, Path
    <2>4. Replays(T, n)'
      BY <1>1, <1>2, <1>4, <2>2, <2>3 DEF Replays
    <2> QED
      BY <1>4, <2>4 DEF Replayed
  <1> QED
    BY <1>3, <1>4

(* A turn of the first generation makes the path longer, a turn of a later *)
(* one goes along it.                                                      *)
LEMMA TurnReplay ==
  ASSUME Replayed, Unedited, GeneratorTypeOK, GeneratorTurn, first' = first
  PROVE  Replayed'
  <1>1. PICK n \in Nat \ {0} : \E T : Replays(T, n)
    BY DEF Replayed
  <1>2. PICK T : Replays(T, n)
    BY <1>1
  <1>3. phase = "running" /\ cfg' = cfg
    BY DEF GeneratorTurn, PoissonTurn, BurstTurn, IdleTurn, TraceTurn, Finish
  <1>4. PICK k \in 1..n : T[k] = Snapshot /\ (first = {} => k = n)
    BY <1>2, <1>3 DEF Replays
  <1>5. T[k].phase = "running"
    BY <1>3, <1>4, SnapshotFields
  <1>6. CASE phase' = "failed"
    <2>1. rng' = rng
      <3>1. TraceTurn
        BY <1>3, <1>6 DEF GeneratorTurn, PoissonTurn, BurstTurn, IdleTurn,
                          Finish
      <3> QED
        BY <3>1 DEF TraceTurn
    <2>2. Replays(T, n)'
      BY <1>2, <1>3, <1>6, <2>1 DEF Replays
    <2> QED
      BY <2>2 DEF Replayed
  <1>7. CASE phase' # "failed"
    <2>1. /\ rng' \in RngType /\ Extends(rng'.words, rng.words)
          /\ \A w \in Seq(Words) :
               Extends(w, rng'.words) => Snapshot' = After(cfg, w, T[k])
      BY <1>4, <1>7, TurnDetermined DEF Determined
    <2>2. rng'.words \in Seq(Words) /\ rng.words \in Seq(Words)
          /\ Extends(rng'.words, rng'.words)
      BY <2>1, LaterNone DEF GeneratorTypeOK, Later
    <2>3. Path(cfg, rng'.words, T, n)
      BY <1>2, <2>1, <2>2, PathExtends DEF Replays
    <2>4. CASE first = {}
      <3>0. PICK U :
              U = [i \in 1..(n + 1) |-> IF i <= n THEN T[i] ELSE Snapshot']
        OBVIOUS
      <3>1. /\ \A i \in 1..n : U[i] = T[i]
            /\ U[n + 1] = Snapshot' /\ n + 1 \in Nat \ {0}
            /\ (n + 1) - 1 = n /\ n + 1 \in 1..(n + 1) /\ 1 \in 1..n
            /\ \A i \in 1..n : i \in 1..(n - 1) \/ i = n
            /\ \A i \in 1..(n - 1) : i + 1 \in 1..n /\ i \in 1..n
            /\ k = n
        BY <1>4, <2>4, <3>0
      <3>2. ASSUME NEW i \in 1..n
            PROVE  /\ U[i].phase = "running"
                   /\ \A w \in Seq(Words) : Extends(w, rng'.words) =>
                        U[i + 1] = After(cfg, w, U[i])
        <4>1. CASE i \in 1..(n - 1)
          BY <2>3, <3>1, <4>1 DEF Path
        <4>2. CASE i = n
          BY <1>5, <2>1, <3>1, <4>2
        <4> QED
          BY <3>1, <4>1, <4>2
      <3>3. Path(cfg, rng'.words, U, n + 1)
        BY <2>3, <3>1, <3>2 DEF Path
      <3>4. Replays(U, n + 1)'
        <4>1. U[n + 1] = Snapshot' /\ n + 1 \in 1..(n + 1)
          BY <3>1
        <4>2. \E i \in 1..(n + 1) : U[i] = Snapshot' /\ i = n + 1
          BY <4>1
        <4>3. Path(cfg', rng'.words, U, n + 1) /\ first' = {}
          BY <1>3, <2>4, <3>3
        <4> QED
          BY <4>2, <4>3 DEF Replays
      <3> QED
        BY <2>4, <3>1, <3>4 DEF Replayed
    <2>5. CASE first # {}
      <3>1. PICK f \in first : T[n].phase = "done"
        BY <1>2, <2>5 DEF Replays
      <3>2. k \in 1..(n - 1) /\ k + 1 \in 1..n
        BY <1>4, <1>5, <3>1
      <3>3. T[k + 1] = After(cfg, rng'.words, T[k])
        BY <2>2, <2>3, <3>2 DEF Path
      <3>4. T[k + 1] = Snapshot'
        BY <2>1, <2>2, <3>3
      <3>5. Replays(T, n)'
        BY <1>2, <1>3, <2>3, <2>5, <3>2, <3>4 DEF Replays
      <3> QED
        BY <2>5, <3>5 DEF Replayed
    <2> QED
      BY <2>4, <2>5
  <1> QED
    BY <1>6, <1>7

(* A finished generation is at the end of the path.                        *)
LEMMA DoneAtEnd ==
  ASSUME NEW n \in Nat \ {0}, NEW T, Replays(T, n), phase = "done"
  PROVE  T[n].phase = "done" /\ T[n].plain = Plain(requests)
  <1>1. PICK k \in 1..n : T[k] = Snapshot
    BY DEF Replays
  <1>2. T[k].phase = "done" /\ T[k].plain = Plain(requests)
    BY <1>1, SnapshotFields
  <1>3. k \in 1..(n - 1) => T[k].phase = "running"
    BY DEF Replays, Path
  <1>4. k = n
    BY <1>2, <1>3
  <1> QED
    BY <1>2, <1>4

LEMMA SimulateReplay ==
  ASSUME Replayed, Simulate
  PROVE  Replayed'
  <1>1. /\ phase = "done" /\ cfg' = cfg /\ rng' = rng /\ phase' = phase
        /\ Snapshot' = Snapshot
        /\ first' = IF first = {} THEN {requests} ELSE first
    BY DEF Simulate, Generated, workloadVars, Snapshot
  <1>2. PICK n \in Nat \ {0} : \E T : Replays(T, n)
    BY DEF Replayed
  <1>3. PICK T : Replays(T, n)
    BY <1>2
  <1>4. T[n].phase = "done" /\ T[n].plain = Plain(requests)
    BY <1>1, <1>3, DoneAtEnd
  <1>5. Replays(T, n)'
    <2>1. Path(cfg', rng'.words, T, n)
      BY <1>1, <1>3 DEF Replays
    <2>2. \E k \in 1..n : T[k] = Snapshot' /\ (first' = {} => k = n)
      BY <1>1, <1>3 DEF Replays
    <2>3. \A f \in first' : T[n].phase = "done" /\ T[n].plain = Plain(f)
      BY <1>1, <1>3, <1>4 DEF Replays
    <2> QED
      BY <2>1, <2>2, <2>3 DEF Replays
  <1> QED
    BY <1>5 DEF Replayed

LEMMA ReplayInvariant == SessionSpec => []ReplayInv
  <1>1. SessionInit => ReplayInv
    <2> SUFFICES ASSUME SessionInit
                 PROVE  ReplayInv
      OBVIOUS
    <2> DEFINE T == [i \in 1..1 |-> StartSnapshot]
    <2>1. Path(cfg, rng.words, T, 1)
      BY StartPath
    <2> HIDE DEF T
    <2>2. Replays(T, 1)
      BY <2>1 DEF SessionInit, WorkloadInit, Replays
    <2> QED
      BY <2>2 DEF SessionInit, ReplayInv, FirstOnce, Replayed
  <1>2. BurstInv /\ ReplayInv /\ [SessionNext]_sessionVars => ReplayInv'
    <2> SUFFICES ASSUME GeneratorTypeOK, ReplayInv, [SessionNext]_sessionVars
                 PROVE  ReplayInv'
      BY DEF BurstInv
    <2>1. \/ UNCHANGED workloadVars /\ first' = first
          \/ StartSimulation \/ GenerateWorkload \/ Simulate
      BY DEF SessionNext, sessionVars, Load, WorkloadError, MakeDir,
             ExportSummary, ExportRequests
    <2>2. cfg' = cfg /\ (Unedited' => Unedited)
      <3>1. cfg' = cfg
        BY <2>1 DEF workloadVars, StartSimulation, Generate, GenerateWorkload,
                    GeneratorTurn, PoissonTurn, BurstTurn, IdleTurn,
                    TraceTurn, Finish, Simulate
      <3> QED
        BY <3>1 DEF Unedited
    <2>3. FirstOnce'
      <3>1. \/ first' = first
            \/ first' = IF first = {} THEN {requests} ELSE first
        BY <2>1 DEF StartSimulation, GenerateWorkload, Simulate
      <3> QED
        BY <3>1 DEF ReplayInv, FirstOnce, GeneratorTypeOK
    <2>4. ASSUME Unedited PROVE Replayed'
      <3>1. Replayed
        BY <2>4 DEF ReplayInv
      <3>2. CASE UNCHANGED workloadVars /\ first' = first
        BY <3>1, <3>2 DEF workloadVars, Replayed, Replays, Snapshot
      <3>3. CASE StartSimulation
        BY <3>1, <3>3, StartReplay DEF StartSimulation
      <3>4. CASE GenerateWorkload
        BY <2>4, <3>1, <3>4, TurnReplay DEF GenerateWorkload
      <3>5. CASE Simulate
        BY <3>1, <3>5, SimulateReplay
      <3> QED
        BY <2>1, <3>2, <3>3, <3>4, <3>5
    <2> QED
      BY <2>2, <2>3, <2>4 DEF ReplayInv
  <1> QED
    BY <1>1, <1>2, BurstInvariant, PTL DEF SessionSpec

(* All policies are compared on the same arrivals: each generation starts  *)
(* from the same seed, and all it makes of the words but the tiers is      *)
(* determined by them; a trace has the same rows as long as nobody edits   *)
(* its file.                                                               *)
THEOREM SameArrivals == SessionSpec => []SameButTiers
  <1>1. BurstInv /\ ReplayInv => SameButTiers
    <2> SUFFICES ASSUME GeneratorTypeOK, ReplayInv, Unedited,
                        phase = "done", NEW f \in first
                 PROVE  /\ Len(f) = Len(requests)
                        /\ \A i \in DOMAIN f :
                             ButTier(f[i]) = ButTier(requests[i])
      BY DEF SameButTiers, BurstInv
    <2>1. PICK n \in Nat \ {0} : \E T : Replays(T, n)
      BY DEF ReplayInv, Replayed
    <2>2. PICK T : Replays(T, n)
      BY <2>1
    <2>3. T[n].plain = Plain(f) /\ T[n].plain = Plain(requests)
      BY <2>2, DoneAtEnd DEF Replays
    <2>4. PICK S : requests \in Seq(S)
      BY DEF GeneratorTypeOK
    <2>5. PICK R : f \in Seq(R)
      BY DEF ReplayInv, FirstOnce
    <2>6. Len(Plain(f)) = Len(f) /\ Len(Plain(requests)) = Len(requests)
      BY <2>4, <2>5, PlainAppend
    <2>7. Len(f) = Len(requests)
      BY <2>3, <2>6
    <2>8. DOMAIN f = DOMAIN requests
      BY <2>4, <2>5, <2>7
    <2>9. /\ \A i \in DOMAIN f : Plain(f)[i] = ButTier(f[i])
          /\ \A i \in DOMAIN requests :
               Plain(requests)[i] = ButTier(requests[i])
      BY DEF Plain
    <2> QED
      BY <2>3, <2>7, <2>8, <2>9
  <1> QED
    BY <1>1, BurstInvariant, ReplayInvariant, PTL
=============================================================================
