---------------------------- MODULE TimedProofs ----------------------------
(***************************************************************************)
(* The clock, the timestamps and the busy times of a run, and the metrics  *)
(* that are made of them.  What is said of the order of times needs a      *)
(* workload whose prefixes do not make a step shorter than nothing.        *)
(***************************************************************************)
EXTENDS Metrics, EngineProofs

(* What TimingModel.StepMs gives for a batch.                              *)
StepTime(tm, b, gen, mat) ==
  LET tokens == TokenSum(ToSet(b), TotalTokens(gen)) - TokenSum(ToSet(b), mat)
  IN Scaled(tm.baseMs) + tm.perTokenMs * (tokens * (TimeScale \div Len(b)))
       + Scaled(tm.perBatchMs * Len(b))

LEMMA NextStepTime ==
  ASSUME NEW w \in Workers
  PROVE  StepMs(w)' = StepTime(timing', batch'[w], generated', matched')
  BY DEF StepMs, BatchAvgSeqLen, StepTime

LEMMA NatProduct == \A m, n \in Nat : m * n \in Nat
  OBVIOUS

LEMMA NatQuotient == \A m \in Nat, n \in Nat \ {0} : m \div n \in Nat
  OBVIOUS

LEMMA ProductType == \A m, n \in Int : m * n \in Int
  OBVIOUS

LEMMA StepTimeType ==
  ASSUME NEW tm \in TimingChoice, NEW b \in Seq(Requests), b # <<>>,
         NEW gen \in [Requests -> Nat], NEW mat \in [Requests -> Nat]
  PROVE  /\ StepTime(tm, b, gen, mat) \in Int
         /\ Scaled(tm.baseMs) \in Nat
         /\ tm.baseMs > 0 => Scaled(tm.baseMs) > 0
         /\ (\A r \in Requests : mat[r] <= ContextTokens[r])
              => StepTime(tm, b, gen, mat) >= Scaled(tm.baseMs)
  <1> DEFINE B == ToSet(b)
             total == TokenSum(B, TotalTokens(gen))
             hit == TokenSum(B, mat)
             share == TimeScale \div Len(b)
             avg == (total - hit) * share
             n == Len(b)
  <1>1. /\ tm.baseMs \in Nat /\ tm.perTokenMs \in Nat /\ tm.perBatchMs \in Nat
        /\ TimeScale \in Nat \ {0}
    BY TimedAssumption
  <1>2. B \in SUBSET Requests
    BY MembersOf
  <1>3. n \in Nat \ {0}
    OBVIOUS
  <1>4. TotalTokens(gen) \in [Requests -> Nat]
    BY ModelAssumption DEF TotalTokens
  <1> HIDE DEF B
  <1>5. total \in Nat /\ hit \in Nat
    BY <1>2, <1>4, SumOfRequests
  <1>6. ASSUME \A r \in Requests : mat[r] <= ContextTokens[r]
        PROVE  hit <= total
    <2>1. \A r \in Requests : TotalTokens(gen)[r] = ContextTokens[r] + gen[r]
      BY DEF TotalTokens
    <2>2. \A r \in B : /\ mat[r] \in Nat /\ TotalTokens(gen)[r] \in Nat
                       /\ mat[r] <= TotalTokens(gen)[r]
      BY <1>2, <1>4, <1>6, <2>1, ModelAssumption
    <2>3. IsFiniteSet(B)
      BY <1>2, SumOfRequests, <1>4
    <2> QED
      BY <2>2, <2>3, SumMonotone
  <1> HIDE DEF n
  <1>7. share \in Nat
    BY <1>1, <1>3, NatQuotient DEF n
  <1> HIDE DEF share, total, hit
  <1>8. /\ avg \in Int
        /\ hit <= total => avg \in Nat
    <2>1. total - hit \in Int /\ (hit <= total => total - hit \in Nat)
      BY <1>5
    <2> HIDE DEF avg
    <2> QED
      BY <1>7, <2>1, NatProduct, ProductType DEF avg
  <1>9. StepTime(tm, b, gen, mat)
          = Scaled(tm.baseMs) + tm.perTokenMs * avg + Scaled(tm.perBatchMs * n)
    BY DEF StepTime, total, hit, share, B, n
  <1> HIDE DEF avg
  <1>10. /\ Scaled(tm.baseMs) \in Nat
         /\ Scaled(tm.perBatchMs * n) \in Nat
    BY <1>1, <1>3, NatProduct DEF Scaled
  <1>11. /\ tm.perTokenMs * avg \in Int
         /\ avg \in Nat => tm.perTokenMs * avg \in Nat
    BY <1>1, <1>8, NatProduct, ProductType
  <1>12. tm.baseMs > 0 => Scaled(tm.baseMs) > 0
    BY <1>1 DEF Scaled
  <1> QED
    BY <1>6, <1>8, <1>9, <1>10, <1>11, <1>12

-----------------------------------------------------------------------------
(* The clock leaves the handlers what they are.                            *)
LEMMA TimedSteps ==
  [TimedNext]_allVars =>
    \/ \E r \in Requests : Arrival(r) /\ TimedArrival(r)
    \/ \E w \in Workers : TokenStepDone(w) /\ TimedStep(w)
    \/ PeriodicSample /\ UNCHANGED vars
    \/ UNCHANGED allVars
  BY DEF TimedNext, TimedArrival, TimedStep, PeriodicSample

LEMMA UntimedSteps == [TimedNext]_allVars => [Next]_vars
  BY TimedSteps DEF Next, allVars

(* Firing the events by their times is one of the orders that Engine       *)
(* allows: what is proved of its behaviours holds of a timed run, under    *)
(* every timing model.                                                     *)
THEOREM TimedImplementsEngine == TimedSpec => Spec
  <1>1. TimedInit => Init
    BY DEF TimedInit
  <1> QED
    BY <1>1, UntimedSteps, PTL DEF TimedSpec, Spec

LEMMA NextBothTimed ==
  ASSUME TypeOK, P!Inv, [TimedNext]_allVars
  PROVE  TypeOK' /\ P!Inv'
  BY UntimedSteps, NextBoth

LEMMA WorkersFinite == IsFiniteSet(Workers)
  <1>1. WorkerOrder \in Seq(Workers) /\ ToSet(WorkerOrder) = Workers
        /\ IsInjective(WorkerOrder)
    BY EngineAssumption
  <1> QED
    BY <1>1, InjectiveLength

LEMMA FewTimes ==
  ASSUME NEW S, NEW x, S = {x} \/ S = {}
  PROVE  Cardinality(S) <= 1
  <1>1. Cardinality({x}) = 1 /\ Cardinality({}) = 0
    BY FS_Singleton, FS_EmptySet
  <1> QED
    BY <1>1

LEMMA SampleAtType ==
  ASSUME NEW time \in Nat
  PROVE  NextSample(time) \subseteq Nat /\ Cardinality(NextSample(time)) <= 1
  <1> DEFINE next == time + Scaled(SampleIntervalMs)
  <1>1. Scaled(SampleIntervalMs) \in Nat
    BY TimedAssumption, NatProduct DEF Scaled
  <1>2. NextSample(time) = {next} \/ NextSample(time) = {}
    BY DEF NextSample
  <1>3. next \in Nat
    BY <1>1
  <1> HIDE DEF next
  <1> QED
    BY <1>2, <1>3, FewTimes

LEMMA InitTimedTypes == TimedInit => TimedTypeOK
  <1> SUFFICES ASSUME TimedInit PROVE TimedTypeOK
    OBVIOUS
  <1>1. Scaled(SampleIntervalMs) \in Nat
    BY TimedAssumption, NatProduct DEF Scaled
  <1>2. sampleAt \subseteq Nat /\ Cardinality(sampleAt) <= 1
    <2>1. sampleAt = {Scaled(SampleIntervalMs)} \/ sampleAt = {}
      BY DEF TimedInit
    <2> QED
      BY <1>1, <2>1, FewTimes
  <1> QED
    BY <1>2 DEF TimedInit, TimedTypeOK

(* What scheduleTokenStep does for the workers of W: the end of a step and *)
(* the time that it is charged for differ by the same amount from what     *)
(* they were, by no less than the base time unless a prefix is longer than *)
(* the context of a request that matched it.                               *)
MatchedWithin == \A r \in Requests : matched[r] <= ContextTokens[r]

Lasts(w, d) ==
  /\ stepAt'[w] = clock' + d
  /\ busyTimeMs'[w] = busyTimeMs[w] + d
  /\ MatchedWithin' => d >= Scaled(timing.baseMs)

Charged(W) ==
  /\ stepAt' \in [Workers -> Int] /\ busyTimeMs' \in [Workers -> Int]
  /\ \A w \in Workers \ W : /\ stepAt'[w] = stepAt[w]
                            /\ busyTimeMs'[w] = busyTimeMs[w]
  /\ \A w \in W : \E d \in Int : Lasts(w, d)

LEMMA StepsCharged ==
  ASSUME TypeOK', TimedTypeOK, clock' \in Int, timing' = timing,
         NEW W \in SUBSET Workers, \A w \in W : batch'[w] # <<>>,
         ScheduleTokenStep(W)
  PROVE  Charged(W)
  <1> DEFINE d(w) == StepTime(timing, batch'[w], generated', matched')
  <1>1. ASSUME NEW w \in W
        PROVE  /\ StepMs(w)' = d(w) /\ d(w) \in Int
               /\ MatchedWithin' => d(w) >= Scaled(timing.baseMs)
    <2>1. /\ batch'[w] \in Seq(Requests) /\ batch'[w] # <<>>
          /\ generated' \in [Requests -> Nat] /\ matched' \in [Requests -> Nat]
          /\ timing \in TimingChoice
      BY DEF TypeOK, TimedTypeOK
    <2>2. StepMs(w)' = d(w)
      BY NextStepTime
    <2>3. /\ d(w) \in Int
          /\ (\A r \in Requests : matched'[r] <= ContextTokens[r])
               => d(w) >= Scaled(timing.baseMs)
      BY <2>1, StepTimeType
    <2> QED
      BY <2>2, <2>3 DEF MatchedWithin
  <1> HIDE DEF d
  <1>2. /\ stepAt' = [w \in Workers |-> IF w \in W THEN clock' + d(w)
                                        ELSE stepAt[w]]
        /\ busyTimeMs' = [w \in Workers |-> IF w \in W THEN busyTimeMs[w] + d(w)
                                            ELSE busyTimeMs[w]]
    BY <1>1 DEF ScheduleTokenStep
  <1>3. stepAt \in [Workers -> Int] /\ busyTimeMs \in [Workers -> Int]
    BY DEF TimedTypeOK
  <1>4. stepAt' \in [Workers -> Int] /\ busyTimeMs' \in [Workers -> Int]
    BY <1>1, <1>2, <1>3
  <1>5. \A w \in W : d(w) \in Int /\ Lasts(w, d(w))
    BY <1>1, <1>2 DEF Lasts
  <1> QED
    BY <1>2, <1>4, <1>5 DEF Charged

(* Which requests move where when r arrives: fill[w] starts on worker w.   *)
ArrivalMoves(r, fill) ==
  /\ r \in pending /\ pending' = pending \ {r}
  /\ fill \in [Workers -> SUBSET (ToSet(queue) \cup {r})]
  /\ ToSet(queue') = (ToSet(queue) \cup {r}) \ UNION {fill[w] : w \in Workers}
  /\ generated' = generated /\ done' = done
  /\ \A w \in Workers :
       /\ fill[w] = {} => batch'[w] = batch[w]
       /\ fill[w] # {} => /\ batch[w] = <<>> /\ batch'[w] # <<>>
                          /\ ToSet(batch'[w]) = fill[w]

LEMMA ArrivalShape ==
  ASSUME TypeOK, P!Inv, NEW r \in Requests, Arrival(r)
  PROVE  \E fill : ArrivalMoves(r, fill)
  <1>1. PICK t, fill, first :
          Offered(Arrived(r), t, Workers, fill, first) /\ Becomes(t)
    BY ArrivalDispatches
  <1>2. r \in pending /\ pending' = pending \ {r} /\ done' = done
    BY DEF Arrival
  <1>3. queue' = t.queue /\ batch' = t.batch /\ generated' = t.gen
    BY <1>1 DEF Becomes
  <1>4. /\ ToSet(Arrived(r).queue) = ToSet(queue) \cup {r}
        /\ Arrived(r).batch = batch /\ Arrived(r).gen = generated
    BY <1>2, ArrivedState
  <1>5. /\ t.gen = generated
        /\ fill \in [Workers -> SUBSET (ToSet(queue) \cup {r})]
        /\ ToSet(t.queue) = (ToSet(queue) \cup {r})
                              \ UNION {fill[w] : w \in Workers}
        /\ t \in HandlerStates
        /\ \A w \in Workers :
             /\ ToSet(t.batch[w]) = ToSet(batch[w]) \cup fill[w]
             /\ batch[w] # <<>> => fill[w] = {} /\ t.batch[w] = batch[w]
    BY <1>1, <1>4 DEF Offered
  <1>6. ASSUME NEW w \in Workers
        PROVE  /\ fill[w] = {} => batch'[w] = batch[w]
               /\ fill[w] # {} => /\ batch[w] = <<>> /\ batch'[w] # <<>>
                                  /\ ToSet(batch'[w]) = fill[w]
    <2>1. batch[w] \in Seq(Requests) /\ t.batch[w] \in Seq(Requests)
      BY <1>5 DEF TypeOK, HandlerStates
    <2>2. /\ ToSet(batch[w]) = {} <=> batch[w] = <<>>
          /\ ToSet(t.batch[w]) = {} <=> t.batch[w] = <<>>
      BY <2>1, MembersOf
    <2>3. batch'[w] = t.batch[w]
      BY <1>3
    <2>4. CASE batch[w] # <<>>
      BY <1>5, <2>3, <2>4
    <2>5. CASE batch[w] = <<>>
      <3>1. ToSet(t.batch[w]) = fill[w]
        <4>1. ToSet(t.batch[w]) = ToSet(batch[w]) \cup fill[w]
          BY <1>5
        <4>2. ToSet(batch[w]) = {}
          BY <2>2, <2>5
        <4> QED
          BY <4>1, <4>2
      <3> QED
        BY <2>2, <2>3, <2>5, <3>1
    <2> QED
      BY <2>4, <2>5
  <1> QED
    BY <1>2, <1>3, <1>5, <1>6 DEF ArrivalMoves

(* Which requests move where in a step of w: S leaves complete, V is       *)
(* preempted, F joins.                                                     *)
StepMoves(w, S, V, F) ==
  /\ pending' = pending
  /\ S \subseteq ToSet(batch[w]) /\ V \subseteq ToSet(batch[w]) \ S
  /\ F \subseteq ToSet(queue) \cup V
  /\ ToSet(queue') = (ToSet(queue) \cup V) \ F
  /\ done' = done \cup S /\ done' \ done = S
  /\ V = {r \in ToSet(batch[w]) : generated'[r] = 0}
  /\ F = {r \in ToSet(batch'[w]) : generated'[r] = 0}
  /\ ToSet(batch'[w]) = (ToSet(batch[w]) \ (S \cup V)) \cup F
  /\ \A v \in Workers : v # w => batch'[v] = batch[v]
  /\ \A r \in Requests :
       generated'[r] = IF r \in V THEN 0
                       ELSE IF r \in ToSet(batch[w]) THEN generated[r] + 1
                       ELSE generated[r]
  /\ \A r \in S : generated'[r] >= OutputTokens[r]

LEMMA StepShape ==
  ASSUME TypeOK, P!Inv, NEW w \in Workers, TokenStepDone(w)
  PROVE  \E S, V, F : StepMoves(w, S, V, F)
  <1>1. PICK t, S, V, F, first :
          /\ Stepped(w, t, S, V, F, first)
          /\ Becomes(t)
          /\ done' = done \cup S
    BY StepCalls
  <1>2. queue' = t.queue /\ batch' = t.batch /\ generated' = t.gen
    BY <1>1 DEF Becomes
  <1>3. /\ S = P!Finished(w) /\ V \subseteq P!Active(w)
        /\ F \subseteq ToSet(queue) \cup V
        /\ ToSet(t.queue) = (ToSet(queue) \cup V) \ F
        /\ ToSet(t.batch[w]) = (P!Active(w) \ V) \cup F
        /\ t.gen = [r \in Requests |-> IF r \in V THEN 0 ELSE P!Advanced(w)[r]]
        /\ \A v \in Workers : v # w => t.batch[v] = batch[v]
    BY <1>1 DEF Stepped
  <1>4. /\ P!Active(w) = ToSet(batch[w]) \ S
        /\ S \subseteq ToSet(batch[w])
        /\ \A r \in S : P!IsComplete(P!Advanced(w), r)
    BY <1>3 DEF P!Active, P!Finished
  <1>5. \A r \in Requests :
          P!Advanced(w)[r] = IF r \in ToSet(batch[w]) THEN generated[r] + 1
                             ELSE generated[r]
    BY DEF P!Advanced
  <1>6. ToSet(batch[w]) \in SUBSET Requests /\ ToSet(queue) \in SUBSET Requests
        /\ generated \in [Requests -> Nat]
    BY MembersOf DEF TypeOK
  <1>7. /\ \A r \in ToSet(queue) : generated[r] = 0 /\ r \notin ToSet(batch[w])
        /\ \A r \in ToSet(batch[w]) : r \notin done
    <2>1. P!ExactlyOnePlace /\ P!TokenAccounting
      BY DEF P!Inv
    <2>2. \A r \in ToSet(batch[w]) : r \in P!Placed
      BY DEF P!Placed
    <2> QED
      BY <1>6, <2>1, <2>2 DEF P!ExactlyOnePlace, P!TokenAccounting
  <1>8. \A r \in Requests :
          generated'[r] = IF r \in V THEN 0
                          ELSE IF r \in ToSet(batch[w]) THEN generated[r] + 1
                          ELSE generated[r]
    BY <1>2, <1>3, <1>5
  <1>9. V = {r \in ToSet(batch[w]) : generated'[r] = 0}
    BY <1>3, <1>4, <1>6, <1>8
  <1>10. ToSet(batch'[w]) = (ToSet(batch[w]) \ (S \cup V)) \cup F
    BY <1>2, <1>3, <1>4
  <1>11. F = {r \in ToSet(batch'[w]) : generated'[r] = 0}
    <2>1. \A r \in F : generated'[r] = 0
      BY <1>3, <1>4, <1>6, <1>7, <1>8
    <2>2. \A r \in ToSet(batch[w]) \ (S \cup V) : generated'[r] # 0
      BY <1>6, <1>8
    <2> QED
      BY <1>10, <2>1, <2>2
  <1>12. \A r \in S : generated'[r] >= OutputTokens[r]
    BY <1>3, <1>4, <1>5, <1>6, <1>8 DEF P!IsComplete
  <1>13. done' \ done = S
    BY <1>1, <1>4, <1>7
  <1>14. pending' = pending
    BY DEF TokenStepDone
  <1> QED
    BY <1>1, <1>2, <1>3, <1>4, <1>8, <1>9, <1>10, <1>11, <1>12, <1>13, <1>14
    DEF StepMoves

-----------------------------------------------------------------------------
(* The requests that share a prefix have contexts of one length: then no   *)
(* request matches more tokens than its own context has.                   *)
OneContext ==
  \A r, s \in Requests : PrefixID[r] = PrefixID[s] /\ PrefixID[r] # NoPrefix
                           => ContextTokens[r] = ContextTokens[s]

CacheWithin(cache) ==
  \A w \in Workers, r \in Requests : PrefixID[r] # NoPrefix =>
    cache[w][PrefixID[r]].tokens <= ContextTokens[r]

PrefixInv == MatchedWithin /\ CacheWithin(prefixCache)

LEMMA RemoveRefsWithin ==
  ASSUME NEW c \in [PrefixIDs -> PrefixState], NEW S \in SUBSET Requests,
         NEW p \in PrefixIDs
  PROVE  P!RemoveRefs(c, S) \in [PrefixIDs -> PrefixState]
         /\ P!RemoveRefs(c, S)[p].tokens <= c[p].tokens
  <1>1. ASSUME NEW q \in PrefixIDs
        PROVE  P!RemoveRefs(c, S)[q] \in PrefixState
               /\ P!RemoveRefs(c, S)[q].tokens <= c[q].tokens
    <2> DEFINE n == Cardinality(Users(S, q))
               d == P!RemoveRefs(c, S)
    <2>1. d[q] = IF n = 0 THEN c[q]
                 ELSE IF c[q].refs <= n THEN NoEntry
                 ELSE [tokens |-> c[q].tokens, refs |-> c[q].refs - n]
      BY RemoveRefsAt
    <2>2. n \in Nat
      BY UsersFinite, ModelAssumption, FS_Subset, FS_CardinalityType
    <2>3. c[q] \in PrefixState /\ c[q].refs \in Nat /\ c[q].tokens \in Nat
      BY DEF PrefixState
    <2> HIDE DEF d, n
    <2>4. d[q] \in PrefixState /\ d[q].tokens <= c[q].tokens
      BY <2>1, <2>2, <2>3 DEF PrefixState, NoEntry
    <2> QED
      BY <2>4 DEF d
  <1>2. P!RemoveRefs(c, S) = [q \in PrefixIDs |-> P!RemoveRefs(c, S)[q]]
    BY DEF P!RemoveRefs
  <1> QED
    BY <1>1, <1>2

LEMMA AddRefsWithin ==
  ASSUME NEW c, NEW F, NEW first, NEW p \in PrefixIDs, NEW k,
         c[p].tokens <= k, Users(F, p) # {} => ContextTokens[first[p]] <= k
  PROVE  P!AddRefs(c, F, first)[p].tokens <= k
  <1> DEFINE n == Cardinality(Users(F, p))
             d == P!AddRefs(c, F, first)
  <1>1. d[p] = IF n = 0 THEN c[p]
               ELSE IF c[p] # NoEntry
                    THEN [tokens |-> c[p].tokens, refs |-> c[p].refs + n]
               ELSE [tokens |-> ContextTokens[first[p]], refs |-> n]
    BY AddRefsAt
  <1>2. Users(F, p) = {} => n = 0
    BY FS_EmptySet
  <1> HIDE DEF n, d
  <1>3. d[p].tokens <= k
    BY <1>1, <1>2
  <1> QED
    BY <1>3 DEF d

LEMMA AdmitWithin ==
  ASSUME OneContext, NEW W, NEW q, NEW kept, NEW gen,
         NEW cache \in [Workers -> [PrefixIDs -> PrefixState]],
         NEW fill \in [Workers -> SUBSET Requests],
         P!Admit(W, q, kept, cache, gen, fill),
         MatchedWithin, CacheWithin(cache)
  PROVE  PrefixInv'
  <1>1. PICK first \in [Workers -> [PrefixIDs -> Requests]] :
          /\ \A w \in Workers, p \in PrefixIDs :
               P!Users(fill[w], p) # {} => first[w][p] \in P!Users(fill[w], p)
          /\ prefixCache' =
               [w \in Workers |-> P!AddRefs(cache[w], fill[w], first[w])]
          /\ matched' =
               [r \in Requests |->
                  IF PrefixID[r] # NoPrefix /\ \E w \in Workers : r \in fill[w]
                  THEN LET w == CHOOSE v \in Workers : r \in fill[v]
                       IN  P!PrefixHit(cache[w], first[w], r)
                  ELSE matched[r]]
    BY DEF P!Admit
  <1>2. \A r \in Requests : PrefixID[r] # NoPrefix => PrefixID[r] \in PrefixIDs
    BY ModelAssumption
  <1>3. ASSUME NEW w \in Workers, NEW r \in Requests, NEW s \in fill[w],
               PrefixID[r] # NoPrefix, PrefixID[s] = PrefixID[r]
        PROVE  ContextTokens[first[w][PrefixID[r]]] = ContextTokens[r]
    <2>1. s \in P!Users(fill[w], PrefixID[r])
      BY <1>3 DEF P!Users
    <2>2. first[w][PrefixID[r]] \in P!Users(fill[w], PrefixID[r])
      BY <1>1, <1>2, <1>3, <2>1
    <2>3. /\ first[w][PrefixID[r]] \in Requests
          /\ PrefixID[first[w][PrefixID[r]]] = PrefixID[r]
      BY <2>2 DEF P!Users
    <2> QED
      BY <1>3, <2>3 DEF OneContext
  <1>4. ASSUME NEW w \in Workers, NEW r \in Requests, r \in fill[w],
               PrefixID[r] # NoPrefix
        PROVE  P!PrefixHit(cache[w], first[w], r) <= ContextTokens[r]
    <2>1. P!PrefixHit(cache[w], first[w], r)
            \in {cache[w][PrefixID[r]].tokens, 0,
                 ContextTokens[first[w][PrefixID[r]]]}
      BY DEF P!PrefixHit
    <2>2. ContextTokens[first[w][PrefixID[r]]] = ContextTokens[r]
      BY <1>3, <1>4
    <2>3. cache[w][PrefixID[r]].tokens <= ContextTokens[r]
      BY <1>4 DEF CacheWithin
    <2>4. ContextTokens[r] \in Nat
      BY ModelAssumption
    <2> QED
      BY <2>1, <2>2, <2>3, <2>4
  <1>5. ASSUME NEW r \in Requests
        PROVE  matched'[r] <= ContextTokens[r]
    <2>1. CASE PrefixID[r] # NoPrefix /\ \E w \in Workers : r \in fill[w]
      <3> DEFINE w == CHOOSE v \in Workers : r \in fill[v]
      <3>1. w \in Workers /\ r \in fill[w]
        BY <2>1
      <3>2. matched'[r] = P!PrefixHit(cache[w], first[w], r)
        BY <1>1, <2>1
      <3> HIDE DEF w
      <3> QED
        BY <1>4, <2>1, <3>1, <3>2
    <2>2. CASE ~(PrefixID[r] # NoPrefix /\ \E w \in Workers : r \in fill[w])
      BY <1>1, <2>2 DEF MatchedWithin
    <2> QED
      BY <2>1, <2>2
  <1>6. ASSUME NEW w \in Workers, NEW r \in Requests, PrefixID[r] # NoPrefix
        PROVE  prefixCache'[w][PrefixID[r]].tokens <= ContextTokens[r]
    <2> DEFINE p == PrefixID[r]
               c == cache[w]
    <2>1. p \in PrefixIDs
      BY <1>2, <1>6
    <2>2. ASSUME NEW s \in Users(fill[w], p)
          PROVE  ContextTokens[first[w][p]] <= ContextTokens[r]
      <3>1. s \in fill[w] /\ PrefixID[s] = p
        BY <2>2 DEF Users
      <3>2. ContextTokens[first[w][p]] = ContextTokens[r]
        BY <1>3, <1>6, <3>1
      <3> QED
        BY <3>2, ModelAssumption
    <2>3. prefixCache'[w][p] = P!AddRefs(c, fill[w], first[w])[p]
      BY <1>1
    <2>4. c[p].tokens <= ContextTokens[r]
      BY <1>6 DEF CacheWithin
    <2> HIDE DEF c, p
    <2>5. Users(fill[w], p) # {} => ContextTokens[first[w][p]] <= ContextTokens[r]
      BY <2>2
    <2>6. P!AddRefs(c, fill[w], first[w])[p].tokens <= ContextTokens[r]
      BY <2>1, <2>4, <2>5, AddRefsWithin
    <2>7. prefixCache'[w][p].tokens <= ContextTokens[r]
      BY <2>3, <2>6
    <2> QED
      BY <2>7 DEF p
  <1> QED
    BY <1>5, <1>6 DEF PrefixInv, MatchedWithin, CacheWithin

LEMMA InitPrefix == Init => PrefixInv
  <1> SUFFICES ASSUME Init PROVE PrefixInv
    OBVIOUS
  <1>1. \A r \in Requests : ContextTokens[r] \in Nat
    BY ModelAssumption
  <1>2. MatchedWithin
    BY <1>1 DEF Init, MatchedWithin
  <1>3. CacheWithin(prefixCache)
    BY <1>1, ModelAssumption DEF Init, CacheWithin, EmptyCache, NoEntry
  <1> QED
    BY <1>2, <1>3 DEF PrefixInv

LEMMA NextPrefix ==
  ASSUME OneContext, TypeOK, P!Inv, PrefixInv, [Next]_vars
  PROVE  PrefixInv'
  <1>1. MatchedWithin /\ CacheWithin(prefixCache)
        /\ prefixCache \in [Workers -> [PrefixIDs -> PrefixState]]
    BY DEF PrefixInv, TypeOK
  <1>2. ASSUME NEW r \in Requests, Arrival(r)
        PROVE  PrefixInv'
    <2>1. PICK fill \in [Workers -> SUBSET (ToSet(queue) \cup {r})] :
            P!ArrivalWith(r, fill)
      BY <1>2, ArrivalImplements DEF P!Arrival
    <2>2. P!Admit(P!IdleWorkers, ToSet(queue) \cup {r},
                  [w \in Workers |-> ToSet(batch[w])], prefixCache, generated,
                  fill)
      BY <2>1 DEF P!ArrivalWith
    <2>3. fill \in [Workers -> SUBSET Requests]
      <3>1. ToSet(queue) \in SUBSET Requests
        BY MembersOf DEF TypeOK
      <3> QED
        BY <3>1
    <2> QED
      BY <1>1, <2>2, <2>3, AdmitWithin
  <1>3. ASSUME NEW w \in Workers, TokenStepDone(w)
        PROVE  PrefixInv'
    <2>1. PICK t, S, V, F, first :
            /\ Stepped(w, t, S, V, F, first)
            /\ Becomes(t)
            /\ done' = done \cup S
      BY <1>3, StepCalls
    <2> DEFINE c == P!RemoveRefs(P!RemoveRefs(prefixCache[w], S), V)
               cache == [prefixCache EXCEPT ![w] = c]
               fill == [v \in Workers |-> IF v = w THEN F ELSE {}]
               gen == P!Restarted(P!Advanced(w), V)
               kept == [[v \in Workers |-> ToSet(batch[v])]
                          EXCEPT ![w] = P!Active(w) \ V]
    <2>2. P!Admit({w}, ToSet(queue) \cup V, kept, cache, gen, fill)
      BY <2>1, StepAdmits
    <2>3. S \in SUBSET Requests /\ V \in SUBSET Requests /\ F \in SUBSET Requests
      <3>1. ToSet(queue) \in SUBSET Requests /\ ToSet(batch[w]) \in SUBSET Requests
        BY MembersOf DEF TypeOK
      <3> QED
        BY <2>1, <3>1 DEF Stepped, P!Finished, P!Active
    <2>4. c \in [PrefixIDs -> PrefixState]
          /\ \A p \in PrefixIDs : c[p].tokens <= prefixCache[w][p].tokens
      <3> DEFINE c0 == prefixCache[w]
                 c1 == P!RemoveRefs(c0, S)
      <3>1. c0 \in [PrefixIDs -> PrefixState]
        BY <1>1
      <3> HIDE DEF c0
      <3>2. ASSUME NEW p \in PrefixIDs
            PROVE  c1 \in [PrefixIDs -> PrefixState] /\ c1[p].tokens <= c0[p].tokens
        BY <2>3, <3>1, RemoveRefsWithin
      <3>3. c1 \in [PrefixIDs -> PrefixState]
        <4>1. c1 = [p \in PrefixIDs |-> c1[p]]
          BY DEF P!RemoveRefs
        <4> HIDE DEF c1
        <4>2. \A p \in PrefixIDs : c1[p] \in PrefixState
          BY <3>2
        <4> QED
          BY <4>1, <4>2
      <3> HIDE DEF c1
      <3>4. ASSUME NEW p \in PrefixIDs
            PROVE  P!RemoveRefs(c1, V) \in [PrefixIDs -> PrefixState]
                   /\ P!RemoveRefs(c1, V)[p].tokens <= c1[p].tokens
        BY <2>3, <3>3, RemoveRefsWithin
      <3>5. P!RemoveRefs(c1, V) \in [PrefixIDs -> PrefixState]
        <4>1. P!RemoveRefs(c1, V) = [p \in PrefixIDs |-> P!RemoveRefs(c1, V)[p]]
          BY DEF P!RemoveRefs
        <4> DEFINE c2 == P!RemoveRefs(c1, V)
        <4> HIDE DEF c2
        <4>2. \A p \in PrefixIDs : c2[p] \in PrefixState
          BY <3>4 DEF c2
        <4>3. c2 \in [PrefixIDs -> PrefixState]
          BY <4>1, <4>2 DEF c2
        <4> QED
          BY <4>3 DEF c2
      <3>6. ASSUME NEW p \in PrefixIDs
            PROVE  P!RemoveRefs(c1, V)[p].tokens <= c0[p].tokens
        <4>1. /\ P!RemoveRefs(c1, V)[p].tokens \in Nat
              /\ c1[p].tokens \in Nat /\ c0[p].tokens \in Nat
          BY <3>1, <3>3, <3>5 DEF PrefixState
        <4> QED
          BY <3>2, <3>4, <4>1
      <3> QED
        BY <3>5, <3>6 DEF c0, c1
    <2> HIDE DEF c, gen, kept
    <2>5. cache \in [Workers -> [PrefixIDs -> PrefixState]]
      BY <1>1, <2>4
    <2>6. fill \in [Workers -> SUBSET Requests]
      BY <2>3
    <2>7. CacheWithin(cache)
      <3> SUFFICES ASSUME NEW v \in Workers, NEW r \in Requests,
                          PrefixID[r] # NoPrefix
                   PROVE  cache[v][PrefixID[r]].tokens <= ContextTokens[r]
        BY DEF CacheWithin
      <3>1. PrefixID[r] \in PrefixIDs /\ ContextTokens[r] \in Nat
        BY ModelAssumption
      <3>2. prefixCache[v][PrefixID[r]].tokens <= ContextTokens[r]
        BY <1>1 DEF CacheWithin
      <3>3. /\ prefixCache[v][PrefixID[r]].tokens \in Nat
            /\ c[PrefixID[r]].tokens \in Nat
        BY <1>1, <2>4, <3>1 DEF PrefixState
      <3> QED
        BY <1>1, <2>4, <3>1, <3>2, <3>3
    <2> HIDE DEF cache, fill
    <2> QED
      BY <1>1, <2>2, <2>5, <2>6, <2>7, AdmitWithin
  <1>4. CASE UNCHANGED vars
    BY <1>4 DEF vars, PrefixInv, MatchedWithin, CacheWithin
  <1> QED
    BY <1>2, <1>3, <1>4 DEF Next

-----------------------------------------------------------------------------
(* What an arrival and a step do to the times.                             *)
LEMMA ScaledType ==
  ASSUME NEW n \in Int
  PROVE  Scaled(n) \in Int /\ (n >= 0 => Scaled(n) \in Nat)
  <1>1. TimeScale \in Nat
    BY TimedAssumption
  <1>2. n >= 0 => n \in Nat
    OBVIOUS
  <1> QED
    BY <1>1, <1>2, NatProduct, ProductType DEF Scaled

Joining(fill) == {w \in Workers : fill[w] # {}}

LEMMA ArrivalTimes ==
  ASSUME TypeOK', TimedTypeOK, NEW r \in Requests, TimedArrival(r),
         NEW fill, ArrivalMoves(r, fill)
  PROVE  /\ clock' = Scaled(ArrivalMs[r]) /\ clock' \in Int
         /\ Charged(Joining(fill))
         /\ dispatchMs' = [x \in Requests |->
                             IF \E w \in Workers : x \in fill[w] THEN clock'
                             ELSE dispatchMs[x]]
         /\ timing' = timing /\ sampleAt' = sampleAt
         /\ firstTokenMs' = firstTokenMs /\ completionMs' = completionMs
         /\ preemptions' = preemptions /\ samples' = samples
  <1> DEFINE started == {w \in Workers : batch[w] # batch'[w]}
             S == UNION {ToSet(batch'[w]) : w \in started}
  <1>1. started = Joining(fill)
    BY DEF ArrivalMoves, Joining
  <1>2. \A x : x \in S <=> \E w \in Workers : x \in fill[w]
    <2>1. ASSUME NEW w \in started PROVE w \in Workers /\ ToSet(batch'[w]) = fill[w]
      BY <1>1 DEF ArrivalMoves, Joining
    <2>2. ASSUME NEW w \in Workers, NEW x \in fill[w]
          PROVE  w \in started /\ x \in ToSet(batch'[w])
      BY <1>1 DEF ArrivalMoves, Joining
    <2> QED
      BY <2>1, <2>2
  <1>3. /\ clock' = Scaled(ArrivalMs[r]) /\ Dispatched(S)
        /\ ScheduleTokenStep(started)
        /\ timing' = timing /\ sampleAt' = sampleAt
        /\ firstTokenMs' = firstTokenMs /\ completionMs' = completionMs
        /\ preemptions' = preemptions /\ samples' = samples
    BY DEF TimedArrival, Fires
  <1> HIDE DEF S, started
  <1>4. clock' \in Int
    BY <1>3, PolicyAssumption, ScaledType
  <1>5. Charged(Joining(fill))
    <2>1. \A w \in Joining(fill) : w \in Workers /\ batch'[w] # <<>>
      BY DEF ArrivalMoves, Joining
    <2> QED
      BY <1>1, <1>3, <1>4, <2>1, StepsCharged
  <1>6. dispatchMs' = [x \in Requests |->
                         IF \E w \in Workers : x \in fill[w] THEN clock'
                         ELSE dispatchMs[x]]
    BY <1>2, <1>3 DEF Dispatched
  <1> QED
    BY <1>3, <1>4, <1>5, <1>6

Stepping(w) == IF batch'[w] = <<>> THEN {} ELSE {w}

LEMMA StepTimes ==
  ASSUME TypeOK, TypeOK', TimedTypeOK, NEW w \in Workers, TimedStep(w),
         NEW S, NEW V, NEW F, StepMoves(w, S, V, F)
  PROVE  /\ clock' = stepAt[w] /\ clock' \in Int
         /\ Charged(Stepping(w))
         /\ \A x \in Requests :
              /\ dispatchMs'[x] = IF x \in F THEN clock' ELSE dispatchMs[x]
              /\ firstTokenMs'[x] =
                   IF x \in V THEN 0
                   ELSE IF x \in ToSet(batch[w]) /\ generated[x] = 0
                   THEN clock' ELSE firstTokenMs[x]
              /\ completionMs'[x] = IF x \in S THEN clock' ELSE completionMs[x]
         /\ timing' = timing /\ sampleAt' = sampleAt /\ samples' = samples
         /\ dispatchMs' \in [Requests -> Int]
         /\ firstTokenMs' \in [Requests -> Int]
         /\ completionMs' \in [Requests -> Int]
         /\ preemptions' \in [Requests -> Nat]
  <1>1. /\ clock' = stepAt[w] /\ Dispatched(F)
        /\ timing' = timing /\ sampleAt' = sampleAt /\ samples' = samples
        /\ ScheduleTokenStep(Stepping(w))
        /\ firstTokenMs' = FirstTokens(w, V)
        /\ completionMs' = [x \in Requests |-> IF x \in S THEN clock'
                                               ELSE completionMs[x]]
        /\ preemptions' = [x \in Requests |-> IF x \in V THEN preemptions[x] + 1
                                              ELSE preemptions[x]]
    BY DEF TimedStep, Fires, StepMoves, Stepping
  <1>2. clock' \in Int
    BY <1>1 DEF TimedTypeOK
  <1>3. Charged(Stepping(w))
    <2>1. Stepping(w) \in SUBSET Workers /\ \A v \in Stepping(w) : batch'[v] # <<>>
      BY DEF Stepping
    <2> QED
      BY <1>1, <1>2, <2>1, StepsCharged
  <1>4. /\ dispatchMs' = [x \in Requests |-> IF x \in F THEN clock'
                                             ELSE dispatchMs[x]]
        /\ firstTokenMs' = [x \in Requests |->
                              IF x \in V THEN 0
                              ELSE IF x \in ToSet(batch[w]) /\ generated[x] = 0
                              THEN clock' ELSE firstTokenMs[x]]
    BY <1>1 DEF Dispatched, FirstTokens
  <1>5. /\ dispatchMs' \in [Requests -> Int]
        /\ firstTokenMs' \in [Requests -> Int]
        /\ completionMs' \in [Requests -> Int]
        /\ preemptions' \in [Requests -> Nat]
    BY <1>1, <1>2, <1>4 DEF TimedTypeOK
  <1> QED
    BY <1>1, <1>2, <1>3, <1>4, <1>5

LEMMA ArrivalTimedTypes ==
  ASSUME TypeOK', TimedTypeOK, NEW r \in Requests, TimedArrival(r),
         NEW fill, ArrivalMoves(r, fill)
  PROVE  TimedTypeOK'
  <1>1. /\ clock' \in Int /\ Charged(Joining(fill))
        /\ dispatchMs' = [x \in Requests |->
                            IF \E w \in Workers : x \in fill[w] THEN clock'
                            ELSE dispatchMs[x]]
        /\ timing' = timing /\ sampleAt' = sampleAt
        /\ firstTokenMs' = firstTokenMs /\ completionMs' = completionMs
        /\ preemptions' = preemptions /\ samples' = samples
    BY ArrivalTimes
  <1>2. dispatchMs' \in [Requests -> Int]
    BY <1>1 DEF TimedTypeOK
  <1> QED
    BY <1>1, <1>2 DEF TimedTypeOK, Charged

LEMMA StepTimedTypes ==
  ASSUME TypeOK, TypeOK', TimedTypeOK, NEW w \in Workers, TimedStep(w),
         NEW S, NEW V, NEW F, StepMoves(w, S, V, F)
  PROVE  TimedTypeOK'
  <1>1. /\ clock' \in Int /\ Charged(Stepping(w))
        /\ timing' = timing /\ sampleAt' = sampleAt /\ samples' = samples
        /\ dispatchMs' \in [Requests -> Int]
        /\ firstTokenMs' \in [Requests -> Int]
        /\ completionMs' \in [Requests -> Int]
        /\ preemptions' \in [Requests -> Nat]
    BY StepTimes
  <1> QED
    BY <1>1 DEF TimedTypeOK, Charged

LEMMA SampleTimedTypes ==
  ASSUME TypeOK, TimedTypeOK, PeriodicSample
  PROVE  TimedTypeOK'
  <1> DEFINE active == {w \in Workers : batch[w] # <<>>}
             lengths == [w \in Workers |-> Len(batch[w])]
             sample == [timeMs |-> clock', queueDepth |-> Len(queue),
                        activeWorkers |-> Cardinality(active),
                        totalBatched |-> TokenSum(Workers, lengths)]
  <1>1. PICK time \in sampleAt : clock' = time /\ sampleAt' = NextSample(time)
    BY DEF PeriodicSample, Fires
  <1>2. time \in Nat
    BY DEF TimedTypeOK
  <1>3. sampleAt' \subseteq Nat /\ Cardinality(sampleAt') <= 1
    BY <1>1, <1>2, SampleAtType
  <1>4. Len(queue) \in Nat
    BY DEF TypeOK
  <1>5. Cardinality(active) \in Nat
    BY WorkersFinite, FS_Subset, FS_CardinalityType
  <1>6. TokenSum(Workers, lengths) \in Nat
    <2>1. \A w \in Workers : batch[w] \in Seq(Requests)
      BY DEF TypeOK
    <2>2. \A w \in Workers : lengths[w] \in Nat
      BY <2>1
    <2> HIDE DEF lengths
    <2> QED
      BY <2>2, WorkersFinite, SumType
  <1>7. samples' = samples \cup {sample}
    BY DEF PeriodicSample, RecordSample
  <1> HIDE DEF active, lengths
  <1>8. sample \in [timeMs : Int, queueDepth : Nat, activeWorkers : Nat,
                    totalBatched : Nat]
    BY <1>1, <1>2, <1>4, <1>5, <1>6
  <1> HIDE DEF sample
  <1>9. /\ timing' = timing /\ stepAt' = stepAt /\ dispatchMs' = dispatchMs
        /\ firstTokenMs' = firstTokenMs /\ completionMs' = completionMs
        /\ preemptions' = preemptions /\ busyTimeMs' = busyTimeMs
    BY DEF PeriodicSample
  <1> QED
    BY <1>1, <1>2, <1>3, <1>7, <1>8, <1>9 DEF TimedTypeOK

LEMMA NextTimedTypes ==
  ASSUME TypeOK, P!Inv, TypeOK', TimedTypeOK, [TimedNext]_allVars
  PROVE  TimedTypeOK'
  <1>1. ASSUME NEW r \in Requests, Arrival(r), TimedArrival(r)
        PROVE  TimedTypeOK'
    BY <1>1, ArrivalShape, ArrivalTimedTypes
  <1>2. ASSUME NEW w \in Workers, TokenStepDone(w), TimedStep(w)
        PROVE  TimedTypeOK'
    BY <1>2, StepShape, StepTimedTypes
  <1>3. CASE PeriodicSample
    BY <1>3, SampleTimedTypes
  <1>4. CASE UNCHANGED allVars
    BY <1>4 DEF allVars, timedVars, TimedTypeOK
  <1> QED
    BY <1>1, <1>2, <1>3, <1>4, TimedSteps

TimedTypes == TypeOK /\ P!Inv /\ TimedTypeOK

LEMMA TimedTypesAlways == TimedSpec => []TimedTypes
  <1>1. TimedInit => TimedTypes
    BY InitBoth, P!InitInv, SameAssumption, InitTimedTypes
    DEF TimedInit, TimedTypes
  <1>2. TimedTypes /\ [TimedNext]_allVars => TimedTypes'
    BY NextBothTimed, NextTimedTypes DEF TimedTypes
  <1> QED
    BY <1>1, <1>2, PTL DEF TimedSpec

(* The clock, the step times, the timestamps and the samples are numbers   *)
(* throughout a run, and there is at most one sample outstanding, under    *)
(* every timing model and workload.                                        *)
THEOREM TimedTypesCorrect == TimedSpec => []TimedTypeOK
  <1>1. TimedTypes => TimedTypeOK
    BY DEF TimedTypes
  <1> QED
    BY <1>1, TimedTypesAlways, PTL

-----------------------------------------------------------------------------
(* The workloads and timing models of which the times make sense: nothing  *)
(* arrives before the simulation starts, contexts that share a prefix are  *)
(* of one length, and a step takes time.                                   *)
Regular ==
  /\ OneContext
  /\ \A r \in Requests : ArrivalMs[r] >= 0
  /\ \A tm \in TimingChoice : tm.baseMs > 0

Busy == \A w \in Workers : steps[w] > 0 <=> batch[w] # <<>>

LEMMA BusySteps ==
  ASSUME TypeOK, P!Inv
  PROVE  Busy
  <1> SUFFICES ASSUME NEW w \in Workers PROVE steps[w] > 0 <=> batch[w] # <<>>
    BY DEF Busy
  <1>1. batch[w] \in Seq(Requests)
    BY DEF TypeOK
  <1>2. ToSet(batch[w]) = {} <=> batch[w] = <<>>
    BY <1>1, MembersOf
  <1>3. steps[w] = IF ToSet(batch[w]) = {} THEN 0 ELSE 1
    BY DEF P!Inv, P!StepPerBusyWorker
  <1> QED
    BY <1>2, <1>3

LEMMA NextBusySteps ==
  ASSUME TypeOK', P!Inv'
  PROVE  Busy'
  <1> SUFFICES ASSUME NEW w \in Workers
               PROVE  steps'[w] > 0 <=> batch'[w] # <<>>
    BY DEF Busy
  <1>1. batch'[w] \in Seq(Requests)
    BY DEF TypeOK
  <1>2. ToSet(batch'[w]) = {} <=> batch'[w] = <<>>
    BY <1>1, MembersOf
  <1>3. steps'[w] = IF ToSet(batch'[w]) = {} THEN 0 ELSE 1
    BY DEF P!Inv, P!StepPerBusyWorker
  <1> QED
    BY <1>2, <1>3

(* No event is in the past, and whoever is in the system has arrived.      *)
ClockInv ==
  /\ clock \in Nat
  /\ \A r \in pending : clock <= Scaled(ArrivalMs[r])
  /\ \A w \in Workers : batch[w] # <<>> => clock <= stepAt[w]
  /\ \A t \in sampleAt : clock <= t
  /\ \A r \in Requests \ pending : Scaled(ArrivalMs[r]) <= clock

LEMMA FiresFirst ==
  ASSUME Busy, NEW time, Fires(time)
  PROVE  /\ clock' = time
         /\ \A r \in pending : time <= Scaled(ArrivalMs[r])
         /\ \A w \in Workers : batch[w] # <<>> => time <= stepAt[w]
         /\ \A t \in sampleAt : time <= t
  <1>1. clock' = time /\ \A e \in Events : time <= e.timeMs
    BY DEF Fires
  <1>2. ASSUME NEW r \in pending PROVE time <= Scaled(ArrivalMs[r])
    <2> DEFINE e == [timeMs |-> Scaled(ArrivalMs[r]), id |-> <<"arrival", r>>]
    <2>1. e \in Events
      BY DEF Events
    <2> QED
      BY <1>1, <2>1
  <1>3. ASSUME NEW w \in Workers, batch[w] # <<>> PROVE time <= stepAt[w]
    <2> DEFINE e == [timeMs |-> stepAt[w], id |-> <<"step", w>>]
    <2>1. e \in Events
      BY <1>3 DEF Events, Busy
    <2> QED
      BY <1>1, <2>1
  <1>4. ASSUME NEW t \in sampleAt PROVE time <= t
    <2> DEFINE e == [timeMs |-> t, id |-> <<"sample", 0>>]
    <2>1. e \in Events
      BY DEF Events
    <2> QED
      BY <1>1, <2>1
  <1> QED
    BY <1>1, <1>2, <1>3, <1>4

LEMMA BasePositive ==
  ASSUME Regular, TimedTypeOK
  PROVE  Scaled(timing.baseMs) \in Nat /\ Scaled(timing.baseMs) > 0
  <1>1. timing \in TimingChoice /\ timing.baseMs > 0
    BY DEF Regular, TimedTypeOK
  <1>2. timing.baseMs \in Nat /\ TimeScale \in Nat \ {0}
    BY <1>1, TimedAssumption
  <1>3. \A m, n \in Nat : m > 0 /\ n > 0 => m * n \in Nat /\ m * n > 0
    OBVIOUS
  <1> QED
    BY <1>1, <1>2, <1>3 DEF Scaled

(* A step that is charged lasts for the base time at least.                *)
LEMMA ChargedTakesTime ==
  ASSUME Regular, TimedTypeOK, MatchedWithin', clock' \in Int,
         NEW W, Charged(W), NEW w \in W
  PROVE  \E d \in Int : /\ d >= Scaled(timing.baseMs) /\ d > 0
                        /\ stepAt'[w] = clock' + d
                        /\ busyTimeMs'[w] = busyTimeMs[w] + d
  <1>1. PICK d \in Int : Lasts(w, d)
    BY DEF Charged
  <1>2. Scaled(timing.baseMs) \in Nat /\ Scaled(timing.baseMs) > 0
    BY BasePositive
  <1>3. d >= Scaled(timing.baseMs) /\ d > 0
    BY <1>1, <1>2 DEF Lasts
  <1> QED
    BY <1>1, <1>3 DEF Lasts

LEMMA InitClock ==
  ASSUME Regular, TimedInit
  PROVE  ClockInv
  <1>1. \A r \in Requests : Scaled(ArrivalMs[r]) \in Nat
    BY PolicyAssumption, ScaledType DEF Regular
  <1>2. Scaled(SampleIntervalMs) \in Nat
    BY TimedAssumption, ScaledType
  <1>3. /\ clock = 0 /\ pending = Requests
        /\ \A w \in Workers : batch[w] = <<>>
        /\ \A t \in sampleAt : t = Scaled(SampleIntervalMs)
    BY DEF TimedInit, Init
  <1>4. \A t \in sampleAt : clock <= t
    BY <1>2, <1>3
  <1> QED
    BY <1>1, <1>3, <1>4 DEF ClockInv

LEMMA ArrivalClock ==
  ASSUME Regular, TypeOK, TypeOK', TimedTypeOK, Busy, ClockInv, MatchedWithin',
         NEW r \in Requests, TimedArrival(r),
         NEW fill, ArrivalMoves(r, fill)
  PROVE  ClockInv' /\ clock' >= clock
  <1>1. /\ clock' = Scaled(ArrivalMs[r]) /\ clock' \in Int
        /\ Charged(Joining(fill)) /\ sampleAt' = sampleAt
    BY ArrivalTimes
  <1>2. /\ \A x \in pending : clock' <= Scaled(ArrivalMs[x])
        /\ \A w \in Workers : batch[w] # <<>> => clock' <= stepAt[w]
        /\ \A t \in sampleAt : clock' <= t
    BY <1>1, FiresFirst DEF TimedArrival
  <1>3. r \in pending /\ pending' = pending \ {r}
    BY DEF ArrivalMoves
  <1>4. clock \in Nat /\ clock <= clock' /\ clock' \in Nat
    BY <1>1, <1>3 DEF ClockInv
  <1>5. ASSUME NEW w \in Workers, batch'[w] # <<>>
        PROVE  clock' <= stepAt'[w]
    <2>1. CASE w \in Joining(fill)
      <3>1. PICK d \in Int : d > 0 /\ stepAt'[w] = clock' + d
        BY <1>1, <2>1, ChargedTakesTime
      <3> QED
        BY <1>1, <3>1
    <2>2. CASE w \notin Joining(fill)
      <3>1. batch'[w] = batch[w]
        BY <2>2 DEF ArrivalMoves, Joining
      <3>2. stepAt'[w] = stepAt[w]
        BY <1>1, <2>2 DEF Charged
      <3> QED
        BY <1>2, <1>5, <3>1, <3>2
    <2> QED
      BY <2>1, <2>2
  <1>6. ASSUME NEW x \in Requests \ pending'
        PROVE  Scaled(ArrivalMs[x]) <= clock'
    <2>1. Scaled(ArrivalMs[x]) \in Int
      BY PolicyAssumption, ScaledType
    <2>2. x = r \/ x \in Requests \ pending
      BY <1>3
    <2>3. x \in Requests \ pending => Scaled(ArrivalMs[x]) <= clock
      BY DEF ClockInv
    <2> QED
      BY <1>1, <1>4, <2>1, <2>2, <2>3
  <1> QED
    BY <1>1, <1>2, <1>3, <1>4, <1>5, <1>6 DEF ClockInv

LEMMA StepClock ==
  ASSUME Regular, TypeOK, TypeOK', TimedTypeOK, Busy, ClockInv, MatchedWithin',
         NEW w \in Workers, TimedStep(w), batch[w] # <<>>,
         NEW S, NEW V, NEW F, StepMoves(w, S, V, F)
  PROVE  ClockInv' /\ clock' >= clock
  <1>1. /\ clock' = stepAt[w] /\ clock' \in Int
        /\ Charged(Stepping(w)) /\ sampleAt' = sampleAt
    BY StepTimes
  <1>2. /\ \A x \in pending : clock' <= Scaled(ArrivalMs[x])
        /\ \A v \in Workers : batch[v] # <<>> => clock' <= stepAt[v]
        /\ \A t \in sampleAt : clock' <= t
    BY <1>1, FiresFirst DEF TimedStep
  <1>3. pending' = pending /\ \A v \in Workers : v # w => batch'[v] = batch[v]
    BY DEF StepMoves
  <1>4. clock \in Nat /\ clock <= clock' /\ clock' \in Nat
    BY <1>1 DEF ClockInv
  <1>5. ASSUME NEW v \in Workers, batch'[v] # <<>>
        PROVE  clock' <= stepAt'[v]
    <2>1. CASE v = w
      <3>1. v \in Stepping(w)
        BY <1>5, <2>1 DEF Stepping
      <3>2. PICK d \in Int : d > 0 /\ stepAt'[v] = clock' + d
        BY <1>1, <3>1, ChargedTakesTime
      <3> QED
        BY <1>1, <3>2
    <2>2. CASE v # w
      <3>1. v \in Workers \ Stepping(w)
        BY <2>2 DEF Stepping
      <3>2. stepAt'[v] = stepAt[v]
        BY <1>1, <3>1 DEF Charged
      <3> QED
        BY <1>2, <1>3, <1>5, <2>2, <3>2
    <2> QED
      BY <2>1, <2>2
  <1>6. ASSUME NEW x \in Requests \ pending'
        PROVE  Scaled(ArrivalMs[x]) <= clock'
    <2>1. Scaled(ArrivalMs[x]) \in Int /\ Scaled(ArrivalMs[x]) <= clock
      BY <1>3, PolicyAssumption, ScaledType DEF ClockInv
    <2> QED
      BY <1>4, <2>1
  <1> QED
    BY <1>1, <1>2, <1>3, <1>4, <1>5, <1>6 DEF ClockInv

LEMMA SampleClock ==
  ASSUME TypeOK, TimedTypeOK, Busy, ClockInv, PeriodicSample
  PROVE  ClockInv' /\ clock' >= clock
  <1>1. PICK time \in sampleAt : Fires(time) /\ sampleAt' = NextSample(time)
    BY DEF PeriodicSample
  <1>2. /\ clock' = time
        /\ \A x \in pending : clock' <= Scaled(ArrivalMs[x])
        /\ \A v \in Workers : batch[v] # <<>> => clock' <= stepAt[v]
    BY <1>1, FiresFirst
  <1>3. time \in Nat /\ clock \in Nat /\ clock <= time
    BY <1>1 DEF ClockInv, TimedTypeOK
  <1>4. Scaled(SampleIntervalMs) \in Nat
    BY TimedAssumption, ScaledType
  <1>5. \A t \in NextSample(time) : t = time + Scaled(SampleIntervalMs)
    BY DEF NextSample
  <1>6. \A t \in sampleAt' : clock' <= t
    BY <1>1, <1>2, <1>3, <1>4, <1>5
  <1>7. pending' = pending /\ batch' = batch /\ stepAt' = stepAt
    BY DEF PeriodicSample, vars
  <1>8. ASSUME NEW x \in Requests \ pending'
        PROVE  Scaled(ArrivalMs[x]) <= clock'
    <2>1. Scaled(ArrivalMs[x]) \in Int /\ Scaled(ArrivalMs[x]) <= clock
      BY <1>7, PolicyAssumption, ScaledType DEF ClockInv
    <2> QED
      BY <1>2, <1>3, <2>1
  <1> QED
    BY <1>2, <1>3, <1>6, <1>7, <1>8 DEF ClockInv

(* What the timed arguments of a step rest on, before it and after it.     *)
Timely == TimedTypes /\ PrefixInv /\ ClockInv

LEMMA NextTimely ==
  ASSUME Regular, Timely, [TimedNext]_allVars
  PROVE  /\ Timely' /\ Busy /\ Busy' /\ MatchedWithin' /\ clock' >= clock
         /\ TypeOK /\ TypeOK' /\ P!Inv /\ P!Inv' /\ TimedTypeOK /\ ClockInv
         /\ ClockInv'
  <1>1. TypeOK /\ P!Inv /\ TimedTypeOK /\ PrefixInv /\ ClockInv
    BY DEF Timely, TimedTypes
  <1>2. TypeOK' /\ P!Inv' /\ TimedTypeOK'
    BY <1>1, NextBothTimed, NextTimedTypes
  <1>3. Busy /\ Busy'
    BY <1>1, <1>2, BusySteps, NextBusySteps
  <1>4. PrefixInv'
    BY <1>1, UntimedSteps, NextPrefix DEF Regular
  <1>5. MatchedWithin'
    BY <1>4 DEF PrefixInv
  <1>6. ClockInv' /\ clock' >= clock
    <2>1. ASSUME NEW r \in Requests, Arrival(r), TimedArrival(r)
          PROVE  ClockInv' /\ clock' >= clock
      <3>1. PICK fill : ArrivalMoves(r, fill)
        BY <1>1, <2>1, ArrivalShape
      <3> QED
        BY <1>1, <1>2, <1>3, <1>5, <2>1, <3>1, ArrivalClock
    <2>2. ASSUME NEW w \in Workers, TokenStepDone(w), TimedStep(w)
          PROVE  ClockInv' /\ clock' >= clock
      <3>1. PICK S, V, F : StepMoves(w, S, V, F)
        BY <1>1, <2>2, StepShape
      <3>2. batch[w] # <<>>
        BY <1>3, <2>2 DEF Busy, TokenStepDone
      <3> QED
        BY <1>1, <1>2, <1>3, <1>5, <2>2, <3>1, <3>2, StepClock
    <2>3. CASE PeriodicSample
      BY <1>1, <1>3, <2>3, SampleClock
    <2>4. CASE UNCHANGED allVars
      <3>1. clock' = clock /\ ClockInv'
        BY <1>1, <2>4 DEF ClockInv, allVars, vars, timedVars
      <3>2. clock \in Nat
        BY <1>1 DEF ClockInv
      <3> QED
        BY <3>1, <3>2
    <2> QED
      BY <2>1, <2>2, <2>3, <2>4, TimedSteps
  <1> QED
    BY <1>1, <1>2, <1>3, <1>4, <1>5, <1>6 DEF Timely, TimedTypes

LEMMA InitTimely ==
  ASSUME Regular, TimedInit
  PROVE  Timely
  <1>1. Init
    BY DEF TimedInit
  <1>2. TimedTypes
    BY <1>1, InitBoth, P!InitInv, SameAssumption, InitTimedTypes DEF TimedTypes
  <1> QED
    BY <1>1, <1>2, InitPrefix, InitClock DEF Timely

LEMMA TimelyAlways ==
  ASSUME Regular
  PROVE  TimedSpec => []Timely
  <1>1. TimedInit => Timely
    BY InitTimely
  <1>2. Timely /\ [TimedNext]_allVars => Timely'
    BY NextTimely
  <1> QED
    BY <1>1, <1>2, PTL DEF TimedSpec

(* The clock never runs backwards when nothing arrives before time 0, the  *)
(* contexts that share a prefix are of one length and a step takes time;   *)
(* the run timed_backwards shows what happens when they are not.           *)
THEOREM ClockForward ==
  ASSUME Regular
  PROVE  TimedSpec => ClockMonotone
  <1>1. Timely /\ [TimedNext]_allVars => [clock' >= clock]_allVars
    BY NextTimely
  <1> QED
    BY <1>1, TimelyAlways, PTL DEF TimedSpec, ClockMonotone

-----------------------------------------------------------------------------
(* What a worker is charged for is over when its step is.                  *)
LEMMA ArrivalBusy ==
  ASSUME Regular, TypeOK, TypeOK', TimedTypeOK, Busy, Busy', MatchedWithin',
         BusyWithinElapsed, clock' >= clock, clock \in Nat,
         NEW r \in Requests, TimedArrival(r), NEW fill, ArrivalMoves(r, fill)
  PROVE  BusyWithinElapsed'
  <1>1. clock' \in Int /\ Charged(Joining(fill))
    BY ArrivalTimes
  <1>2. \A w \in Workers : busyTimeMs[w] \in Int /\ stepAt[w] \in Int
    BY DEF TimedTypeOK
  <1>3. ASSUME NEW w \in Workers
        PROVE  busyTimeMs'[w] <= IF steps'[w] > 0 THEN stepAt'[w] ELSE clock'
    <2>1. CASE w \in Joining(fill)
      <3>1. batch[w] = <<>> /\ batch'[w] # <<>>
        BY <2>1 DEF ArrivalMoves, Joining
      <3>2. busyTimeMs[w] <= clock
        BY <3>1 DEF BusyWithinElapsed, Busy
      <3>3. PICK d \in Int : /\ stepAt'[w] = clock' + d
                             /\ busyTimeMs'[w] = busyTimeMs[w] + d
        BY <1>1, <2>1, ChargedTakesTime
      <3>4. busyTimeMs'[w] <= stepAt'[w]
        BY <1>1, <1>2, <3>2, <3>3
      <3>5. steps'[w] > 0
        BY <3>1 DEF Busy
      <3> QED
        BY <3>4, <3>5
    <2>2. CASE w \notin Joining(fill)
      <3>1. batch'[w] = batch[w]
        BY <2>2 DEF ArrivalMoves, Joining
      <3>2. stepAt'[w] = stepAt[w] /\ busyTimeMs'[w] = busyTimeMs[w]
        BY <1>1, <2>2 DEF Charged
      <3>3. steps'[w] > 0 <=> steps[w] > 0
        BY <3>1 DEF Busy
      <3>4. CASE steps[w] > 0
        BY <3>2, <3>3, <3>4 DEF BusyWithinElapsed
      <3>5. CASE ~(steps[w] > 0)
        <4>1. busyTimeMs[w] <= clock
          BY <3>5 DEF BusyWithinElapsed
        <4>2. busyTimeMs'[w] <= clock'
          BY <1>1, <1>2, <3>2, <4>1
        <4> QED
          BY <3>3, <3>5, <4>2
      <3> QED
        BY <3>4, <3>5
    <2> QED
      BY <2>1, <2>2
  <1> QED
    BY <1>3 DEF BusyWithinElapsed

LEMMA StepBusy ==
  ASSUME Regular, TypeOK, TypeOK', TimedTypeOK, Busy, Busy', MatchedWithin',
         BusyWithinElapsed, clock' >= clock, clock \in Nat,
         NEW w \in Workers, TimedStep(w), batch[w] # <<>>,
         NEW S, NEW V, NEW F, StepMoves(w, S, V, F)
  PROVE  BusyWithinElapsed'
  <1>1. clock' = stepAt[w] /\ clock' \in Int /\ Charged(Stepping(w))
    BY StepTimes
  <1>2. \A v \in Workers : busyTimeMs[v] \in Int /\ stepAt[v] \in Int
    BY DEF TimedTypeOK
  <1>3. busyTimeMs[w] <= clock'
    BY <1>1 DEF BusyWithinElapsed, Busy
  <1>4. ASSUME NEW v \in Workers
        PROVE  busyTimeMs'[v] <= IF steps'[v] > 0 THEN stepAt'[v] ELSE clock'
    <2>1. CASE v \in Stepping(w)
      <3>1. v = w /\ batch'[w] # <<>>
        BY <2>1 DEF Stepping
      <3>2. PICK d \in Int : /\ stepAt'[v] = clock' + d
                             /\ busyTimeMs'[v] = busyTimeMs[v] + d
        BY <1>1, <2>1, ChargedTakesTime
      <3>3. busyTimeMs'[v] <= stepAt'[v]
        BY <1>1, <1>2, <1>3, <3>1, <3>2
      <3>4. steps'[v] > 0
        BY <3>1 DEF Busy
      <3> QED
        BY <3>3, <3>4
    <2>2. CASE v \notin Stepping(w) /\ v = w
      <3>1. batch'[w] = <<>>
        BY <2>2 DEF Stepping
      <3>2. ~(steps'[w] > 0)
        BY <3>1 DEF Busy
      <3>3. busyTimeMs'[w] = busyTimeMs[w]
        BY <1>1, <2>2 DEF Charged
      <3> QED
        BY <1>3, <2>2, <3>2, <3>3
    <2>3. CASE v \notin Stepping(w) /\ v # w
      <3>1. batch'[v] = batch[v]
        BY <2>3 DEF StepMoves
      <3>2. stepAt'[v] = stepAt[v] /\ busyTimeMs'[v] = busyTimeMs[v]
        BY <1>1, <2>3 DEF Charged
      <3>3. steps'[v] > 0 <=> steps[v] > 0
        BY <3>1 DEF Busy
      <3>4. CASE steps[v] > 0
        BY <3>2, <3>3, <3>4 DEF BusyWithinElapsed
      <3>5. CASE ~(steps[v] > 0)
        <4>1. busyTimeMs[v] <= clock
          BY <3>5 DEF BusyWithinElapsed
        <4>2. busyTimeMs'[v] <= clock'
          BY <1>1, <1>2, <3>2, <4>1
        <4> QED
          BY <3>3, <3>5, <4>2
      <3> QED
        BY <3>4, <3>5
    <2> QED
      BY <2>1, <2>2, <2>3
  <1> QED
    BY <1>4 DEF BusyWithinElapsed

LEMMA NextBusyTime ==
  ASSUME Regular, Timely, BusyWithinElapsed, [TimedNext]_allVars
  PROVE  BusyWithinElapsed'
  <1>1. /\ Busy /\ Busy' /\ MatchedWithin' /\ clock' >= clock
        /\ TypeOK /\ TypeOK' /\ P!Inv /\ TimedTypeOK /\ ClockInv /\ ClockInv'
    BY NextTimely
  <1>2. clock \in Nat /\ clock' \in Nat
    BY <1>1 DEF ClockInv
  <1>3. ASSUME NEW r \in Requests, Arrival(r), TimedArrival(r)
        PROVE  BusyWithinElapsed'
    <2>1. PICK fill : ArrivalMoves(r, fill)
      BY <1>1, <1>3, ArrivalShape
    <2> QED
      BY <1>1, <1>2, <1>3, <2>1, ArrivalBusy
  <1>4. ASSUME NEW w \in Workers, TokenStepDone(w), TimedStep(w)
        PROVE  BusyWithinElapsed'
    <2>1. PICK S, V, F : StepMoves(w, S, V, F)
      BY <1>1, <1>4, StepShape
    <2>2. batch[w] # <<>>
      BY <1>1, <1>4 DEF Busy, TokenStepDone
    <2> QED
      BY <1>1, <1>2, <1>4, <2>1, <2>2, StepBusy
  <1>5. CASE UNCHANGED <<steps, stepAt, busyTimeMs>>
    <2>1. \A w \in Workers : busyTimeMs[w] \in Int
      BY <1>1 DEF TimedTypeOK
    <2>2. ASSUME NEW w \in Workers
          PROVE  busyTimeMs[w] <= IF steps[w] > 0 THEN stepAt[w] ELSE clock'
      <3>1. CASE steps[w] > 0
        BY <3>1 DEF BusyWithinElapsed
      <3>2. CASE ~(steps[w] > 0)
        BY <1>1, <1>2, <2>1, <3>2 DEF BusyWithinElapsed
      <3> QED
        BY <3>1, <3>2
    <2> QED
      BY <1>5, <2>2 DEF BusyWithinElapsed
  <1>6. PeriodicSample /\ UNCHANGED vars => UNCHANGED <<steps, stepAt, busyTimeMs>>
    BY DEF PeriodicSample, vars
  <1>7. UNCHANGED allVars => UNCHANGED <<steps, stepAt, busyTimeMs>>
    BY DEF allVars, vars, timedVars
  <1> QED
    BY <1>3, <1>4, <1>5, <1>6, <1>7, TimedSteps

(* A worker is never charged for more time than has passed when its step   *)
(* ends, so that no utilisation exceeds 1.                                 *)
THEOREM NeverOvercharged ==
  ASSUME Regular
  PROVE  TimedSpec => []BusyWithinElapsed
  <1>1. TimedInit => BusyWithinElapsed
    BY DEF TimedInit, Init, BusyWithinElapsed
  <1>2. Timely /\ BusyWithinElapsed /\ [TimedNext]_allVars => BusyWithinElapsed'
    BY NextBusyTime
  <1> QED
    BY <1>1, <1>2, TimelyAlways, PTL DEF TimedSpec

-----------------------------------------------------------------------------
(* A request in a batch was dispatched after it arrived, by the end of the *)
(* worker's step at time at it has taken the base time for each token it   *)
(* will then have, and its first token came after the dispatch.            *)
InService(r, at, disp, first, gen, base, now) ==
  /\ Scaled(ArrivalMs[r]) <= disp
  /\ disp + (gen + 1) * base <= at
  /\ gen > 0 => disp < first /\ first <= now

WasServed(r, disp, first, compl, base) ==
  /\ Scaled(ArrivalMs[r]) <= disp
  /\ disp < first /\ first <= compl
  /\ disp + OutputTokens[r] * base <= compl

ServiceInv ==
  /\ \A w \in Workers : \A r \in ToSet(batch[w]) :
       InService(r, stepAt[w], dispatchMs[r], firstTokenMs[r], generated[r],
                 Scaled(timing.baseMs), clock)
  /\ \A r \in done :
       WasServed(r, dispatchMs[r], firstTokenMs[r], completionMs[r],
                 Scaled(timing.baseMs))
  /\ \A r \in pending \cup ToSet(queue) : firstTokenMs[r] = 0

LEMMA BaseTimes ==
  ASSUME NEW base \in Nat, NEW n \in Nat
  PROVE  /\ (n + 1) * base \in Nat
         /\ (n + 1) * base = n * base + base
         /\ n * base \in Nat
         /\ \A m \in Nat : m <= n => m * base <= n * base
  <1>1. n * base \in Nat /\ (n + 1) * base \in Nat
    BY NatProduct
  <1>2. (n + 1) * base = n * base + base
    OBVIOUS
  <1>3. ASSUME NEW m \in Nat, m <= n
        PROVE  m * base <= n * base
    <2>1. (n - m) \in Nat /\ m * base \in Nat
      BY <1>3, NatProduct
    <2>2. (n - m) * base \in Nat
      BY <2>1, NatProduct
    <2>3. n * base = m * base + (n - m) * base
      OBVIOUS
    <2> QED
      BY <1>1, <2>1, <2>2, <2>3
  <1> QED
    BY <1>1, <1>2, <1>3

LEMMA JoinedService ==
  ASSUME NEW r \in Requests, NEW now \in Int, NEW base \in Nat, NEW d \in Int,
         d >= base, NEW first \in Int, Scaled(ArrivalMs[r]) <= now
  PROVE  InService(r, now + d, now, first, 0, base, now)
  <1>1. (0 + 1) * base = base
    OBVIOUS
  <1> QED
    BY <1>1 DEF InService

LEMMA WaitedService ==
  ASSUME NEW r \in Requests, NEW at \in Int, NEW disp \in Int, NEW first \in Int,
         NEW gen \in Nat, NEW base \in Nat, NEW now \in Int, NEW later \in Int,
         now <= later, InService(r, at, disp, first, gen, base, now)
  PROVE  InService(r, at, disp, first, gen, base, later)
  BY DEF InService

LEMMA AdvancedService ==
  ASSUME NEW r \in Requests, NEW at \in Int, NEW disp \in Int, NEW first \in Int,
         NEW gen \in Nat, NEW base \in Nat, base > 0, NEW now \in Int,
         NEW d \in Int, d >= base, now <= at,
         InService(r, at, disp, first, gen, base, now)
  PROVE  InService(r, at + d, disp, IF gen = 0 THEN at ELSE first, gen + 1,
                   base, at)
  <1> DEFINE t == (gen + 1) * base
             u == (gen + 1 + 1) * base
             f == IF gen = 0 THEN at ELSE first
  <1>1. gen + 1 \in Nat
    OBVIOUS
  <1>2. t \in Nat /\ u = t + base /\ t = gen * base + base /\ gen * base \in Nat
    BY <1>1, BaseTimes
  <1>3. Scaled(ArrivalMs[r]) <= disp /\ disp + t <= at
        /\ (gen > 0 => disp < first /\ first <= now)
    BY DEF InService
  <1> HIDE DEF t, u
  <1>4. disp < at
    BY <1>2, <1>3
  <1>5. disp < f /\ f <= at
    BY <1>3, <1>4
  <1>6. disp + u <= at + d
    BY <1>2, <1>3
  <1> QED
    BY <1>3, <1>5, <1>6 DEF InService, u, f

LEMMA FinishedService ==
  ASSUME NEW r \in Requests, NEW at \in Int, NEW disp \in Int, NEW first \in Int,
         NEW gen \in Nat, NEW base \in Nat, base > 0, NEW now \in Int, now <= at,
         gen + 1 >= OutputTokens[r],
         InService(r, at, disp, first, gen, base, now)
  PROVE  WasServed(r, disp, IF gen = 0 THEN at ELSE first, at, base)
  <1> DEFINE t == (gen + 1) * base
             f == IF gen = 0 THEN at ELSE first
             o == OutputTokens[r] * base
  <1>1. gen + 1 \in Nat /\ OutputTokens[r] \in Nat
    BY ModelAssumption
  <1>2. /\ t \in Nat /\ t = gen * base + base /\ gen * base \in Nat
        /\ o <= t /\ o \in Nat
    BY <1>1, BaseTimes
  <1>3. Scaled(ArrivalMs[r]) <= disp /\ disp + t <= at
        /\ (gen > 0 => disp < first /\ first <= now)
    BY DEF InService
  <1> HIDE DEF t, o
  <1>4. disp < at
    BY <1>2, <1>3
  <1>5. disp < f /\ f <= at
    BY <1>3, <1>4
  <1>6. disp + o <= at
    BY <1>2, <1>3
  <1> QED
    BY <1>3, <1>5, <1>6 DEF WasServed, o, f

LEMMA TimeTypes ==
  ASSUME TypeOK, TimedTypeOK
  PROVE  /\ \A w \in Workers : ToSet(batch[w]) \in SUBSET Requests
                               /\ stepAt[w] \in Int
         /\ \A r \in Requests : /\ dispatchMs[r] \in Int /\ firstTokenMs[r] \in Int
                                /\ completionMs[r] \in Int /\ generated[r] \in Nat
         /\ done \in SUBSET Requests /\ pending \in SUBSET Requests
         /\ ToSet(queue) \in SUBSET Requests
  <1>1. /\ \A w \in Workers : batch[w] \in Seq(Requests)
        /\ queue \in Seq(Requests)
    BY DEF TypeOK
  <1>2. /\ \A w \in Workers : ToSet(batch[w]) \in SUBSET Requests
        /\ ToSet(queue) \in SUBSET Requests
    BY <1>1, MembersOf
  <1> QED
    BY <1>2 DEF TypeOK, TimedTypeOK

(* Where a request is, it is not elsewhere as well.                        *)
LEMMA Elsewhere ==
  ASSUME TypeOK, P!Inv
  PROVE  /\ \A r \in pending \cup ToSet(queue) : generated[r] = 0 /\ r \notin done
         /\ \A r \in pending : r \notin ToSet(queue)
         /\ \A w \in Workers : \A r \in ToSet(batch[w]) :
              /\ r \notin pending /\ r \notin ToSet(queue) /\ r \notin done
              /\ \A v \in Workers : v # w => r \notin ToSet(batch[v])
  <1>1. P!ExactlyOnePlace /\ P!TokenAccounting
    BY DEF P!Inv
  <1>2. \A w \in Workers : \A r \in ToSet(batch[w]) : r \in P!Placed
    BY DEF P!Placed
  <1>3. /\ pending \cap (ToSet(queue) \cup P!Placed \cup done) = {}
        /\ ToSet(queue) \cap (P!Placed \cup done) = {}
        /\ P!Placed \cap done = {}
        /\ \A v, w \in Workers : v # w => ToSet(batch[v]) \cap ToSet(batch[w]) = {}
    BY <1>1 DEF P!ExactlyOnePlace
  <1>4. pending \in SUBSET Requests /\ ToSet(queue) \in SUBSET Requests
    BY MembersOf DEF TypeOK
  <1>5. \A r \in pending \cup ToSet(queue) : generated[r] = 0
    BY <1>1, <1>4 DEF P!TokenAccounting
  <1> QED
    BY <1>2, <1>3, <1>5

LEMMA ArrivalService ==
  ASSUME Regular, TypeOK, TypeOK', P!Inv, TimedTypeOK, TimedTypeOK', ClockInv,
         ClockInv', MatchedWithin', clock' >= clock, ServiceInv,
         NEW r \in Requests, TimedArrival(r), NEW fill, ArrivalMoves(r, fill)
  PROVE  ServiceInv'
  <1> DEFINE base == Scaled(timing.baseMs)
  <1>1. /\ clock' = Scaled(ArrivalMs[r]) /\ clock' \in Int
        /\ Charged(Joining(fill))
        /\ dispatchMs' = [x \in Requests |->
                            IF \E w \in Workers : x \in fill[w] THEN clock'
                            ELSE dispatchMs[x]]
        /\ timing' = timing /\ firstTokenMs' = firstTokenMs
        /\ completionMs' = completionMs
    BY ArrivalTimes
  <1>2. /\ r \in pending /\ pending' = pending \ {r}
        /\ fill \in [Workers -> SUBSET (ToSet(queue) \cup {r})]
        /\ ToSet(queue') = (ToSet(queue) \cup {r}) \ UNION {fill[w] : w \in Workers}
        /\ generated' = generated /\ done' = done
    BY DEF ArrivalMoves
  <1>3. base \in Nat /\ base > 0 /\ Scaled(timing'.baseMs) = base
    BY <1>1, BasePositive
  <1>4. clock \in Nat
    BY DEF ClockInv
  <1>5. \A x \in ToSet(queue) \cup {r} :
          x \in Requests /\ generated[x] = 0 /\ x \notin done
    BY <1>2, TimeTypes, Elsewhere
  <1> HIDE DEF base
  <1>6. ASSUME NEW w \in Workers, NEW x \in ToSet(batch'[w])
        PROVE  InService(x, stepAt'[w], dispatchMs'[x], firstTokenMs'[x],
                         generated'[x], base, clock')
    <2>1. CASE fill[w] # {}
      <3>1. w \in Joining(fill) /\ ToSet(batch'[w]) = fill[w]
        BY <2>1 DEF Joining, ArrivalMoves
      <3>2. x \in fill[w] /\ x \in ToSet(queue) \cup {r}
        BY <1>2, <1>6, <3>1
      <3>3. x \in Requests /\ generated'[x] = 0 /\ dispatchMs'[x] = clock'
        BY <1>1, <1>2, <1>5, <3>2
      <3>4. x \notin pending'
        BY <1>2, <3>2, Elsewhere
      <3>5. Scaled(ArrivalMs[x]) <= clock'
        BY <3>3, <3>4 DEF ClockInv
      <3>6. PICK d \in Int : d >= base /\ stepAt'[w] = clock' + d
        BY <1>1, <3>1, ChargedTakesTime DEF base
      <3>7. firstTokenMs'[x] \in Int
        BY <1>1, <3>3, TimeTypes
      <3>8. InService(x, clock' + d, clock', firstTokenMs'[x], 0, base, clock')
        BY <1>1, <1>3, <3>3, <3>5, <3>6, <3>7, JoinedService
      <3> QED
        BY <3>3, <3>6, <3>8
    <2>2. CASE fill[w] = {}
      <3>1. batch'[w] = batch[w] /\ w \in Workers \ Joining(fill)
        BY <2>2 DEF Joining, ArrivalMoves
      <3>2. stepAt'[w] = stepAt[w]
        BY <1>1, <3>1 DEF Charged
      <3>3. x \in ToSet(batch[w]) /\ x \in Requests
        BY <1>6, <3>1, TimeTypes
      <3>4. \A v \in Workers : x \notin fill[v]
        BY <1>2, <3>3, Elsewhere
      <3>5. dispatchMs'[x] = dispatchMs[x] /\ firstTokenMs'[x] = firstTokenMs[x]
            /\ generated'[x] = generated[x]
        BY <1>1, <1>2, <3>3, <3>4
      <3>6. InService(x, stepAt[w], dispatchMs[x], firstTokenMs[x], generated[x],
                      base, clock)
        BY <3>3 DEF ServiceInv, base
      <3>7. /\ stepAt[w] \in Int /\ dispatchMs[x] \in Int
            /\ firstTokenMs[x] \in Int /\ generated[x] \in Nat
        BY <3>3, TimeTypes
      <3>8. InService(x, stepAt[w], dispatchMs[x], firstTokenMs[x], generated[x],
                      base, clock')
        <4> DEFINE at == stepAt[w]
                   disp == dispatchMs[x]
                   first == firstTokenMs[x]
                   gen == generated[x]
        <4>1. at \in Int /\ disp \in Int /\ first \in Int /\ gen \in Nat /\ x \in Requests
          BY <3>3, <3>7
        <4>2. InService(x, at, disp, first, gen, base, clock)
          BY <3>6
        <4>3. clock \in Int /\ clock' \in Int /\ clock <= clock' /\ base \in Nat
          BY <1>1, <1>3, <1>4
        <4> HIDE DEF at, disp, first, gen
        <4>4. InService(x, at, disp, first, gen, base, clock')
          BY <4>1, <4>2, <4>3, WaitedService
        <4> QED
          BY <4>4 DEF at, disp, first, gen
      <3> QED
        BY <3>2, <3>5, <3>8
    <2> QED
      BY <2>1, <2>2
  <1>7. ASSUME NEW x \in done'
        PROVE  WasServed(x, dispatchMs'[x], firstTokenMs'[x], completionMs'[x],
                         base)
    <2>1. x \in done /\ x \in Requests
      BY <1>2, TimeTypes
    <2>2. \A w \in Workers : x \notin fill[w]
      BY <1>2, <1>5, <2>1
    <2>3. /\ dispatchMs'[x] = dispatchMs[x] /\ firstTokenMs'[x] = firstTokenMs[x]
          /\ completionMs'[x] = completionMs[x]
      BY <1>1, <2>1, <2>2
    <2> QED
      BY <2>1, <2>3 DEF ServiceInv, base
  <1>8. \A x \in pending' \cup ToSet(queue') : firstTokenMs'[x] = 0
    <2>1. \A x \in pending' \cup ToSet(queue') : x \in pending \cup ToSet(queue)
      BY <1>2
    <2> QED
      BY <1>1, <2>1 DEF ServiceInv
  <1> QED
    BY <1>3, <1>6, <1>7, <1>8 DEF ServiceInv

LEMMA StepService ==
  ASSUME Regular, TypeOK, TypeOK', P!Inv, TimedTypeOK, TimedTypeOK', ClockInv,
         ClockInv', MatchedWithin', clock' >= clock, ServiceInv,
         NEW w \in Workers, TimedStep(w), batch[w] # <<>>,
         NEW S, NEW V, NEW F, StepMoves(w, S, V, F)
  PROVE  ServiceInv'
  <1> DEFINE base == Scaled(timing.baseMs)
  <1>1. /\ clock' = stepAt[w] /\ clock' \in Int
        /\ Charged(Stepping(w)) /\ timing' = timing
        /\ \A x \in Requests :
              /\ dispatchMs'[x] = IF x \in F THEN clock' ELSE dispatchMs[x]
              /\ firstTokenMs'[x] =
                   IF x \in V THEN 0
                   ELSE IF x \in ToSet(batch[w]) /\ generated[x] = 0
                   THEN clock' ELSE firstTokenMs[x]
              /\ completionMs'[x] = IF x \in S THEN clock' ELSE completionMs[x]
    BY StepTimes
  <1>2. /\ pending' = pending
        /\ S \subseteq ToSet(batch[w]) /\ V \subseteq ToSet(batch[w]) \ S
        /\ F \subseteq ToSet(queue) \cup V
        /\ ToSet(queue') = (ToSet(queue) \cup V) \ F
        /\ done' = done \cup S
        /\ F = {x \in ToSet(batch'[w]) : generated'[x] = 0}
        /\ ToSet(batch'[w]) = (ToSet(batch[w]) \ (S \cup V)) \cup F
        /\ \A v \in Workers : v # w => batch'[v] = batch[v]
        /\ \A x \in Requests :
             generated'[x] = IF x \in V THEN 0
                             ELSE IF x \in ToSet(batch[w]) THEN generated[x] + 1
                             ELSE generated[x]
        /\ \A x \in S : generated'[x] >= OutputTokens[x]
    BY DEF StepMoves
  <1>3. base \in Nat /\ base > 0 /\ Scaled(timing'.baseMs) = base
    BY <1>1, BasePositive
  <1>4. clock \in Nat
    BY DEF ClockInv
  <1>5. ToSet(batch[w]) \in SUBSET Requests /\ ToSet(queue) \in SUBSET Requests
        /\ done \in SUBSET Requests /\ stepAt[w] \in Int
    BY TimeTypes
  <1> HIDE DEF base
  <1>6. ASSUME NEW x \in ToSet(batch[w])
        PROVE  /\ x \in Requests /\ x \notin done /\ x \notin ToSet(queue)
               /\ x \notin pending
               /\ dispatchMs[x] \in Int /\ firstTokenMs[x] \in Int
               /\ generated[x] \in Nat
               /\ InService(x, stepAt[w], dispatchMs[x], firstTokenMs[x],
                            generated[x], base, clock)
    BY <1>6, TimeTypes, Elsewhere DEF ServiceInv, base
  <1>7. ASSUME NEW x \in ToSet(batch'[w])
        PROVE  InService(x, stepAt'[w], dispatchMs'[x], firstTokenMs'[x],
                         generated'[x], base, clock')
    <2>1. w \in Stepping(w)
      <3>1. batch'[w] # <<>>
        <4>1. batch'[w] \in Seq(Requests)
          BY DEF TypeOK
        <4> QED
          BY <1>7, <4>1, MembersOf
      <3> QED
        BY <3>1 DEF Stepping
    <2>2. PICK d \in Int : d >= base /\ stepAt'[w] = clock' + d
      BY <1>1, <2>1, ChargedTakesTime DEF base
    <2>3. CASE x \in F
      <3>1. x \in Requests /\ generated'[x] = 0
        BY <1>2, <1>5, <2>3
      <3>2. dispatchMs'[x] = clock' /\ firstTokenMs'[x] \in Int
        <4>1. firstTokenMs'[x] \in Int
          BY <3>1 DEF TimedTypeOK
        <4> QED
          BY <1>1, <2>3, <3>1, <4>1
      <3>3. x \notin pending'
        BY <1>2, <2>3, Elsewhere
      <3>4. Scaled(ArrivalMs[x]) <= clock'
        BY <3>1, <3>3 DEF ClockInv
      <3>5. InService(x, clock' + d, clock', firstTokenMs'[x], 0, base, clock')
        BY <1>1, <1>3, <2>2, <3>1, <3>2, <3>4, JoinedService
      <3> QED
        BY <2>2, <3>1, <3>2, <3>5
    <2>4. CASE x \notin F
      <3>1. x \in ToSet(batch[w]) /\ x \notin V /\ x \notin S
        BY <1>2, <1>7, <2>4
      <3> DEFINE g == generated[x]
                 at == stepAt[w]
                 disp == dispatchMs[x]
                 first == firstTokenMs[x]
      <3>2. /\ generated'[x] = g + 1 /\ dispatchMs'[x] = disp
            /\ firstTokenMs'[x] = IF g = 0 THEN at ELSE first
        BY <1>1, <1>2, <1>5, <2>4, <3>1
      <3>3. /\ x \in Requests /\ at \in Int /\ disp \in Int /\ first \in Int
            /\ g \in Nat /\ InService(x, at, disp, first, g, base, clock)
        BY <1>5, <1>6, <3>1
      <3>4. clock \in Int /\ clock <= at /\ d \in Int /\ d >= base
        BY <1>1, <1>4, <2>2
      <3>5. clock' = at
        BY <1>1
      <3> HIDE DEF g, at, disp, first
      <3>6. InService(x, at + d, disp, IF g = 0 THEN at ELSE first, g + 1, base, at)
        BY <1>3, <3>3, <3>4, AdvancedService
      <3> QED
        BY <2>2, <3>2, <3>5, <3>6
    <2> QED
      BY <2>3, <2>4
  <1>8. ASSUME NEW v \in Workers, v # w, NEW x \in ToSet(batch'[v])
        PROVE  InService(x, stepAt'[v], dispatchMs'[x], firstTokenMs'[x],
                         generated'[x], base, clock')
    <2>1. x \in ToSet(batch[v]) /\ x \in Requests
      BY <1>2, <1>8, TimeTypes
    <2>2. x \notin ToSet(batch[w]) /\ x \notin ToSet(queue)
      BY <1>8, <2>1, Elsewhere
    <2>3. x \notin V /\ x \notin F
      BY <1>2, <2>2
    <2>4. dispatchMs'[x] = dispatchMs[x] /\ firstTokenMs'[x] = firstTokenMs[x]
          /\ generated'[x] = generated[x]
      BY <1>1, <1>2, <2>1, <2>2, <2>3
    <2>5. stepAt'[v] = stepAt[v]
      <3>1. v \in Workers \ Stepping(w)
        BY <1>8 DEF Stepping
      <3> QED
        BY <1>1, <3>1 DEF Charged
    <2>6. InService(x, stepAt[v], dispatchMs[x], firstTokenMs[x], generated[x],
                    base, clock)
      BY <2>1 DEF ServiceInv, base
    <2>7. /\ stepAt[v] \in Int /\ dispatchMs[x] \in Int
          /\ firstTokenMs[x] \in Int /\ generated[x] \in Nat
      BY <2>1, TimeTypes
    <2>8. InService(x, stepAt[v], dispatchMs[x], firstTokenMs[x], generated[x],
                    base, clock')
      <3> DEFINE at == stepAt[v]
                 disp == dispatchMs[x]
                 first == firstTokenMs[x]
                 gen == generated[x]
      <3>1. at \in Int /\ disp \in Int /\ first \in Int /\ gen \in Nat /\ x \in Requests
        BY <2>1, <2>7
      <3>2. InService(x, at, disp, first, gen, base, clock)
        BY <2>6
      <3>3. clock \in Int /\ clock' \in Int /\ clock <= clock' /\ base \in Nat
        BY <1>1, <1>3, <1>4
      <3> HIDE DEF at, disp, first, gen
      <3>4. InService(x, at, disp, first, gen, base, clock')
        BY <3>1, <3>2, <3>3, WaitedService
      <3> QED
        BY <3>4 DEF at, disp, first, gen
    <2> QED
      BY <2>4, <2>5, <2>8
  <1>9. ASSUME NEW x \in done'
        PROVE  WasServed(x, dispatchMs'[x], firstTokenMs'[x], completionMs'[x],
                         base)
    <2>1. CASE x \in S
      <3>1. x \in ToSet(batch[w]) /\ x \notin V /\ x \notin F
        BY <1>2, <1>6, <2>1
      <3> DEFINE g == generated[x]
                 at == stepAt[w]
                 disp == dispatchMs[x]
                 first == firstTokenMs[x]
      <3>2. /\ dispatchMs'[x] = disp /\ completionMs'[x] = at
            /\ firstTokenMs'[x] = IF g = 0 THEN at ELSE first
            /\ g + 1 >= OutputTokens[x]
        BY <1>1, <1>2, <1>5, <2>1, <3>1
      <3>3. /\ x \in Requests /\ at \in Int /\ disp \in Int /\ first \in Int
            /\ g \in Nat /\ InService(x, at, disp, first, g, base, clock)
        BY <1>5, <1>6, <3>1
      <3>4. clock \in Int /\ clock <= at
        BY <1>1, <1>4
      <3> HIDE DEF g, at, disp, first
      <3>5. WasServed(x, disp, IF g = 0 THEN at ELSE first, at, base)
        BY <1>3, <3>2, <3>3, <3>4, FinishedService
      <3> QED
        BY <3>2, <3>5
    <2>2. CASE x \notin S
      <3>1. x \in done /\ x \in Requests
        BY <1>2, <1>5, <1>9, <2>2
      <3>2. x \notin ToSet(batch[w]) /\ x \notin ToSet(queue)
        BY <3>1, <1>6, Elsewhere
      <3>3. x \notin V /\ x \notin F
        BY <1>2, <3>2
      <3>4. /\ dispatchMs'[x] = dispatchMs[x] /\ firstTokenMs'[x] = firstTokenMs[x]
            /\ completionMs'[x] = completionMs[x]
        BY <1>1, <2>2, <3>1, <3>2, <3>3
      <3> QED
        BY <3>1, <3>4 DEF ServiceInv, base
    <2> QED
      BY <2>1, <2>2
  <1>10. ASSUME NEW x \in pending' \cup ToSet(queue')
         PROVE  firstTokenMs'[x] = 0
    <2>1. CASE x \in V
      BY <1>1, <1>2, <1>5, <2>1
    <2>2. CASE x \notin V
      <3>1. x \in pending \cup ToSet(queue) /\ x \in Requests
        BY <1>2, <1>10, <2>2, TimeTypes
      <3>2. x \notin ToSet(batch[w])
        BY <1>6, <3>1
      <3>3. firstTokenMs[x] = 0
        BY <3>1 DEF ServiceInv
      <3> QED
        BY <1>1, <2>2, <3>1, <3>2, <3>3
    <2> QED
      BY <2>1, <2>2
  <1> QED
    BY <1>3, <1>7, <1>8, <1>9, <1>10 DEF ServiceInv

LEMMA NextService ==
  ASSUME Regular, Timely, ServiceInv, [TimedNext]_allVars
  PROVE  ServiceInv'
  <1>1. /\ Busy /\ MatchedWithin' /\ clock' >= clock
        /\ TypeOK /\ TypeOK' /\ P!Inv /\ TimedTypeOK /\ ClockInv /\ ClockInv'
        /\ Timely'
    BY NextTimely
  <1>2. TimedTypeOK'
    BY <1>1 DEF Timely, TimedTypes
  <1>3. ASSUME NEW r \in Requests, Arrival(r), TimedArrival(r)
        PROVE  ServiceInv'
    <2>1. PICK fill : ArrivalMoves(r, fill)
      BY <1>1, <1>3, ArrivalShape
    <2> QED
      BY <1>1, <1>2, <1>3, <2>1, ArrivalService
  <1>4. ASSUME NEW w \in Workers, TokenStepDone(w), TimedStep(w)
        PROVE  ServiceInv'
    <2>1. PICK S, V, F : StepMoves(w, S, V, F)
      BY <1>1, <1>4, StepShape
    <2>2. batch[w] # <<>>
      BY <1>1, <1>4 DEF Busy, TokenStepDone
    <2> QED
      BY <1>1, <1>2, <1>4, <2>1, <2>2, StepService
  <1>5. CASE UNCHANGED <<batch, stepAt, dispatchMs, firstTokenMs, generated,
                         timing, done, completionMs, pending, queue>>
    <2>1. ASSUME NEW w \in Workers, NEW x \in ToSet(batch[w])
          PROVE  InService(x, stepAt[w], dispatchMs[x], firstTokenMs[x],
                           generated[x], Scaled(timing.baseMs), clock')
      <3> DEFINE base == Scaled(timing.baseMs)
                 at == stepAt[w]
                 disp == dispatchMs[x]
                 first == firstTokenMs[x]
                 gen == generated[x]
      <3>1. /\ x \in Requests /\ at \in Int /\ disp \in Int /\ first \in Int
            /\ gen \in Nat
        BY <1>1, TimeTypes
      <3>2. InService(x, at, disp, first, gen, base, clock)
        BY DEF ServiceInv
      <3>3. clock \in Int /\ clock' \in Int /\ clock <= clock' /\ base \in Nat
        BY <1>1, BasePositive DEF ClockInv
      <3> HIDE DEF base, at, disp, first, gen
      <3>4. InService(x, at, disp, first, gen, base, clock')
        BY <3>1, <3>2, <3>3, WaitedService
      <3> QED
        BY <3>4 DEF base, at, disp, first, gen
    <2> QED
      BY <1>5, <2>1 DEF ServiceInv
  <1>6. PeriodicSample /\ UNCHANGED vars =>
          UNCHANGED <<batch, stepAt, dispatchMs, firstTokenMs, generated,
                      timing, done, completionMs, pending, queue>>
    BY DEF PeriodicSample, vars
  <1>7. UNCHANGED allVars =>
          UNCHANGED <<batch, stepAt, dispatchMs, firstTokenMs, generated,
                      timing, done, completionMs, pending, queue>>
    BY DEF allVars, vars, timedVars
  <1> QED
    BY <1>3, <1>4, <1>5, <1>6, <1>7, TimedSteps

LEMMA ServiceAlways ==
  ASSUME Regular
  PROVE  TimedSpec => [](Timely /\ ServiceInv)
  <1>1. TimedInit => ServiceInv
    <2> SUFFICES ASSUME TimedInit PROVE ServiceInv
      OBVIOUS
    <2>1. /\ \A w \in Workers : batch[w] = <<>>
          /\ queue = <<>> /\ pending = Requests /\ done = {}
          /\ \A r \in Requests : firstTokenMs[r] = 0
      BY DEF TimedInit, Init
    <2>2. ToSet(<<>>) = {}
      BY DEF ToSet
    <2> QED
      BY <2>1, <2>2 DEF ServiceInv
  <1>2. Timely /\ ServiceInv /\ [TimedNext]_allVars => ServiceInv'
    BY NextService
  <1> QED
    BY <1>1, <1>2, TimelyAlways, PTL DEF TimedSpec

(* However often it was preempted, a completed request was dispatched      *)
(* after it arrived and had its first token after the dispatch that led to *)
(* its completion; whoever waits has no first token.                       *)
THEOREM TimestampsInOrder ==
  ASSUME Regular
  PROVE  TimedSpec => []TimestampsOrdered
  <1>1. ServiceInv => TimestampsOrdered
    BY DEF ServiceInv, WasServed, TimestampsOrdered
  <1> QED
    BY <1>1, ServiceAlways, PTL

(* Between the last dispatch of a request and its completion lies the base *)
(* time of a step for each of its tokens: no step serves a request twice,  *)
(* and none is shorter than the timing model says.                         *)
THEOREM EachTokenTakesTime ==
  ASSUME Regular
  PROVE  TimedSpec => []TokensTakeTime
  <1>1. Timely /\ ServiceInv => TokensTakeTime
    <2> SUFFICES ASSUME Timely, ServiceInv, NEW r \in done
                 PROVE  completionMs[r] - dispatchMs[r]
                          >= OutputTokens[r] * Scaled(timing.baseMs)
      BY DEF TokensTakeTime
    <2> DEFINE t == OutputTokens[r] * Scaled(timing.baseMs)
    <2>1. r \in Requests /\ dispatchMs[r] \in Int /\ completionMs[r] \in Int
      BY TimeTypes DEF Timely, TimedTypes
    <2>2. t \in Nat
      <3>1. Scaled(timing.baseMs) \in Nat
        BY BasePositive DEF Timely, TimedTypes
      <3> QED
        BY <2>1, <3>1, ModelAssumption, NatProduct
    <2>3. dispatchMs[r] + t <= completionMs[r]
      BY DEF ServiceInv, WasServed
    <2> HIDE DEF t
    <2>4. completionMs[r] - dispatchMs[r] >= t
      BY <2>1, <2>2, <2>3
    <2> QED
      BY <2>4 DEF t
  <1> QED
    BY <1>1, ServiceAlways, PTL

-----------------------------------------------------------------------------
(* The handlers use the event queue as they should.                        *)
ArrivalEvent(r) == [timeMs |-> Scaled(ArrivalMs[r]), id |-> <<"arrival", r>>]
StepEvent(w, at) == [timeMs |-> at, id |-> <<"step", w>>]
SampleEvent(t) == [timeMs |-> t, id |-> <<"sample", 0>>]

LEMMA EventKinds ==
  ASSUME NEW e
  PROVE  e \in Events <=>
           \/ \E r \in pending : e = ArrivalEvent(r)
           \/ \E w \in Workers : steps[w] > 0 /\ e = StepEvent(w, stepAt[w])
           \/ \E t \in sampleAt : e = SampleEvent(t)
  BY DEF Events, ArrivalEvent, StepEvent, SampleEvent

LEMMA NextEventKinds ==
  ASSUME NEW e
  PROVE  e \in Events' <=>
           \/ \E r \in pending' : e = ArrivalEvent(r)
           \/ \E w \in Workers : steps'[w] > 0 /\ e = StepEvent(w, stepAt'[w])
           \/ \E t \in sampleAt' : e = SampleEvent(t)
  BY DEF Events, ArrivalEvent, StepEvent, SampleEvent

LEMMA EventsDiffer ==
  /\ \A r, s : ArrivalEvent(r) = ArrivalEvent(s) => r = s
  /\ \A v, w, s, t : StepEvent(v, s) = StepEvent(w, t) => v = w /\ s = t
  /\ \A s, t : SampleEvent(s) = SampleEvent(t) => s = t
  /\ \A r, w, s, t : /\ ArrivalEvent(r) # StepEvent(w, s)
                     /\ ArrivalEvent(r) # SampleEvent(t)
                     /\ StepEvent(w, s) # SampleEvent(t)
  /\ \A r : ArrivalEvent(r).timeMs = Scaled(ArrivalMs[r])
  /\ \A w, t : StepEvent(w, t).timeMs = t
  /\ \A t : SampleEvent(t).timeMs = t
  BY DEF ArrivalEvent, StepEvent, SampleEvent

(* There is one sample outstanding at most, and none without an interval.  *)
SampleInv ==
  /\ \A s, t \in sampleAt : s = t
  /\ sampleAt # {} => SampleIntervalMs > 0

LEMMA ArrivalFires ==
  ASSUME Regular, TypeOK', TimedTypeOK, Busy, Busy', MatchedWithin',
         NEW r \in Requests, TimedArrival(r), NEW fill, ArrivalMoves(r, fill)
  PROVE  \E e \in Events : Bag!Fire(e)
  <1> DEFINE e == ArrivalEvent(r)
  <1>1. /\ clock' = Scaled(ArrivalMs[r]) /\ clock' \in Int
        /\ Charged(Joining(fill)) /\ sampleAt' = sampleAt
    BY ArrivalTimes
  <1>2. r \in pending /\ pending' = pending \ {r}
    BY DEF ArrivalMoves
  <1>3. e \in Events
    BY <1>2, EventKinds
  <1>4. clock' = e.timeMs /\ \A f \in Events : e.timeMs <= f.timeMs
    BY <1>1, EventsDiffer DEF TimedArrival, Fires
  <1>5. ASSUME NEW w \in Workers, steps[w] > 0
        PROVE  steps'[w] > 0 /\ stepAt'[w] = stepAt[w]
    <2>1. batch[w] # <<>>
      BY <1>5 DEF Busy
    <2>2. w \in Workers \ Joining(fill) /\ batch'[w] = batch[w]
      BY <2>1 DEF ArrivalMoves, Joining
    <2> QED
      BY <1>1, <2>1, <2>2 DEF Busy, Charged
  <1>6. ASSUME NEW w \in Workers, steps'[w] > 0, ~(steps[w] > 0)
        PROVE  stepAt'[w] >= clock'
    <2>1. batch[w] = <<>> /\ batch'[w] # <<>>
      BY <1>6 DEF Busy
    <2>2. w \in Joining(fill)
      BY <2>1 DEF ArrivalMoves, Joining
    <2>3. PICK d \in Int : d > 0 /\ stepAt'[w] = clock' + d
      BY <1>1, <2>2, ChargedTakesTime
    <2> QED
      BY <1>1, <2>3
  <1> HIDE DEF e
  <1>7. Events \ {e} \subseteq Events'
    <2> SUFFICES ASSUME NEW f \in Events, f # e PROVE f \in Events'
      OBVIOUS
    <2>1. CASE \E x \in pending : f = ArrivalEvent(x)
      BY <1>2, <2>1, NextEventKinds DEF e
    <2>2. CASE \E w \in Workers : steps[w] > 0 /\ f = StepEvent(w, stepAt[w])
      BY <1>5, <2>2, NextEventKinds
    <2>3. CASE \E t \in sampleAt : f = SampleEvent(t)
      BY <1>1, <2>3, NextEventKinds
    <2> QED
      BY <2>1, <2>2, <2>3, EventKinds
  <1>8. ASSUME NEW f \in Events' \ Events
        PROVE  f.timeMs >= clock'
    <2>1. CASE \E x \in pending' : f = ArrivalEvent(x)
      BY <1>2, <1>8, <2>1, EventKinds
    <2>2. CASE \E w \in Workers : steps'[w] > 0 /\ f = StepEvent(w, stepAt'[w])
      <3>1. PICK w \in Workers : steps'[w] > 0 /\ f = StepEvent(w, stepAt'[w])
        BY <2>2
      <3>2. ~(steps[w] > 0)
        BY <1>5, <1>8, <3>1, EventKinds
      <3> QED
        BY <1>6, <3>1, <3>2, EventsDiffer
    <2>3. CASE \E t \in sampleAt' : f = SampleEvent(t)
      BY <1>1, <1>8, <2>3, EventKinds
    <2> QED
      BY <2>1, <2>2, <2>3, NextEventKinds
  <1>9. e \notin Events'
    BY <1>2, EventsDiffer, NextEventKinds DEF e
  <1> QED
    BY <1>3, <1>4, <1>7, <1>8, <1>9 DEF Bag!Fire, Until

LEMMA StepFires ==
  ASSUME Regular, TypeOK, TypeOK', TimedTypeOK, Busy, Busy', MatchedWithin',
         NEW w \in Workers, TimedStep(w), steps[w] > 0,
         NEW S, NEW V, NEW F, StepMoves(w, S, V, F)
  PROVE  \E e \in Events : Bag!Fire(e)
  <1> DEFINE e == StepEvent(w, stepAt[w])
  <1>1. /\ clock' = stepAt[w] /\ clock' \in Int
        /\ Charged(Stepping(w)) /\ sampleAt' = sampleAt
    BY StepTimes
  <1>2. pending' = pending /\ \A v \in Workers : v # w => batch'[v] = batch[v]
    BY DEF StepMoves
  <1>3. e \in Events
    BY EventKinds
  <1>4. clock' = e.timeMs /\ \A f \in Events : e.timeMs <= f.timeMs
    BY <1>1, EventsDiffer DEF TimedStep, Fires
  <1>5. ASSUME NEW v \in Workers, v # w
        PROVE  (steps'[v] > 0 <=> steps[v] > 0) /\ stepAt'[v] = stepAt[v]
    <2>1. v \in Workers \ Stepping(w) /\ batch'[v] = batch[v]
      BY <1>2, <1>5 DEF Stepping
    <2> QED
      BY <1>1, <2>1 DEF Busy, Charged
  <1>6. ASSUME steps'[w] > 0
        PROVE  stepAt'[w] > clock'
    <2>1. w \in Stepping(w)
      BY <1>6 DEF Busy, Stepping
    <2>2. PICK d \in Int : d > 0 /\ stepAt'[w] = clock' + d
      BY <1>1, <2>1, ChargedTakesTime
    <2> QED
      BY <1>1, <2>2
  <1> HIDE DEF e
  <1>7. Events \ {e} \subseteq Events'
    <2> SUFFICES ASSUME NEW f \in Events, f # e PROVE f \in Events'
      OBVIOUS
    <2>1. CASE \E x \in pending : f = ArrivalEvent(x)
      BY <1>2, <2>1, NextEventKinds
    <2>2. CASE \E v \in Workers : steps[v] > 0 /\ f = StepEvent(v, stepAt[v])
      BY <1>5, <2>2, NextEventKinds DEF e
    <2>3. CASE \E t \in sampleAt : f = SampleEvent(t)
      BY <1>1, <2>3, NextEventKinds
    <2> QED
      BY <2>1, <2>2, <2>3, EventKinds
  <1>8. ASSUME NEW f \in Events' \ Events
        PROVE  f.timeMs >= clock'
    <2>1. CASE \E x \in pending' : f = ArrivalEvent(x)
      BY <1>2, <1>8, <2>1, EventKinds
    <2>2. CASE \E v \in Workers : steps'[v] > 0 /\ f = StepEvent(v, stepAt'[v])
      <3>1. PICK v \in Workers : steps'[v] > 0 /\ f = StepEvent(v, stepAt'[v])
        BY <2>2
      <3>2. v = w
        BY <1>5, <1>8, <3>1, EventKinds
      <3>3. stepAt'[w] \in Int
        BY <1>1, <1>6, <3>1, <3>2 DEF Charged
      <3> QED
        BY <1>1, <1>6, <3>1, <3>2, <3>3, EventsDiffer
    <2>3. CASE \E t \in sampleAt' : f = SampleEvent(t)
      BY <1>1, <1>8, <2>3, EventKinds
    <2> QED
      BY <2>1, <2>2, <2>3, NextEventKinds
  <1>9. e \notin Events'
    <2>1. \A v \in Workers : steps'[v] > 0 => e # StepEvent(v, stepAt'[v])
      <3> SUFFICES ASSUME NEW v \in Workers, steps'[v] > 0,
                          e = StepEvent(v, stepAt'[v])
                   PROVE  FALSE
        OBVIOUS
      <3>1. v = w /\ stepAt'[w] = stepAt[w]
        BY EventsDiffer DEF e
      <3> QED
        BY <1>1, <1>6, <3>1
    <2> QED
      BY <2>1, EventsDiffer, NextEventKinds DEF e
  <1> QED
    BY <1>3, <1>4, <1>7, <1>8, <1>9 DEF Bag!Fire, Until

LEMMA SampleFires ==
  ASSUME TimedTypeOK, SampleInv, PeriodicSample, UNCHANGED vars
  PROVE  (\E e \in Events : Bag!Fire(e)) /\ SampleInv'
  <1>1. PICK time \in sampleAt : Fires(time) /\ sampleAt' = NextSample(time)
    BY DEF PeriodicSample
  <1> DEFINE e == SampleEvent(time)
             next == time + Scaled(SampleIntervalMs)
  <1>2. time \in Nat /\ sampleAt = {time} /\ SampleIntervalMs > 0
    BY DEF TimedTypeOK, SampleInv
  <1>3. SampleIntervalMs \in Nat /\ TimeScale \in Nat \ {0}
    BY TimedAssumption
  <1>4. Scaled(SampleIntervalMs) \in Nat /\ Scaled(SampleIntervalMs) > 0
    <2>1. \A m, n \in Nat : m > 0 /\ n > 0 => m * n \in Nat /\ m * n > 0
      OBVIOUS
    <2> QED
      BY <1>2, <1>3, <2>1 DEF Scaled
  <1>5. sampleAt' \subseteq {next}
    BY <1>1 DEF NextSample
  <1>6. next \in Nat /\ next > time
    BY <1>2, <1>4
  <1>7. pending' = pending /\ steps' = steps /\ stepAt' = stepAt
    BY DEF PeriodicSample, vars
  <1> HIDE DEF next
  <1>8. SampleInv'
    BY <1>2, <1>5 DEF SampleInv
  <1>9. e \in Events
    BY EventKinds
  <1>10. clock' = e.timeMs /\ \A f \in Events : e.timeMs <= f.timeMs
    BY <1>1, EventsDiffer DEF Fires
  <1>11. Events \ {e} \subseteq Events'
    <2> SUFFICES ASSUME NEW f \in Events, f # e PROVE f \in Events'
      OBVIOUS
    <2>1. ~ \E t \in sampleAt : f = SampleEvent(t)
      BY <1>2
    <2> QED
      BY <1>7, <2>1, EventKinds, NextEventKinds
  <1>12. ASSUME NEW f \in Events' \ Events
         PROVE  f.timeMs >= clock'
    <2>1. f = SampleEvent(next)
      BY <1>5, <1>7, <1>12, EventKinds, NextEventKinds
    <2> QED
      BY <1>6, <1>10, <2>1, EventsDiffer, <1>2
  <1> HIDE DEF e
  <1>13. e \notin Events'
    <2>1. \A t \in sampleAt' : e # SampleEvent(t)
      BY <1>2, <1>5, <1>6, EventsDiffer DEF e
    <2> QED
      BY <2>1, EventsDiffer, NextEventKinds DEF e
  <1> QED
    BY <1>8, <1>9, <1>10, <1>11, <1>12, <1>13 DEF Bag!Fire, Until

LEMMA NextBag ==
  ASSUME Regular, Timely, SampleInv, [TimedNext]_allVars
  PROVE  SampleInv' /\ ((\E e \in Events : Bag!Fire(e))
                          \/ (Events' = Events /\ clock' = clock))
  <1>1. /\ Busy /\ Busy' /\ MatchedWithin'
        /\ TypeOK /\ TypeOK' /\ P!Inv /\ TimedTypeOK
    BY NextTimely
  <1>2. ASSUME NEW r \in Requests, Arrival(r), TimedArrival(r)
        PROVE  (\E e \in Events : Bag!Fire(e)) /\ sampleAt' = sampleAt
    <2>1. PICK fill : ArrivalMoves(r, fill)
      BY <1>1, <1>2, ArrivalShape
    <2> QED
      BY <1>1, <1>2, <2>1, ArrivalFires, ArrivalTimes
  <1>3. ASSUME NEW w \in Workers, TokenStepDone(w), TimedStep(w)
        PROVE  (\E e \in Events : Bag!Fire(e)) /\ sampleAt' = sampleAt
    <2>1. PICK S, V, F : StepMoves(w, S, V, F)
      BY <1>1, <1>3, StepShape
    <2>2. steps[w] > 0
      BY <1>3 DEF TokenStepDone
    <2> QED
      BY <1>1, <1>3, <2>1, <2>2, StepFires, StepTimes
  <1>4. CASE PeriodicSample /\ UNCHANGED vars
    BY <1>1, <1>4, SampleFires
  <1>5. CASE UNCHANGED allVars
    BY <1>5 DEF allVars, vars, timedVars, Events, SampleInv
  <1>6. sampleAt' = sampleAt => SampleInv'
    BY DEF SampleInv
  <1> QED
    BY <1>2, <1>3, <1>4, <1>5, <1>6, TimedSteps

(* With the clock, the handlers lose no event, fire none before its time   *)
(* and schedule none in the past: they implement the bag of events, each   *)
(* arrival, step and sample as its firing.                                 *)
THEOREM TimedImplementsBag ==
  ASSUME Regular
  PROVE  TimedSpec => ImplementsEventBag
  <1>1. TimedInit => SampleInv /\ Bag!Init
    BY DEF TimedInit, SampleInv, Bag!Init
  <1>2. Timely /\ SampleInv /\ [TimedNext]_allVars =>
          SampleInv' /\ [Bag!Next]_Bag!vars
    BY NextBag DEF Bag!Next, Bag!vars
  <1> QED
    BY <1>1, <1>2, TimelyAlways, PTL DEF TimedSpec, ImplementsEventBag, Bag!Spec

-----------------------------------------------------------------------------
(* Whoever is in a batch fits the worker alone, since what it was admitted *)
(* beside uses no less than nothing.                                       *)
Room ==
  \A w \in Workers : \A r \in ToSet(batch[w]) : WorstTokens[r] <= MemoryTokens

LEMMA UsesSomething ==
  ASSUME NEW B \in SUBSET Requests, NEW gen \in [Requests -> Nat],
         NEW mat \in [Requests -> Nat],
         NEW cache \in [PrefixIDs -> PrefixState],
         \A r \in Requests : mat[r] <= ContextTokens[r]
  PROVE  UsedTokens(B, gen, mat, cache) \in Nat
  <1> DEFINE held == [p \in PrefixIDs |-> cache[p].tokens]
             total == TokenSum(B, TotalTokens(gen))
             hit == TokenSum(B, mat)
             kept == TokenSum(PrefixIDs, held)
  <1>1. TotalTokens(gen) \in [Requests -> Nat]
        /\ \A r \in Requests : TotalTokens(gen)[r] = ContextTokens[r] + gen[r]
    BY ModelAssumption DEF TotalTokens
  <1>2. total \in Nat /\ hit \in Nat /\ IsFiniteSet(B)
    BY <1>1, SumOfRequests
  <1>3. hit <= total
    <2>1. \A r \in B : /\ mat[r] \in Nat /\ TotalTokens(gen)[r] \in Nat
                       /\ mat[r] <= TotalTokens(gen)[r]
      BY <1>1, ModelAssumption
    <2> QED
      BY <1>2, <2>1, SumMonotone
  <1>4. \A p \in PrefixIDs : held[p] \in Nat
    BY DEF PrefixState
  <1> HIDE DEF held, total, hit
  <1>5. kept \in Nat
    BY <1>4, ModelAssumption, SumType
  <1> HIDE DEF kept
  <1>6. UsedTokens(B, gen, mat, cache) = total - hit + kept
    BY DEF UsedTokens, total, hit, kept, held
  <1> QED
    BY <1>2, <1>3, <1>5, <1>6

LEMMA EachFits ==
  ASSUME NEW F \in SUBSET Requests, NEW used \in Nat, NEW r \in F,
         used + TokenSum(F, WorstTokens) <= MemoryTokens
  PROVE  WorstTokens[r] <= MemoryTokens
  <1>1. {r} \in SUBSET Requests /\ WorstTokens[r] \in Nat
    BY WorstType
  <1>2. IsFiniteSet(F) /\ TokenSum(F, WorstTokens) \in Nat
    BY WorstType, SumOfRequests
  <1>3. TokenSum({r}, WorstTokens) <= TokenSum(F, WorstTokens)
    BY <1>2, WorstType, SumSubset
  <1>4. TokenSum({r}, WorstTokens) = WorstTokens[r]
    BY <1>1, SumSingle
  <1> QED
    BY <1>1, <1>2, <1>3, <1>4, ModelAssumption

LEMMA ArrivalRoom ==
  ASSUME TypeOK, P!Inv, Room, NEW r \in Requests, Arrival(r)
  PROVE  Room'
  <1>1. PICK t, fill, first :
          /\ Offered(Arrived(r), t, Workers, fill, first)
          /\ Becomes(t)
    BY ArrivalDispatches
  <1>2. batch' = t.batch
    BY <1>1 DEF Becomes
  <1>3. /\ Arrived(r).batch = batch /\ Arrived(r).cache = prefixCache
        /\ ToSet(Arrived(r).queue) = ToSet(queue) \cup {r}
    BY ArrivedState DEF Arrival
  <1>4. /\ fill \in [Workers -> SUBSET (ToSet(queue) \cup {r})]
        /\ \A w \in Workers :
             /\ batch[w] # <<>> => fill[w] = {} /\ t.batch[w] = batch[w]
             /\ ToSet(t.batch[w]) = ToSet(batch[w]) \cup fill[w]
             /\ batch[w] = <<>> => P!Fits({}, fill[w], IdleUse(Arrived(r), w))
    BY <1>1, <1>3 DEF Offered
  <1> SUFFICES ASSUME NEW w \in Workers, NEW x \in ToSet(t.batch[w])
               PROVE  WorstTokens[x] <= MemoryTokens
    BY <1>2 DEF Room
  <1>5. CASE x \in ToSet(batch[w])
    BY <1>5 DEF Room
  <1>6. CASE x \notin ToSet(batch[w])
    <2> DEFINE F == fill[w]
    <2>1. x \in F /\ batch[w] = <<>>
      BY <1>4, <1>6
    <2>2. F \in SUBSET Requests
      <3>1. ToSet(queue) \in SUBSET Requests
        BY MembersOf DEF TypeOK
      <3> QED
        BY <1>4, <3>1
    <2>3. \A p \in PrefixIDs : prefixCache[w][p] = NoEntry
      BY <2>1, IdleCache DEF P!Inv
    <2>4. IdleUse(Arrived(r), w) = 0
      BY <1>3, <2>3, NothingCached DEF IdleUse
    <2>5. P!Fits({}, F, 0)
      BY <1>4, <2>1, <2>4
    <2> HIDE DEF F
    <2>6. 0 + TokenSum(F, WorstTokens) <= MemoryTokens
      BY <2>1, <2>5, SameModel, SameSums DEF P!Fits
    <2> QED
      BY <2>1, <2>2, <2>6, EachFits
  <1> QED
    BY <1>5, <1>6

LEMMA StepRoom ==
  ASSUME TypeOK, TypeOK', P!Inv, MatchedWithin, Room,
         NEW w \in Workers, TokenStepDone(w)
  PROVE  Room'
  <1>1. PICK t, S, V, F, first :
          Stepped(w, t, S, V, F, first) /\ Becomes(t)
    BY StepCalls
  <1>2. batch' = t.batch /\ generated' = t.gen
    BY <1>1 DEF Becomes
  <1> DEFINE c1 == P!RemoveRefs(prefixCache[w], S)
             cache == P!RemoveRefs(c1, V)
             gen == [r \in Requests |-> IF r \in V THEN 0 ELSE P!Advanced(w)[r]]
             K == P!Active(w) \ V
             used == UsedTokens(K, gen, matched, cache)
  <1>3. /\ S = P!Finished(w) /\ V \subseteq P!Active(w)
        /\ F \subseteq ToSet(queue) \cup V
        /\ ToSet(t.batch[w]) = K \cup F
        /\ t.gen = gen
        /\ \A v \in Workers : v # w => t.batch[v] = batch[v]
        /\ P!Fits(K, F, used)
    BY <1>1 DEF Stepped
  <1>4. /\ ToSet(queue) \in SUBSET Requests /\ ToSet(batch[w]) \in SUBSET Requests
        /\ P!Active(w) \in SUBSET ToSet(batch[w])
        /\ P!Finished(w) \in SUBSET ToSet(batch[w])
    BY MembersOf DEF TypeOK, P!Active, P!Finished
  <1>5. S \in SUBSET Requests /\ V \in SUBSET Requests /\ F \in SUBSET Requests
        /\ K \in SUBSET Requests
    BY <1>3, <1>4
  <1>6. cache \in [PrefixIDs -> PrefixState]
    <2>1. prefixCache[w] \in [PrefixIDs -> P!PrefixState]
      BY SameModel DEF TypeOK
    <2>2. c1 \in [PrefixIDs -> P!PrefixState]
      BY <1>5, <2>1, P!RemoveRefsType, SameAssumption
    <2> HIDE DEF c1
    <2>3. cache \in [PrefixIDs -> P!PrefixState]
      BY <1>5, <2>2, P!RemoveRefsType, SameAssumption
    <2> QED
      BY <2>3, SameModel
  <1>7. gen \in [Requests -> Nat]
    BY <1>2, <1>3 DEF TypeOK
  <1>8. \A x \in K : WorstTokens[x] <= MemoryTokens
    BY <1>3, <1>4 DEF Room
  <1> HIDE DEF c1, cache, gen, K
  <1>9. used \in Nat
    <2>1. matched \in [Requests -> Nat]
          /\ \A x \in Requests : matched[x] <= ContextTokens[x]
      BY DEF TypeOK, MatchedWithin
    <2> QED
      BY <1>5, <1>6, <1>7, <2>1, UsesSomething
  <1> HIDE DEF used
  <1>10. ASSUME NEW x \in F PROVE WorstTokens[x] <= MemoryTokens
    <2>1. used + TokenSum(F, WorstTokens) <= MemoryTokens
      BY <1>3, <1>10, SameModel, SameSums DEF P!Fits
    <2> QED
      BY <1>5, <1>9, <1>10, <2>1, EachFits
  <1> SUFFICES ASSUME NEW v \in Workers, NEW x \in ToSet(t.batch[v])
               PROVE  WorstTokens[x] <= MemoryTokens
    BY <1>2 DEF Room
  <1>11. CASE v = w
    BY <1>3, <1>8, <1>10, <1>11
  <1>12. CASE v # w
    BY <1>3, <1>12 DEF Room
  <1> QED
    BY <1>11, <1>12

(* A step that leaves its worker idle has completed a request: an evicted  *)
(* request fits the worker, so it or another one is admitted at once.      *)
LEMMA IdleMeansDone ==
  ASSUME TypeOK, P!Inv, P!Inv', Room, policy # "wfq",
         NEW w \in Workers, TokenStepDone(w), batch[w] # <<>>,
         batch'[w] = <<>>
  PROVE  \E r \in Requests : r \in done' /\ r \notin done
  <1>1. PICK t, S, V, F, first :
          Stepped(w, t, S, V, F, first) /\ Becomes(t) /\ done' = done \cup S
    BY StepCalls
  <1>2. t.batch[w] = <<>>
    BY <1>1 DEF Becomes
  <1>3. /\ P!Active(w) \ V = {}
        /\ \A r \in V : WorstTokens[r] > MemoryTokens
    BY <1>1, <1>2, IdleAfterStep
  <1>4. P!Active(w) = ToSet(batch[w]) \ S /\ S \subseteq ToSet(batch[w])
        /\ V \subseteq P!Active(w)
    BY <1>1 DEF Stepped, P!Active, P!Finished
  <1>5. /\ \A r \in V : WorstTokens[r] <= MemoryTokens
        /\ \A r \in V : WorstTokens[r] \in Nat
        /\ MemoryTokens \in Nat
    <2>1. ToSet(batch[w]) \in SUBSET Requests
      BY MembersOf DEF TypeOK
    <2> QED
      BY <1>4, <2>1, WorstType, ModelAssumption DEF Room
  <1>6. V = {}
    BY <1>3, <1>5
  <1>7. PICK r \in ToSet(batch[w]) : TRUE
    <2>1. batch[w] \in Seq(Requests)
      BY DEF TypeOK
    <2>2. ToSet(batch[w]) # {}
      BY <2>1, MembersOf
    <2> QED
      BY <2>2
  <1>8. r \in S
    BY <1>3, <1>4, <1>6
  <1>9. r \notin done /\ r \in Requests
    <2>1. ToSet(batch[w]) \in SUBSET Requests
      BY MembersOf DEF TypeOK
    <2> QED
      BY <2>1, Elsewhere
  <1> QED
    BY <1>1, <1>8, <1>9

(* The arrivals end with the duration of the workload, or half as long     *)
(* after it, and no tier is cut off.                                       *)
WithinDuration ==
  /\ OneContext
  /\ \A r \in Requests : 2 * ArrivalMs[r] <= 3 * DurationMs
  /\ "wfq" \notin PolicyChoice

SamplesInTime ==
  \A t \in sampleAt : \/ 2 * t <= 3 * Scaled(DurationMs)
                      \/ t = Scaled(SampleIntervalMs)

AccountInv ==
  /\ TimedTypes /\ PrefixInv /\ Room
  /\ policy # "wfq"
  /\ SamplesInTime
  /\ DurationAccounted

LEMMA ScaledInTime ==
  ASSUME NEW n \in Int, 2 * n <= 3 * DurationMs
  PROVE  2 * Scaled(n) <= 3 * Scaled(DurationMs)
  <1> DEFINE slack == 3 * DurationMs - 2 * n
  <1>1. TimeScale \in Nat /\ DurationMs \in Nat
    BY TimedAssumption
  <1>2. slack \in Nat
    BY <1>1
  <1>3. TimeScale * slack \in Nat
    BY <1>1, <1>2, NatProduct
  <1>4. TimeScale * slack = 3 * (TimeScale * DurationMs) - 2 * (TimeScale * n)
    BY <1>1
  <1>5. TimeScale * DurationMs \in Int /\ TimeScale * n \in Int
    BY <1>1, ProductType
  <1> QED
    BY <1>3, <1>4, <1>5 DEF Scaled

LEMMA NextRoom ==
  ASSUME TypeOK, TypeOK', P!Inv, MatchedWithin, Room, policy # "wfq",
         [Next]_vars
  PROVE  Room' /\ policy' # "wfq"
  <1>1. ASSUME NEW r \in Requests, Arrival(r)
        PROVE  Room' /\ policy' = policy
    BY <1>1, ArrivalRoom DEF Arrival, Becomes
  <1>2. ASSUME NEW w \in Workers, TokenStepDone(w)
        PROVE  Room' /\ policy' = policy
    BY <1>2, StepRoom DEF TokenStepDone, Becomes
  <1>3. CASE UNCHANGED vars
    BY <1>3 DEF vars, Room
  <1> QED
    BY <1>1, <1>2, <1>3 DEF Next

LEMMA NextAccount ==
  ASSUME WithinDuration, AccountInv, [TimedNext]_allVars
  PROVE  AccountInv'
  <1>1. /\ TypeOK /\ P!Inv /\ TimedTypeOK /\ PrefixInv /\ MatchedWithin /\ Room
        /\ policy # "wfq" /\ SamplesInTime /\ DurationAccounted
    BY DEF AccountInv, TimedTypes, PrefixInv
  <1>2. TypeOK' /\ P!Inv' /\ TimedTypeOK'
    BY <1>1, NextBothTimed, NextTimedTypes
  <1>3. PrefixInv' /\ Room' /\ policy' # "wfq"
    BY <1>1, <1>2, UntimedSteps, NextPrefix, NextRoom DEF WithinDuration
  <1>4. SamplesInTime' /\ DurationAccounted'
    <2>1. ASSUME NEW r \in Requests, TimedArrival(r)
          PROVE  SamplesInTime' /\ DurationAccounted'
      <3>1. clock' = Scaled(ArrivalMs[r]) /\ sampleAt' = sampleAt
        BY <2>1 DEF TimedArrival, Fires
      <3>2. ArrivalMs[r] \in Int /\ 2 * ArrivalMs[r] <= 3 * DurationMs
        BY PolicyAssumption DEF WithinDuration
      <3>3. 2 * clock' <= 3 * Scaled(DurationMs)
        BY <3>1, <3>2, ScaledInTime
      <3> QED
        BY <1>1, <3>1, <3>3 DEF SamplesInTime, DurationAccounted
    <2>2. ASSUME NEW w \in Workers, TimedStep(w)
          PROVE  SamplesInTime' /\ DurationAccounted'
      <3>1. TokenStepDone(w) /\ sampleAt' = sampleAt
        BY <2>2 DEF TimedStep
      <3>2. batch[w] # <<>>
        BY <1>1, <3>1, BusySteps DEF Busy, TokenStepDone
      <3>3. CASE batch'[w] = <<>>
        <4>1. PICK r \in Requests : r \in done' /\ r \notin done
          BY <1>1, <1>2, <3>1, <3>2, <3>3, IdleMeansDone
        <4>2. completionMs' = [x \in Requests |->
                                 IF x \in done' \ done THEN clock'
                                 ELSE completionMs[x]]
          BY <2>2 DEF TimedStep
        <4>3. completionMs'[r] = clock'
          BY <4>1, <4>2
        <4> QED
          BY <1>1, <3>1, <4>1, <4>3 DEF SamplesInTime, DurationAccounted
      <3>4. CASE batch'[w] # <<>>
        <4>1. steps'[w] > 0
          BY <1>2, <3>4, NextBusySteps DEF Busy
        <4>2. StepEvent(w, stepAt'[w]) \in Events'
          BY <4>1, NextEventKinds
        <4> QED
          BY <1>1, <3>1, <4>2 DEF SamplesInTime, DurationAccounted
      <3> QED
        BY <3>3, <3>4
    <2>3. CASE PeriodicSample
      <3>1. PICK time \in sampleAt : clock' = time
                                     /\ sampleAt' = NextSample(time)
        BY <2>3 DEF PeriodicSample, Fires
      <3>2. SamplesInTime'
        BY <3>1 DEF SamplesInTime, NextSample
      <3>3. \/ 2 * clock' <= 3 * Scaled(DurationMs)
            \/ clock' = Scaled(SampleIntervalMs)
        BY <1>1, <3>1 DEF SamplesInTime
      <3> QED
        BY <3>2, <3>3 DEF DurationAccounted
    <2>4. CASE UNCHANGED allVars
      BY <1>1, <2>4 DEF allVars, vars, timedVars, SamplesInTime,
                        DurationAccounted, Events
    <2> QED
      BY <2>1, <2>2, <2>3, <2>4, TimedSteps
  <1> QED
    BY <1>2, <1>3, <1>4 DEF AccountInv, TimedTypes

(* When the arrivals end in time, contexts that share a prefix are of one  *)
(* length and no WFQ tier can be cut off, sampling does not make a run     *)
(* longer than half as long again as the workload: what throughput and     *)
(* utilisation are divided by is otherwise the time of a completion.       *)
THEOREM SamplingEndsInTime ==
  ASSUME WithinDuration
  PROVE  TimedSpec => []DurationAccounted
  <1>1. TimedInit => AccountInv
    <2> SUFFICES ASSUME TimedInit PROVE AccountInv
      OBVIOUS
    <2>1. Init /\ TimedTypes
      BY InitBoth, P!InitInv, SameAssumption, InitTimedTypes
      DEF TimedInit, TimedTypes
    <2>2. /\ \A w \in Workers : ToSet(batch[w]) = {}
          /\ policy # "wfq"
      BY <2>1 DEF Init, WithinDuration, ToSet
    <2>3. SamplesInTime
      BY DEF TimedInit, SamplesInTime
    <2>4. DurationAccounted
      <3>1. Scaled(DurationMs) \in Nat /\ clock = 0
        BY TimedAssumption, ScaledType DEF TimedInit
      <3> QED
        BY <3>1 DEF DurationAccounted
    <2> QED
      BY <2>1, <2>2, <2>3, <2>4, InitPrefix DEF AccountInv, Room
  <1>2. AccountInv /\ [TimedNext]_allVars => AccountInv'
    BY NextAccount
  <1>3. AccountInv => DurationAccounted
    BY DEF AccountInv
  <1> QED
    BY <1>1, <1>2, <1>3, PTL DEF TimedSpec

-----------------------------------------------------------------------------
(* The order statistics of a finite set of measurements.                   *)
Below(S, f, v) == {r \in S : f[r] < v}
UpToValue(S, f, v) == {r \in S : f[r] <= v}
Above(S, f, v) == {r \in S : f[r] > v}

LEMMA LeastValue ==
  ASSUME NEW S, IsFiniteSet(S), S # {}, NEW g, \A s \in S : g[s] \in Int
  PROVE  \E r \in S : \A s \in S : g[r] <= g[s]
  <1> DEFINE h == [s \in S |-> -g[s]]
  <1>1. \A s \in S : h[s] = -g[s] /\ h[s] \in Int
    OBVIOUS
  <1> HIDE DEF h
  <1>2. PICK r \in S : \A s \in S : h[s] <= h[r]
    BY <1>1, GreatestValue
  <1>3. \A s \in S : g[r] <= g[s]
    BY <1>1, <1>2
  <1> QED
    BY <1>3

LEMMA CountTypes ==
  ASSUME NEW S, IsFiniteSet(S), NEW f, NEW v
  PROVE  /\ IsFiniteSet(Below(S, f, v)) /\ Cardinality(Below(S, f, v)) \in Nat
         /\ IsFiniteSet(UpToValue(S, f, v))
         /\ Cardinality(UpToValue(S, f, v)) \in Nat
         /\ IsFiniteSet(Above(S, f, v)) /\ Cardinality(Above(S, f, v)) \in Nat
         /\ Cardinality(S) \in Nat
  <1>1. /\ Below(S, f, v) \in SUBSET S /\ UpToValue(S, f, v) \in SUBSET S
        /\ Above(S, f, v) \in SUBSET S
    BY DEF Below, UpToValue, Above
  <1> QED
    BY <1>1, FS_Subset, FS_CardinalityType

LEMMA CountsAdd ==
  ASSUME NEW S, IsFiniteSet(S), NEW f, NEW v \in Int, \A r \in S : f[r] \in Int
  PROVE  Cardinality(Above(S, f, v))
           = Cardinality(S) - Cardinality(UpToValue(S, f, v))
  <1>1. Above(S, f, v) = S \ UpToValue(S, f, v)
    BY DEF Above, UpToValue
  <1>2. S \cap UpToValue(S, f, v) = UpToValue(S, f, v)
    BY DEF UpToValue
  <1> QED
    BY <1>1, <1>2, FS_Difference

(* The element that a sort would put at an index exists.                   *)
LEMMA SortedIs ==
  ASSUME NEW S, IsFiniteSet(S), NEW f, \A r \in S : f[r] \in Int,
         NEW k \in Nat, k < Cardinality(S)
  PROVE  /\ Sorted(S, f, k) \in Int
         /\ \E r \in S : Sorted(S, f, k) = f[r]
         /\ Cardinality(Below(S, f, Sorted(S, f, k))) <= k
         /\ Cardinality(UpToValue(S, f, Sorted(S, f, k))) > k
  <1> DEFINE T == {r \in S : Cardinality(UpToValue(S, f, f[r])) > k}
             split(v) == /\ Cardinality(Below(S, f, v)) <= k
                         /\ Cardinality(UpToValue(S, f, v)) > k
  <1>1. T # {}
    <2>1. S # {}
      BY FS_EmptySet
    <2>2. PICK m \in S : \A r \in S : f[r] <= f[m]
      BY <2>1, GreatestValue
    <2>3. UpToValue(S, f, f[m]) = S
      BY <2>2 DEF UpToValue
    <2> QED
      BY <2>3
  <1>2. IsFiniteSet(T) /\ \A r \in T : f[r] \in Int
    <2>1. T \in SUBSET S
      OBVIOUS
    <2> QED
      BY <2>1, FS_Subset
  <1>3. PICK m \in T : \A r \in T : f[m] <= f[r]
    <2> HIDE DEF T
    <2> QED
      BY <1>1, <1>2, LeastValue
  <1>4. Cardinality(Below(S, f, f[m])) <= k
    <2> DEFINE B == Below(S, f, f[m])
    <2>1. IsFiniteSet(B) /\ B \in SUBSET S /\ \A r \in B : f[r] \in Int
      BY CountTypes DEF Below
    <2>2. CASE B = {}
      BY <2>2, FS_EmptySet
    <2>3. CASE B # {}
      <3> HIDE DEF B
      <3>1. PICK x \in B : \A r \in B : f[r] <= f[x]
        BY <2>1, <2>3, GreatestValue
      <3>2. x \in S /\ f[x] < f[m]
        BY <2>1 DEF B, Below
      <3>3. UpToValue(S, f, f[x]) = B
        <4>1. ASSUME NEW r \in S, f[r] <= f[x] PROVE r \in B
          <5>1. f[r] < f[m]
            <6>1. f[r] \in Int /\ f[x] \in Int /\ f[m] \in Int
              BY <1>2, <3>2
            <6> QED
              BY <3>2, <4>1, <6>1
          <5> QED
            BY <5>1 DEF B, Below
        <4> QED
          BY <2>1, <3>1, <4>1 DEF UpToValue
      <3>4. ~(f[m] <= f[x])
        <4>1. f[x] \in Int /\ f[m] \in Int
          BY <1>2, <3>2
        <4> QED
          BY <3>2, <4>1
      <3>5. x \notin T
        BY <1>3, <3>4
      <3>6. ~(Cardinality(B) > k)
        BY <3>2, <3>3, <3>5
      <3>7. Cardinality(B) \in Nat
        BY <2>1, FS_CardinalityType
      <3> QED
        BY <3>6, <3>7 DEF B
    <2> QED
      BY <2>2, <2>3
  <1>5. f[m] \in {f[r] : r \in S} /\ split(f[m])
    BY <1>3, <1>4
  <1>6. Sorted(S, f, k) = CHOOSE v \in {f[r] : r \in S} : split(v)
    BY DEF Sorted, Below, UpToValue
  <1> HIDE DEF split
  <1>7. Sorted(S, f, k) \in {f[r] : r \in S} /\ split(Sorted(S, f, k))
    BY <1>5, <1>6
  <1> QED
    BY <1>7 DEF split

LEMMA SortedMonotone ==
  ASSUME NEW S, IsFiniteSet(S), NEW f, \A r \in S : f[r] \in Int,
         NEW j \in Nat, NEW k \in Nat, j <= k, k < Cardinality(S)
  PROVE  Sorted(S, f, j) <= Sorted(S, f, k)
  <1>1. Cardinality(S) \in Nat
    BY FS_CardinalityType
  <1>2. j < Cardinality(S)
    BY <1>1
  <1> DEFINE v == Sorted(S, f, j)
             w == Sorted(S, f, k)
  <1>3. /\ v \in Int /\ w \in Int
        /\ Cardinality(Below(S, f, v)) <= j
        /\ Cardinality(UpToValue(S, f, w)) > k
    BY <1>2, SortedIs
  <1> HIDE DEF v, w
  <1>4. CASE w < v
    <2>1. UpToValue(S, f, w) \in SUBSET Below(S, f, v)
      BY <1>3, <1>4 DEF UpToValue, Below
    <2>2. Cardinality(UpToValue(S, f, w)) <= Cardinality(Below(S, f, v))
      BY <2>1, CountTypes, FS_Subset
    <2> QED
      BY <1>3, <2>2, CountTypes
  <1> QED
    BY <1>3, <1>4 DEF v, w

LEMMA SortedDominated ==
  ASSUME NEW S, IsFiniteSet(S), NEW f, NEW g,
         \A r \in S : f[r] \in Int /\ g[r] \in Int /\ f[r] <= g[r],
         NEW k \in Nat, k < Cardinality(S)
  PROVE  Sorted(S, f, k) <= Sorted(S, g, k)
  <1> DEFINE v == Sorted(S, f, k)
             w == Sorted(S, g, k)
  <1>1. /\ v \in Int /\ w \in Int
        /\ Cardinality(Below(S, f, v)) <= k
        /\ Cardinality(UpToValue(S, g, w)) > k
    BY SortedIs
  <1> HIDE DEF v, w
  <1>2. CASE w < v
    <2>1. UpToValue(S, g, w) \in SUBSET Below(S, f, v)
      BY <1>1, <1>2 DEF UpToValue, Below
    <2>2. Cardinality(UpToValue(S, g, w)) <= Cardinality(Below(S, f, v))
      BY <2>1, CountTypes, FS_Subset
    <2> QED
      BY <1>1, <2>2, CountTypes
  <1> QED
    BY <1>1, <1>2 DEF v, w

-----------------------------------------------------------------------------
(* Percentile interpolates between two neighbours.                         *)
Interpolated(a, b, frac) == a * (100 - frac) + b * frac

LEMMA Products ==
  ASSUME NEW a \in Int, NEW b \in Int, a <= b, NEW m \in Nat
  PROVE  a * m \in Int /\ b * m \in Int /\ a * m <= b * m
  <1>1. (b - a) * m >= 0
    BY SMT
  <1>2. (b - a) * m = b * m - a * m
    BY SMT
  <1> QED
    BY <1>1, <1>2, ProductType

LEMMA InterpolatedBetween ==
  ASSUME NEW a \in Int, NEW b \in Int, a <= b, NEW frac \in 0..99
  PROVE  /\ Interpolated(a, b, frac) \in Int
         /\ 100 * a <= Interpolated(a, b, frac)
         /\ Interpolated(a, b, frac) <= 100 * b
         /\ frac = 0 => Interpolated(a, b, frac) = 100 * a
  <1>1. a * frac \in Int /\ b * frac \in Int /\ a * frac <= b * frac
    BY Products
  <1>2. a * (100 - frac) = 100 * a - a * frac
    BY SMT
  <1>3. a * (100 - frac) <= b * (100 - frac)
    BY Products
  <1>4. b * (100 - frac) = 100 * b - b * frac
    BY SMT
  <1>5. frac = 0 => a * frac = 0 /\ b * frac = 0
    BY SMT
  <1> QED
    BY <1>1, <1>2, <1>3, <1>4, <1>5 DEF Interpolated

LEMMA InterpolatedGrows ==
  ASSUME NEW a \in Int, NEW b \in Int, NEW c \in Int, NEW d \in Int,
         a <= b, c <= d, a <= c, b <= d,
         NEW frac \in 0..99, NEW high \in 0..99, frac <= high
  PROVE  Interpolated(a, b, frac) <= Interpolated(c, d, high)
  <1>1. Interpolated(a, b, frac) <= Interpolated(c, d, frac)
    <2>1. a * (100 - frac) <= c * (100 - frac)
      BY Products
    <2>2. b * frac <= d * frac
      BY Products
    <2>3. /\ a * (100 - frac) \in Int /\ c * (100 - frac) \in Int
          /\ b * frac \in Int /\ d * frac \in Int
      BY ProductType
    <2> QED
      BY <2>1, <2>2, <2>3 DEF Interpolated
  <1>2. Interpolated(c, d, frac) <= Interpolated(c, d, high)
    <2>1. c * (high - frac) <= d * (high - frac)
      BY Products
    <2>2. /\ c * (high - frac) = c * high - c * frac
          /\ d * (high - frac) = d * high - d * frac
          /\ c * (100 - frac) = 100 * c - c * frac
          /\ c * (100 - high) = 100 * c - c * high
      BY SMT
    <2>3. /\ c * high \in Int /\ c * frac \in Int
          /\ d * high \in Int /\ d * frac \in Int
      BY ProductType
    <2> QED
      BY <2>1, <2>2, <2>3 DEF Interpolated
  <1>3. /\ Interpolated(a, b, frac) \in Int /\ Interpolated(c, d, frac) \in Int
        /\ Interpolated(c, d, high) \in Int
    BY InterpolatedBetween
  <1> QED
    BY <1>1, <1>2, <1>3

LEMMA RankSplit ==
  ASSUME NEW n \in Nat \ {0}, NEW p \in 0..99
  PROVE  /\ Rank(n, p) \in Nat
         /\ Rank(n, p) = p * (n - 1)
         /\ Rank(n, p) \div 100 \in Nat /\ Rank(n, p) % 100 \in 0..99
         /\ Rank(n, p) = 100 * (Rank(n, p) \div 100) + (Rank(n, p) % 100)
         /\ Rank(n, p) \div 100 < n
         /\ Rank(n, p) \div 100 + 1 >= n =>
              n = 1 /\ Rank(n, p) \div 100 = 0 /\ Rank(n, p) % 100 = 0
  <1>1. p * (n - 1) \in Nat /\ p * (n - 1) <= 99 * (n - 1)
    <2>1. p * (n - 1) \in Nat
      BY NatProduct
    <2>2. p * (n - 1) <= 99 * (n - 1)
      BY Products
    <2> QED
      BY <2>1, <2>2
  <1> DEFINE R == p * (n - 1)
  <1>2. R \in Nat /\ R <= 99 * (n - 1)
    BY <1>1
  <1>3. n = 1 => R = 0
    BY SMT
  <1>4. Rank(n, p) = R
    BY DEF Rank
  <1> HIDE DEF R
  <1>5. /\ R \div 100 \in Nat /\ R % 100 \in 0..99
        /\ R = 100 * (R \div 100) + (R % 100)
    BY <1>2
  <1> QED
    BY <1>2, <1>3, <1>4, <1>5 DEF R

(* What a percentile is made of: two neighbours of the sorted data, the    *)
(* same one twice when there is nothing to interpolate.                    *)
LEMMA PercentileIs ==
  ASSUME NEW S, IsFiniteSet(S), S # {}, NEW f, \A r \in S : f[r] \in Int,
         NEW p \in 0..99
  PROVE  LET n == Cardinality(S)
             l == Rank(n, p) \div 100
             u == IF n = 1 THEN 0 ELSE l + 1
         IN /\ l \in Nat /\ u \in Nat /\ l <= u /\ u < n
            /\ Sorted(S, f, l) \in Int /\ Sorted(S, f, u) \in Int
            /\ Sorted(S, f, l) <= Sorted(S, f, u)
            /\ Percentile(S, f, p)
                 = Interpolated(Sorted(S, f, l), Sorted(S, f, u),
                                Rank(n, p) % 100)
  <1> DEFINE n == Cardinality(S)
             l == Rank(n, p) \div 100
             u == IF n = 1 THEN 0 ELSE l + 1
             frac == Rank(n, p) % 100
  <1>1. n \in Nat \ {0}
    BY FS_CardinalityType, FS_EmptySet
  <1>2. /\ l \in Nat /\ frac \in 0..99 /\ l < n
        /\ l + 1 >= n => n = 1 /\ l = 0 /\ frac = 0
    <2> HIDE DEF n
    <2> QED
      BY <1>1, RankSplit
  <1>3. Percentile(S, f, p)
          = IF n = 0 THEN 0
            ELSE IF l + 1 >= n THEN 100 * Sorted(S, f, n - 1)
            ELSE Sorted(S, f, l) * (100 - frac) + Sorted(S, f, l + 1) * frac
    BY DEF Percentile
  <1> HIDE DEF l, frac
  <1>4. l \in Nat /\ u \in Nat /\ l <= u /\ u < n
    <2> HIDE DEF n
    <2> QED
      BY <1>1, <1>2
  <1>5. /\ Sorted(S, f, l) \in Int /\ Sorted(S, f, u) \in Int
        /\ Sorted(S, f, l) <= Sorted(S, f, u)
    <2> HIDE DEF u
    <2> QED
      BY <1>2, <1>4, SortedIs, SortedMonotone
  <1>6. Percentile(S, f, p)
          = Interpolated(Sorted(S, f, l), Sorted(S, f, u), frac)
    <2>1. CASE n = 1
      <3>1. l = 0 /\ u = 0 /\ frac = 0
        BY <1>2, <2>1
      <3>2. Percentile(S, f, p) = 100 * Sorted(S, f, 0)
        BY <1>3, <2>1, <3>1
      <3>3. Interpolated(Sorted(S, f, 0), Sorted(S, f, 0), 0)
              = 100 * Sorted(S, f, 0)
        <4>1. Sorted(S, f, 0) \in Int /\ Sorted(S, f, 0) <= Sorted(S, f, 0)
          BY <1>5, <3>1
        <4>2. 0 \in 0..99
          OBVIOUS
        <4> QED
          BY <4>1, <4>2, InterpolatedBetween
      <3> QED
        BY <3>1, <3>2, <3>3
    <2>2. CASE n # 1
      BY <1>1, <1>2, <1>3, <2>2 DEF Interpolated
    <2> QED
      BY <2>1, <2>2
  <1> QED
    BY <1>4, <1>5, <1>6 DEF l, frac

(* It lies between two values of the data, near the rank it is asked for.  *)
LEMMA PercentileNear ==
  ASSUME NEW S, IsFiniteSet(S), S # {}, NEW f, \A r \in S : f[r] \in Int,
         NEW p \in 0..99
  PROVE  /\ Percentile(S, f, p) \in Int
         /\ \E l, u \in Nat :
              /\ u < Cardinality(S) /\ l < Cardinality(S)
              /\ 100 * Sorted(S, f, l) <= Percentile(S, f, p)
              /\ Percentile(S, f, p) <= 100 * Sorted(S, f, u)
              /\ 100 * u < p * (Cardinality(S) - 1) + 100
              /\ p * (Cardinality(S) - 1) < 100 * l + 100
  <1> DEFINE n == Cardinality(S)
             l == Rank(n, p) \div 100
             u == IF n = 1 THEN 0 ELSE l + 1
             frac == Rank(n, p) % 100
             a == Sorted(S, f, l)
             b == Sorted(S, f, u)
             low == IF frac = 0 THEN l ELSE u
  <1>1. n \in Nat \ {0}
    BY FS_CardinalityType, FS_EmptySet
  <1>2. /\ l \in Nat /\ frac \in 0..99
        /\ Rank(n, p) = p * (n - 1) /\ Rank(n, p) \in Nat
        /\ Rank(n, p) = 100 * l + frac
    <2> HIDE DEF n
    <2> QED
      BY <1>1, RankSplit
  <1>3. /\ u \in Nat /\ l <= u /\ u < n /\ a \in Int /\ b \in Int /\ a <= b
        /\ Percentile(S, f, p) = Interpolated(a, b, frac)
    BY PercentileIs
  <1> HIDE DEF l, frac, a, b
  <1>4. /\ Interpolated(a, b, frac) \in Int
        /\ 100 * a <= Interpolated(a, b, frac)
        /\ Interpolated(a, b, frac) <= 100 * b
        /\ frac = 0 => Interpolated(a, b, frac) = 100 * a
    BY <1>2, <1>3, InterpolatedBetween
  <1>5. low \in Nat /\ low < n /\ Percentile(S, f, p) <= 100 * Sorted(S, f, low)
    <2>1. CASE frac = 0
      <3>1. 100 * a <= 100 * a
        BY <1>3
      <3>2. low = l /\ Sorted(S, f, low) = a
        BY <2>1 DEF a
      <3>3. l < n
        <4> HIDE DEF n, u
        <4> QED
          BY <1>1, <1>2, <1>3
      <3> QED
        BY <1>2, <1>3, <1>4, <2>1, <3>1, <3>2, <3>3
    <2>2. CASE frac # 0
      <3>1. low = u /\ Sorted(S, f, low) = b
        BY <2>2 DEF b
      <3> QED
        BY <1>3, <1>4, <3>1
    <2> QED
      BY <2>1, <2>2
  <1>6. 100 * low < p * (n - 1) + 100
    <2> HIDE DEF n
    <2>1. CASE frac = 0
      BY <1>2, <2>1
    <2>2. CASE frac # 0
      BY <1>1, <1>2, <2>2
    <2> QED
      BY <2>1, <2>2
  <1>7. p * (n - 1) < 100 * l + 100
    <2> HIDE DEF n
    <2> QED
      BY <1>2
  <1>8. l < n /\ 100 * Sorted(S, f, l) <= Percentile(S, f, p)
    <2>1. l < n
      <3> HIDE DEF n, u
      <3> QED
        BY <1>1, <1>2, <1>3
    <2> QED
      BY <2>1, <1>3, <1>4 DEF a
  <1>9. Percentile(S, f, p) \in Int
    BY <1>3, <1>4
  <1> HIDE DEF low
  <1> QED
    BY <1>2, <1>5, <1>6, <1>7, <1>8, <1>9

(* How many values are beyond one of the sorted ones.                      *)
LEMMA FewAbove ==
  ASSUME NEW S, IsFiniteSet(S), NEW f, \A r \in S : f[r] \in Int,
         NEW k \in Nat, k < Cardinality(S), NEW T \in SUBSET S,
         \A r \in T : f[r] > Sorted(S, f, k)
  PROVE  Cardinality(T) <= Cardinality(S) - (k + 1) /\ Cardinality(T) \in Nat
  <1> DEFINE v == Sorted(S, f, k)
  <1>1. v \in Int /\ Cardinality(UpToValue(S, f, v)) > k
    BY SortedIs
  <1>2. T \in SUBSET Above(S, f, v)
    BY DEF Above
  <1> HIDE DEF v
  <1>3. Cardinality(T) <= Cardinality(Above(S, f, v)) /\ Cardinality(T) \in Nat
    BY <1>2, CountTypes, FS_Subset, FS_CardinalityType
  <1> QED
    BY <1>1, <1>3, CountTypes, CountsAdd

LEMMA ManyAbove ==
  ASSUME NEW S, IsFiniteSet(S), NEW f, \A r \in S : f[r] \in Int,
         NEW k \in Nat, k < Cardinality(S), NEW limit \in Int,
         limit < Sorted(S, f, k)
  PROVE  Cardinality(Above(S, f, limit)) >= Cardinality(S) - k
  <1> DEFINE v == Sorted(S, f, k)
  <1>1. v \in Int /\ Cardinality(Below(S, f, v)) <= k /\ limit < v
    BY SortedIs
  <1> HIDE DEF v
  <1>2. UpToValue(S, f, limit) \in SUBSET Below(S, f, v)
    BY <1>1 DEF UpToValue, Below
  <1>3. Cardinality(UpToValue(S, f, limit)) <= Cardinality(Below(S, f, v))
    BY <1>2, CountTypes, FS_Subset
  <1> QED
    BY <1>1, <1>3, CountTypes, CountsAdd

LEMMA FewBelow ==
  ASSUME NEW S, IsFiniteSet(S), NEW f, \A r \in S : f[r] \in Int,
         NEW k \in Nat, k < Cardinality(S), NEW T \in SUBSET S,
         \A r \in T : f[r] < Sorted(S, f, k)
  PROVE  Cardinality(T) <= k /\ Cardinality(T) \in Nat
  <1> DEFINE v == Sorted(S, f, k)
  <1>1. Cardinality(Below(S, f, v)) <= k
    BY SortedIs
  <1>2. T \in SUBSET Below(S, f, v)
    BY DEF Below
  <1> HIDE DEF v
  <1>3. Cardinality(T) <= Cardinality(Below(S, f, v)) /\ Cardinality(T) \in Nat
    BY <1>2, CountTypes, FS_Subset, FS_CardinalityType
  <1> QED
    BY <1>1, <1>3, CountTypes

LEMMA PercentileSplits ==
  ASSUME NEW S, IsFiniteSet(S), S # {}, NEW f, \A r \in S : f[r] \in Int,
         NEW p \in 0..99
  PROVE  LET v == Percentile(S, f, p)
             n == Cardinality(S)
         IN /\ 100 * Cardinality({r \in S : 100 * f[r] < v})
                 < p * (n - 1) + 100
            /\ 100 * Cardinality({r \in S : 100 * f[r] > v})
                 < (100 - p) * (n - 1) + 100
  <1> DEFINE v == Percentile(S, f, p)
             n == Cardinality(S)
             under == {r \in S : 100 * f[r] < v}
             over == {r \in S : 100 * f[r] > v}
  <1>1. v \in Int /\ n \in Nat
    BY PercentileNear, FS_CardinalityType
  <1>2. PICK l, u \in Nat :
          /\ u < n /\ l < n
          /\ 100 * Sorted(S, f, l) <= v /\ v <= 100 * Sorted(S, f, u)
          /\ 100 * u < p * (n - 1) + 100 /\ p * (n - 1) < 100 * l + 100
    BY PercentileNear
  <1>3. Sorted(S, f, l) \in Int /\ Sorted(S, f, u) \in Int
    BY <1>2, SortedIs
  <1> HIDE DEF v
  <1>4. Cardinality(under) <= u /\ Cardinality(under) \in Nat
    <2>1. under \in SUBSET S /\ \A r \in under : f[r] < Sorted(S, f, u)
      BY <1>1, <1>2, <1>3
    <2> HIDE DEF under
    <2> QED
      BY <1>2, <2>1, FewBelow
  <1>5. Cardinality(over) <= n - (l + 1) /\ Cardinality(over) \in Nat
    <2>1. over \in SUBSET S /\ \A r \in over : f[r] > Sorted(S, f, l)
      BY <1>1, <1>2, <1>3
    <2> HIDE DEF over
    <2> QED
      BY <1>2, <2>1, FewAbove
  <1> HIDE DEF n, under, over
  <1>6. (100 - p) * (n - 1) = 100 * n - 100 - p * (n - 1)
    BY <1>1, SMT
  <1>7. p * (n - 1) \in Int
    BY <1>1, ProductType
  <1>8. /\ 100 * Cardinality(under) < p * (n - 1) + 100
        /\ 100 * Cardinality(over) < (100 - p) * (n - 1) + 100
    BY <1>1, <1>2, <1>4, <1>5, <1>6, <1>7
  <1> QED
    BY <1>8 DEF n, under, over, v

(* A percentile beyond a limit and the number of values beyond it.         *)
LEMMA PercentileCounts ==
  ASSUME NEW S, IsFiniteSet(S), S # {}, NEW f, \A r \in S : f[r] \in Int,
         NEW p \in 0..99, NEW limit \in Int
  PROVE  LET n == Cardinality(S)
             violations == Cardinality(Above(S, f, limit))
         IN IF Percentile(S, f, p) > 100 * limit
            THEN violations > 0 /\ 100 * violations >= (100 - p) * (n - 1)
            ELSE 100 * violations < (100 - p) * (n - 1) + 100
  <1> DEFINE v == Percentile(S, f, p)
             n == Cardinality(S)
             violations == Cardinality(Above(S, f, limit))
  <1>1. v \in Int /\ n \in Nat /\ violations \in Nat
    BY PercentileNear, FS_CardinalityType, CountTypes
  <1>2. PICK l, u \in Nat :
          /\ u < n /\ l < n
          /\ 100 * Sorted(S, f, l) <= v /\ v <= 100 * Sorted(S, f, u)
          /\ 100 * u < p * (n - 1) + 100 /\ p * (n - 1) < 100 * l + 100
    BY PercentileNear
  <1>3. Sorted(S, f, l) \in Int /\ Sorted(S, f, u) \in Int
    BY <1>2, SortedIs
  <1> HIDE DEF v
  <1>4. (100 - p) * (n - 1) = 100 * n - 100 - p * (n - 1)
    <2> HIDE DEF n
    <2> QED
      BY <1>1, SMT
  <1>5. p * (n - 1) \in Int
    <2> HIDE DEF n
    <2> QED
      BY <1>1, ProductType
  <1>6. ASSUME v > 100 * limit
        PROVE  violations > 0 /\ 100 * violations >= (100 - p) * (n - 1)
    <2>1. limit < Sorted(S, f, u)
      <3> HIDE DEF n, violations
      <3> QED
        BY <1>1, <1>2, <1>3, <1>6
    <2>2. violations >= n - u
      BY <1>2, <2>1, ManyAbove
    <2> HIDE DEF n, violations
    <2> QED
      BY <1>1, <1>2, <1>4, <1>5, <2>2
  <1>7. ASSUME ~(v > 100 * limit)
        PROVE  100 * violations < (100 - p) * (n - 1) + 100
    <2>1. Sorted(S, f, l) <= limit
      <3> HIDE DEF n, violations
      <3> QED
        BY <1>1, <1>2, <1>3, <1>7
    <2>2. violations <= n - (l + 1)
      <3>1. /\ Above(S, f, limit) \in SUBSET S
            /\ \A r \in Above(S, f, limit) : f[r] > Sorted(S, f, l)
        BY <1>3, <2>1 DEF Above
      <3> QED
        BY <1>2, <3>1, FewAbove
    <2> HIDE DEF n, violations
    <2> QED
      BY <1>1, <1>2, <1>4, <1>5, <2>2
  <1> HIDE DEF n, violations
  <1> QED
    BY <1>6, <1>7 DEF v, n, violations

-----------------------------------------------------------------------------
(* The times that are measured are numbers.                                *)
LEMMA MeasuredTypes ==
  ASSUME TimedTypeOK
  PROVE  \A r \in Requests :
           /\ QueueDelayMs[r] \in Int /\ TTFTMs[r] \in Int
           /\ TotalLatencyMs[r] \in Int
  <1> SUFFICES ASSUME NEW r \in Requests
               PROVE  /\ QueueDelayMs[r] \in Int /\ TTFTMs[r] \in Int
                      /\ TotalLatencyMs[r] \in Int
    OBVIOUS
  <1>1. Scaled(ArrivalMs[r]) \in Int
    BY ScaledType, PolicyAssumption
  <1>2. dispatchMs[r] \in Int /\ firstTokenMs[r] \in Int /\ completionMs[r] \in Int
    BY DEF TimedTypeOK
  <1>3. \A t \in Int : Since(r, t) \in Int
    BY <1>1 DEF Since
  <1> QED
    BY <1>2, <1>3 DEF QueueDelayMs, TTFTMs, TotalLatencyMs

LEMMA DoneFinite ==
  ASSUME TypeOK
  PROVE  done \in SUBSET Requests /\ IsFiniteSet(done)
  <1>1. done \in SUBSET Requests
    BY DEF TypeOK
  <1> QED
    BY <1>1, ModelAssumption, FS_Subset

(* Percentile splits the data where it should: fewer than p percent of the *)
(* other values, and one more, lie below it, and fewer than 100 - p        *)
(* percent, and one more, above it, whichever requests it is given and     *)
(* whatever happened to them.                                              *)
THEOREM PercentilesInPlace == TimedSpec => []PercentilesSplit
  <1>1. ASSUME TypeOK, TimedTypeOK PROVE PercentilesSplit
    <2> SUFFICES ASSUME NEW S \in (SUBSET done) \ {{}}, NEW p \in {50, 95, 99}
                 PROVE  LET v == Percentile(S, TotalLatencyMs, p)
                            n == Cardinality(S)
                        IN /\ 100 * Cardinality({r \in S :
                                       100 * TotalLatencyMs[r] < v})
                                < p * (n - 1) + 100
                           /\ 100 * Cardinality({r \in S :
                                       100 * TotalLatencyMs[r] > v})
                                < (100 - p) * (n - 1) + 100
      BY DEF PercentilesSplit
    <2>1. IsFiniteSet(S) /\ S # {} /\ \A r \in S : TotalLatencyMs[r] \in Int
      <3>1. S \in SUBSET done
        OBVIOUS
      <3> QED
        BY <1>1, <3>1, DoneFinite, FS_Subset, MeasuredTypes
    <2>2. p \in 0..99
      OBVIOUS
    <2> QED
      BY <2>1, <2>2, PercentileSplits
  <1>2. TimedTypes => PercentilesSplit
    BY <1>1 DEF TimedTypes
  <1> QED
    BY <1>2, TimedTypesAlways, PTL

LEMMA ConsistentView ==
  ASSUME NEW S, IsFiniteSet(S), NEW f, \A r \in S : f[r] \in Int,
         NEW p \in 0..99, NEW limit \in Nat
  PROVE  Consistent(Cardinality(S), Violations(S, f, limit),
                    Percentile(S, f, p), p, limit)
  <1> SUFFICES ASSUME limit > 0, Cardinality(S) > 0
               PROVE  IF Percentile(S, f, p) > 100 * Scaled(limit)
                      THEN /\ Violations(S, f, limit) > 0
                           /\ 100 * Violations(S, f, limit)
                                >= (100 - p) * (Cardinality(S) - 1)
                      ELSE 100 * Violations(S, f, limit)
                             < (100 - p) * (Cardinality(S) - 1) + 100
    BY DEF Consistent
  <1>1. S # {}
    BY FS_EmptySet
  <1>2. Scaled(limit) \in Int
    BY ScaledType
  <1>3. Violations(S, f, limit) = Cardinality(Above(S, f, Scaled(limit)))
    BY DEF Violations, Above
  <1> QED
    BY <1>1, <1>2, <1>3, PercentileCounts

LEMMA TierFinite ==
  ASSUME TypeOK, NEW t
  PROVE  CompletedOfTier(t) \in SUBSET done /\ IsFiniteSet(CompletedOfTier(t))
  <1>1. CompletedOfTier(t) \in SUBSET done
    BY DEF CompletedOfTier
  <1> QED
    BY <1>1, DoneFinite, FS_Subset

(* The two views that a summary gives of an SLA do not contradict each     *)
(* other: a percentile is above a threshold if at least its share of the   *)
(* completed requests of the tier is counted as violating it, and not      *)
(* otherwise.                                                              *)
THEOREM ViewsOfSLAAgree == TimedSpec => []SLAMatchesPercentiles
  <1>1. ASSUME TypeOK, TimedTypeOK, NEW t \in Tiers
        PROVE  LET tm == TierMetrics(t) IN
               /\ Consistent(tm.count, tm.slaTTFTViol, tm.ttft.p50, 50,
                             SLATTFTMs[t])
               /\ Consistent(tm.count, tm.slaTTFTViol, tm.ttft.p95, 95,
                             SLATTFTMs[t])
               /\ Consistent(tm.count, tm.slaTTFTViol, tm.ttft.p99, 99,
                             SLATTFTMs[t])
               /\ Consistent(tm.count, tm.slaTotalViol, tm.latency.p50, 50,
                             SLATotalMs[t])
               /\ Consistent(tm.count, tm.slaTotalViol, tm.latency.p95, 95,
                             SLATotalMs[t])
               /\ Consistent(tm.count, tm.slaTotalViol, tm.latency.p99, 99,
                             SLATotalMs[t])
    <2> DEFINE S == CompletedOfTier(t)
    <2>1. /\ IsFiniteSet(S)
          /\ \A r \in S : TTFTMs[r] \in Int /\ TotalLatencyMs[r] \in Int
      BY <1>1, TierFinite, DoneFinite, MeasuredTypes
    <2>2. SLATTFTMs[t] \in Nat /\ SLATotalMs[t] \in Nat
      BY <1>1, PolicyAssumption, MetricsAssumption
    <2>3. /\ TierMetrics(t).count = Cardinality(S)
          /\ TierMetrics(t).ttft = Spread(S, TTFTMs)
          /\ TierMetrics(t).latency = Spread(S, TotalLatencyMs)
          /\ TierMetrics(t).slaTTFTViol = Violations(S, TTFTMs, SLATTFTMs[t])
          /\ TierMetrics(t).slaTotalViol
               = Violations(S, TotalLatencyMs, SLATotalMs[t])
      BY DEF TierMetrics
    <2>4. \A f : /\ Spread(S, f).p50 = Percentile(S, f, 50)
                 /\ Spread(S, f).p95 = Percentile(S, f, 95)
                 /\ Spread(S, f).p99 = Percentile(S, f, 99)
      BY DEF Spread
    <2> HIDE DEF S
    <2>5. \A p \in 0..99 :
            /\ Consistent(Cardinality(S), Violations(S, TTFTMs, SLATTFTMs[t]),
                          Percentile(S, TTFTMs, p), p, SLATTFTMs[t])
            /\ Consistent(Cardinality(S),
                          Violations(S, TotalLatencyMs, SLATotalMs[t]),
                          Percentile(S, TotalLatencyMs, p), p, SLATotalMs[t])
      BY <2>1, <2>2, ConsistentView
    <2>6. 50 \in 0..99 /\ 95 \in 0..99 /\ 99 \in 0..99
      OBVIOUS
    <2> QED
      BY <2>3, <2>4, <2>5, <2>6
  <1>2. TimedTypes => SLAMatchesPercentiles
    BY <1>1 DEF TimedTypes, SLAMatchesPercentiles
  <1> QED
    BY <1>2, TimedTypesAlways, PTL

-----------------------------------------------------------------------------
(* util.Mean adds the values of a set in some order; what comes out is the *)
(* sum that the lemmas of ModelProofs are about.                           *)
LEMMA SumIs ==
  ASSUME NEW S, IsFiniteSet(S), NEW f
  PROVE  \E F : Filling!Summing(F, SUBSET S, f) /\ Sum(S, f) = F[S]
  <1> DEFINE F == CHOOSE F : Filling!Summing(F, SUBSET S, f)
  <1>1. Filling!Summing(F, SUBSET S, f)
    BY Filling!SummingExists DEF IsFiniteSet, Filling!IsFiniteSet
  <1>2. Sum(S, f) = F[S]
    BY DEF Sum, MapThenSumSet, MapThenFoldSet, Filling!Summing, Filling!First
  <1> QED
    BY <1>1, <1>2

LEMMA SumIsTokenSum ==
  ASSUME NEW S, IsFiniteSet(S), NEW f, \A x \in S : f[x] \in Nat
  PROVE  Sum(S, f) = TokenSum(S, f) /\ Sum(S, f) \in Nat
  <1>1. PICK F : Filling!Summing(F, SUBSET S, f) /\ Sum(S, f) = F[S]
    BY SumIs
  <1> DEFINE N == Cardinality(S)
             T == {n \in 0..N : \A s \in SUBSET S :
                      Cardinality(s) = n => F[s] = TokenSum(s, f)}
  <1>2. N \in Nat /\ \A s \in SUBSET S : IsFiniteSet(s) /\ Cardinality(s) \in Nat
    BY FS_Subset, FS_CardinalityType
  <1>3. \A s \in SUBSET S :
          F[s] = IF s = {} THEN 0 ELSE f[Filling!First(s)] + F[s \ {Filling!First(s)}]
    BY <1>1 DEF Filling!Summing
  <1>4. 0 \in T
    <2>1. ASSUME NEW s \in SUBSET S, Cardinality(s) = 0
          PROVE  F[s] = TokenSum(s, f)
      <3>1. s = {}
        BY <1>2, <2>1, FS_EmptySet
      <3> QED
        BY <1>3, <3>1, SumEmpty
    <2> QED
      BY <1>2, <2>1
  <1>5. ASSUME NEW n \in 1..N, n - 1 \in T PROVE n \in T
    <2>1. ASSUME NEW s \in SUBSET S, Cardinality(s) = n
          PROVE  F[s] = TokenSum(s, f)
      <3>1. IsFiniteSet(s) /\ s # {}
        BY <1>2, <2>1, FS_EmptySet
      <3> DEFINE x == Filling!First(s)
                 u == s \ {Filling!First(s)}
      <3>2. x \in s /\ IsFiniteSet(u) /\ Cardinality(u) = n - 1
        BY <2>1, <3>1, FS_RemoveElement DEF Filling!First
      <3>3. x \notin u /\ u \cup {x} = s /\ u \in SUBSET S
        BY <3>2
      <3>4. F[s] = f[x] + F[u]
        BY <1>3, <3>1
      <3>5. F[u] = TokenSum(u, f)
        BY <1>5, <3>2, <3>3
      <3> HIDE DEF x, u
      <3>6. \A y \in u \cup {x} : f[y] \in Nat
        BY <3>3
      <3>7. TokenSum(u \cup {x}, f) = TokenSum(u, f) + f[x]
        BY <3>2, <3>3, <3>6, SumAdd
      <3>8. TokenSum(u, f) \in Nat /\ f[x] \in Nat
        BY <3>2, <3>6, SumType
      <3>9. TokenSum(s, f) = TokenSum(u, f) + f[x]
        BY <3>3, <3>7
      <3> QED
        BY <3>4, <3>5, <3>8, <3>9
    <2> QED
      BY <2>1
  <1>6. N \in T
    <2> HIDE DEF T, N
    <2> QED
      BY <1>2, <1>4, <1>5, Filling!UpTo
  <1>7. Sum(S, f) = TokenSum(S, f)
    BY <1>1, <1>6
  <1> QED
    BY <1>7, SumType

LEMMA QuotientGrows ==
  ASSUME NEW a \in Nat, NEW b \in Nat, a <= b, NEW n \in Nat \ {0}
  PROVE  a \div n <= b \div n
  <1> DEFINE p == a \div n
             q == b \div n
  <1>1. /\ p \in Nat /\ a = n * p + (a % n) /\ a % n \in Nat /\ a % n < n
        /\ q \in Nat /\ b = n * q + (b % n) /\ b % n \in Nat /\ b % n < n
    BY NatQuotient, SMT
  <1> HIDE DEF p, q
  <1>2. CASE q + 1 <= p
    <2>1. (q + 1) * n <= p * n
      BY <1>1, <1>2, Products
    <2>2. (q + 1) * n = n * q + n /\ p * n = n * p
      BY <1>1, SMT
    <2>3. n * q \in Nat /\ n * p \in Nat
      BY <1>1, NatProduct
    <2> QED
      BY <1>1, <2>1, <2>2, <2>3
  <1>3. q + 1 <= p \/ p <= q
    BY <1>1
  <1> QED
    BY <1>2, <1>3 DEF p, q

LEMMA MeanDominated ==
  ASSUME NEW S, IsFiniteSet(S), NEW f, NEW g,
         \A r \in S : f[r] \in Nat /\ g[r] \in Nat /\ f[r] <= g[r]
  PROVE  Mean(S, f) <= Mean(S, g)
  <1>1. CASE S = {}
    BY <1>1 DEF Mean
  <1>2. CASE S # {}
    <2>1. Cardinality(S) \in Nat \ {0}
      BY <1>2, FS_CardinalityType, FS_EmptySet
    <2>2. /\ Sum(S, f) = TokenSum(S, f) /\ Sum(S, f) \in Nat
          /\ Sum(S, g) = TokenSum(S, g) /\ Sum(S, g) \in Nat
      BY SumIsTokenSum
    <2>3. Sum(S, f) <= Sum(S, g)
      BY <2>2, SumMonotone
    <2> QED
      BY <1>2, <2>1, <2>2, <2>3, QuotientGrows DEF Mean
  <1> QED
    BY <1>1, <1>2

LEMMA PercentileDominated ==
  ASSUME NEW S, IsFiniteSet(S), NEW f, NEW g,
         \A r \in S : f[r] \in Int /\ g[r] \in Int /\ f[r] <= g[r],
         NEW p \in 0..99
  PROVE  Percentile(S, f, p) <= Percentile(S, g, p)
  <1>1. CASE S = {}
    <2>1. Cardinality(S) = 0
      BY <1>1, FS_EmptySet
    <2> QED
      BY <2>1 DEF Percentile
  <1>2. CASE S # {}
    <2> DEFINE n == Cardinality(S)
               l == Rank(n, p) \div 100
               u == IF n = 1 THEN 0 ELSE l + 1
               frac == Rank(n, p) % 100
    <2>1. n \in Nat \ {0}
      BY <1>2, FS_CardinalityType, FS_EmptySet
    <2>2. frac \in 0..99
      <3> HIDE DEF n
      <3> QED
        BY <2>1, RankSplit
    <2>3. /\ l \in Nat /\ u \in Nat /\ l <= u /\ u < n
          /\ Sorted(S, f, l) \in Int /\ Sorted(S, f, u) \in Int
          /\ Sorted(S, f, l) <= Sorted(S, f, u)
          /\ Percentile(S, f, p)
               = Interpolated(Sorted(S, f, l), Sorted(S, f, u), frac)
      BY <1>2, PercentileIs
    <2>4. /\ Sorted(S, g, l) \in Int /\ Sorted(S, g, u) \in Int
          /\ Sorted(S, g, l) <= Sorted(S, g, u)
          /\ Percentile(S, g, p)
               = Interpolated(Sorted(S, g, l), Sorted(S, g, u), frac)
      BY <1>2, PercentileIs
    <2> HIDE DEF l, u, frac
    <2>5. l < n
      <3> HIDE DEF n
      <3> QED
        BY <2>1, <2>3
    <2>6. /\ Sorted(S, f, l) <= Sorted(S, g, l)
          /\ Sorted(S, f, u) <= Sorted(S, g, u)
      BY <2>3, <2>5, SortedDominated
    <2> DEFINE a == Sorted(S, f, l)
               b == Sorted(S, f, u)
               c == Sorted(S, g, l)
               d == Sorted(S, g, u)
    <2>7. /\ a \in Int /\ b \in Int /\ c \in Int /\ d \in Int
          /\ a <= b /\ c <= d /\ a <= c /\ b <= d /\ frac <= frac
      BY <2>2, <2>3, <2>4, <2>6
    <2> HIDE DEF a, b, c, d
    <2>8. Interpolated(a, b, frac) <= Interpolated(c, d, frac)
      BY <2>2, <2>7, InterpolatedGrows
    <2> QED
      BY <2>3, <2>4, <2>8 DEF a, b, c, d
  <1> QED
    BY <1>1, <1>2

LEMMA PercentileMonotone ==
  ASSUME NEW S, IsFiniteSet(S), NEW f, \A r \in S : f[r] \in Int,
         NEW p \in 0..99, NEW q \in 0..99, p <= q
  PROVE  Percentile(S, f, p) <= Percentile(S, f, q)
  <1>1. CASE S = {}
    <2>1. Cardinality(S) = 0
      BY <1>1, FS_EmptySet
    <2> QED
      BY <2>1 DEF Percentile
  <1>2. CASE S # {}
    <2> DEFINE n == Cardinality(S)
               i == Rank(n, p) \div 100
               k == Rank(n, q) \div 100
               i1 == IF n = 1 THEN 0 ELSE i + 1
               k1 == IF n = 1 THEN 0 ELSE k + 1
               low == Rank(n, p) % 100
               high == Rank(n, q) % 100
    <2>1. n \in Nat \ {0}
      BY <1>2, FS_CardinalityType, FS_EmptySet
    <2>2. /\ low \in 0..99 /\ high \in 0..99 /\ i \in Nat /\ k \in Nat
          /\ Rank(n, p) = 100 * i + low /\ Rank(n, q) = 100 * k + high
          /\ Rank(n, p) = p * (n - 1) /\ Rank(n, q) = q * (n - 1)
          /\ i < n /\ k < n
      <3> HIDE DEF n
      <3> QED
        BY <2>1, RankSplit
    <2>3. Rank(n, p) <= Rank(n, q)
      <3> HIDE DEF n
      <3>1. n - 1 \in Nat /\ p \in Int /\ q \in Int
        BY <2>1
      <3>2. p * (n - 1) <= q * (n - 1)
        BY <3>1, Products
      <3> QED
        BY <2>2, <3>2
    <2>4. /\ i1 \in Nat /\ i <= i1 /\ i1 < n
          /\ Sorted(S, f, i) \in Int /\ Sorted(S, f, i1) \in Int
          /\ Sorted(S, f, i) <= Sorted(S, f, i1)
          /\ Percentile(S, f, p)
               = Interpolated(Sorted(S, f, i), Sorted(S, f, i1), low)
      BY <1>2, PercentileIs
    <2>5. /\ k1 \in Nat /\ k <= k1 /\ k1 < n
          /\ Sorted(S, f, k) \in Int /\ Sorted(S, f, k1) \in Int
          /\ Sorted(S, f, k) <= Sorted(S, f, k1)
          /\ Percentile(S, f, q)
               = Interpolated(Sorted(S, f, k), Sorted(S, f, k1), high)
      BY <1>2, PercentileIs
    <2> HIDE DEF i, k, low, high
    <2>6. CASE i = k
      <3>1. low <= high /\ i1 = k1
        BY <2>2, <2>3, <2>6
      <3>2. /\ Sorted(S, f, i) <= Sorted(S, f, k)
            /\ Sorted(S, f, i1) <= Sorted(S, f, k1)
        BY <2>4, <2>5, <2>6, <3>1
      <3> HIDE DEF i1, k1
      <3> DEFINE a == Sorted(S, f, i)
                 b == Sorted(S, f, i1)
                 c == Sorted(S, f, k)
                 d == Sorted(S, f, k1)
      <3>3. /\ a \in Int /\ b \in Int /\ c \in Int /\ d \in Int
            /\ a <= b /\ c <= d /\ a <= c /\ b <= d
        BY <2>4, <2>5, <3>2
      <3> HIDE DEF a, b, c, d
      <3>4. Interpolated(a, b, low) <= Interpolated(c, d, high)
        BY <2>2, <3>1, <3>3, InterpolatedGrows
      <3> QED
        BY <2>4, <2>5, <3>4 DEF a, b, c, d
    <2>7. CASE i # k
      <3>1. i < k /\ i1 <= k
        <4> HIDE DEF n
        <4> QED
          BY <2>1, <2>2, <2>3, <2>7
      <3> HIDE DEF i1, k1
      <3>2. Sorted(S, f, i1) <= Sorted(S, f, k)
        BY <2>2, <2>4, <3>1, SortedMonotone
      <3>3. Percentile(S, f, p) <= 100 * Sorted(S, f, i1)
        BY <2>2, <2>4, InterpolatedBetween
      <3>4. 100 * Sorted(S, f, k) <= Percentile(S, f, q)
        BY <2>2, <2>5, InterpolatedBetween
      <3>5. Percentile(S, f, p) \in Int /\ Percentile(S, f, q) \in Int
        BY <1>2, PercentileNear
      <3> QED
        BY <2>4, <2>5, <3>2, <3>3, <3>4, <3>5
    <2> QED
      BY <2>6, <2>7
  <1> QED
    BY <1>1, <1>2

-----------------------------------------------------------------------------
LEMMA DelaysOfDone ==
  ASSUME Regular, TypeOK, TimedTypeOK, TimestampsOrdered, NEW r \in done
  PROVE  /\ QueueDelayMs[r] \in Nat /\ TTFTMs[r] \in Nat
         /\ TotalLatencyMs[r] \in Nat
         /\ QueueDelayMs[r] <= TTFTMs[r] /\ TTFTMs[r] <= TotalLatencyMs[r]
  <1> DEFINE at == Scaled(ArrivalMs[r])
             disp == dispatchMs[r]
             first == firstTokenMs[r]
             compl == completionMs[r]
  <1>1. r \in Requests
    BY DEF TypeOK
  <1>2. at \in Nat
    BY <1>1, ScaledType, PolicyAssumption DEF Regular
  <1>3. disp \in Int /\ first \in Int /\ compl \in Int
    BY <1>1 DEF TimedTypeOK
  <1>4. at <= disp /\ disp < first /\ first <= compl
    BY DEF TimestampsOrdered
  <1>5. /\ QueueDelayMs[r] = IF disp <= 0 THEN 0 ELSE disp - at
        /\ TTFTMs[r] = IF first <= 0 THEN 0 ELSE first - at
        /\ TotalLatencyMs[r] = IF compl <= 0 THEN 0 ELSE compl - at
    BY <1>1 DEF QueueDelayMs, TTFTMs, TotalLatencyMs, Since
  <1> HIDE DEF at, disp, first, compl
  <1> QED
    BY <1>2, <1>3, <1>4, <1>5

(* Preempted or not, requests wait no longer than they wait for a token,   *)
(* and for a token no longer than for all of them: so do the means and the *)
(* percentiles of every tier, though each sorts the requests differently.  *)
THEOREM DelaysInOrder ==
  ASSUME Regular
  PROVE  TimedSpec => []DelaysOrdered
  <1>1. ASSUME TypeOK, TimedTypeOK, TimestampsOrdered, NEW t \in Tiers
        PROVE  LET tm == TierMetrics(t) IN
               /\ tm.avgQueueMs <= tm.ttft.avg
               /\ tm.ttft.avg <= tm.latency.avg
               /\ tm.ttft.p50 <= tm.latency.p50
               /\ tm.latency.p50 <= tm.latency.p95
               /\ tm.ttft.p95 <= tm.latency.p95
               /\ tm.latency.p95 <= tm.latency.p99
               /\ tm.ttft.p99 <= tm.latency.p99
    <2> DEFINE S == CompletedOfTier(t)
    <2>1. IsFiniteSet(S) /\ S \in SUBSET done
      BY <1>1, TierFinite
    <2>2. /\ TierMetrics(t).ttft = Spread(S, TTFTMs)
          /\ TierMetrics(t).latency = Spread(S, TotalLatencyMs)
          /\ TierMetrics(t).avgQueueMs = Mean(S, QueueDelayMs)
      BY DEF TierMetrics
    <2>3. \A f : /\ Spread(S, f).p50 = Percentile(S, f, 50)
                 /\ Spread(S, f).p95 = Percentile(S, f, 95)
                 /\ Spread(S, f).p99 = Percentile(S, f, 99)
                 /\ Spread(S, f).avg = Mean(S, f)
      BY DEF Spread
    <2> HIDE DEF S
    <2>4. \A r \in S :
            /\ QueueDelayMs[r] \in Nat /\ TTFTMs[r] \in Nat
            /\ TotalLatencyMs[r] \in Nat
            /\ QueueDelayMs[r] <= TTFTMs[r] /\ TTFTMs[r] <= TotalLatencyMs[r]
      BY <1>1, <2>1, DelaysOfDone
    <2>5. /\ Mean(S, QueueDelayMs) <= Mean(S, TTFTMs)
          /\ Mean(S, TTFTMs) <= Mean(S, TotalLatencyMs)
      BY <2>1, <2>4, MeanDominated
    <2>6. \A r \in S : TTFTMs[r] \in Int /\ TotalLatencyMs[r] \in Int
      BY <2>4
    <2>7. \A p \in 0..99 :
            Percentile(S, TTFTMs, p) <= Percentile(S, TotalLatencyMs, p)
      BY <2>1, <2>4, <2>6, PercentileDominated
    <2>8. \A p, q \in 0..99 : p <= q =>
            Percentile(S, TotalLatencyMs, p) <= Percentile(S, TotalLatencyMs, q)
      BY <2>1, <2>6, PercentileMonotone
    <2>9. /\ 50 \in 0..99 /\ 95 \in 0..99 /\ 99 \in 0..99
          /\ 50 <= 95 /\ 95 <= 99
      OBVIOUS
    <2> QED
      BY <2>2, <2>3, <2>5, <2>7, <2>8, <2>9
  <1>2. TimedTypes /\ TimestampsOrdered => DelaysOrdered
    BY <1>1 DEF TimedTypes, DelaysOrdered
  <1> QED
    BY <1>2, TimedTypesAlways, TimestampsInOrder, PTL

-----------------------------------------------------------------------------
(* Sums that grow.                                                         *)
LEMMA SumOneMoreEach ==
  ASSUME NEW S, IsFiniteSet(S), NEW f, NEW g,
         \A x \in S : f[x] \in Nat /\ g[x] \in Nat /\ g[x] <= f[x] + 1
  PROVE  TokenSum(S, g) <= TokenSum(S, f) + Cardinality(S)
  <1> DEFINE next == [x \in S |-> <<x, f[x] + 1>>]
             T == {next[x] : x \in S}
  <1>1. next \in Surjection(S, T)
    BY DEF Surjection
  <1>2. IsFiniteSet(T) /\ Cardinality(T) <= Cardinality(S)
    <2> HIDE DEF T, next
    <2> QED
      BY <1>1, FS_Surjection
  <1>3. \A x \in S : 1..g[x] \subseteq (1..f[x]) \cup {f[x] + 1}
    OBVIOUS
  <1>4. Slots(S, g) \subseteq Slots(S, f) \cup T
    BY <1>3 DEF Slots
  <1> HIDE DEF T
  <1>5. IsFiniteSet(Slots(S, f))
    BY SumType
  <1>6. /\ IsFiniteSet(Slots(S, f) \cup T)
        /\ Cardinality(Slots(S, f) \cup T)
             = Cardinality(Slots(S, f)) + Cardinality(T)
                 - Cardinality(Slots(S, f) \cap T)
        /\ IsFiniteSet(Slots(S, f) \cap T)
    <2>1. Slots(S, f) \cap T \in SUBSET T
      OBVIOUS
    <2> QED
      BY <1>2, <1>5, <2>1, FS_Union, FS_Subset
  <1>7. Cardinality(Slots(S, g)) <= Cardinality(Slots(S, f) \cup T)
    BY <1>4, <1>6, FS_Subset
  <1>8. /\ Cardinality(Slots(S, f)) \in Nat /\ Cardinality(T) \in Nat
        /\ Cardinality(Slots(S, f) \cap T) \in Nat /\ Cardinality(S) \in Nat
        /\ Cardinality(Slots(S, g)) \in Nat
    <2>1. IsFiniteSet(Slots(S, g))
      BY SumType
    <2> QED
      BY <1>2, <1>5, <1>6, <2>1, FS_CardinalityType
  <1>9. Cardinality(Slots(S, g)) <= Cardinality(Slots(S, f)) + Cardinality(S)
    BY <1>2, <1>6, <1>7, <1>8
  <1> QED
    BY <1>9 DEF TokenSum

LEMMA SumSplit ==
  ASSUME NEW S, IsFiniteSet(S), NEW T \in SUBSET S,
         NEW f, \A x \in S : f[x] \in Nat
  PROVE  /\ IsFiniteSet(T) /\ IsFiniteSet(S \ T)
         /\ TokenSum(T, f) \in Nat /\ TokenSum(S \ T, f) \in Nat
         /\ TokenSum(S, f) = TokenSum(T, f) + TokenSum(S \ T, f)
  <1>1. IsFiniteSet(T) /\ IsFiniteSet(S \ T)
    BY FS_Subset
  <1>2. T \cup (S \ T) = S /\ T \cap (S \ T) = {}
    OBVIOUS
  <1>3. TokenSum(T \cup (S \ T), f) = TokenSum(T, f) + TokenSum(S \ T, f)
    BY <1>1, <1>2, SumUnion
  <1> QED
    BY <1>1, <1>2, <1>3, SumType

LEMMA SumWithout ==
  ASSUME NEW S, IsFiniteSet(S), NEW z \in S, NEW f, \A x \in S : f[x] \in Nat
  PROVE  /\ IsFiniteSet(S \ {z}) /\ TokenSum(S \ {z}, f) \in Nat
         /\ TokenSum(S, f) = TokenSum(S \ {z}, f) + f[z]
  <1>1. IsFiniteSet(S \ {z})
    BY FS_RemoveElement
  <1>2. (S \ {z}) \cup {z} = S /\ z \notin S \ {z}
    OBVIOUS
  <1>3. TokenSum((S \ {z}) \cup {z}, f) = TokenSum(S \ {z}, f) + f[z]
    BY <1>1, <1>2, SumAdd
  <1> QED
    BY <1>1, <1>2, <1>3, SumType

LEMMA SumRises ==
  ASSUME NEW S, IsFiniteSet(S), NEW z \in S, NEW f, NEW g, NEW n \in Nat,
         \A x \in S : f[x] \in Nat, \A x \in S : g[x] \in Nat,
         \A x \in S : f[x] <= g[x], f[z] + n <= g[z]
  PROVE  TokenSum(S, f) + n <= TokenSum(S, g)
  <1>1. /\ IsFiniteSet(S \ {z}) /\ TokenSum(S \ {z}, f) \in Nat
        /\ TokenSum(S, f) = TokenSum(S \ {z}, f) + f[z]
    BY SumWithout
  <1>2. /\ TokenSum(S \ {z}, g) \in Nat
        /\ TokenSum(S, g) = TokenSum(S \ {z}, g) + g[z]
    BY SumWithout
  <1>3. TokenSum(S \ {z}, f) <= TokenSum(S \ {z}, g)
    BY <1>1, SumMonotone
  <1> QED
    BY <1>1, <1>2, <1>3

LEMMA SumConstant ==
  ASSUME NEW S, IsFiniteSet(S), NEW n \in Nat
  PROVE  TokenSum(S, [x \in S |-> n]) = n * Cardinality(S)
  <1>1. Slots(S, [x \in S |-> n]) = S \X (1..n)
    BY DEF Slots
  <1>2. IsFiniteSet(1..n) /\ Cardinality(1..n) = n
    BY FS_Interval
  <1>3. Cardinality(S \X (1..n)) = Cardinality(S) * n
    BY <1>2, FS_Product
  <1>4. Cardinality(S) * n = n * Cardinality(S)
    <2>1. Cardinality(S) \in Nat
      BY FS_CardinalityType
    <2> QED
      BY <2>1, SMT
  <1> QED
    BY <1>1, <1>3, <1>4 DEF TokenSum

-----------------------------------------------------------------------------
(* Each step that is over has paid for a full batch at the base time: what *)
(* a worker is charged beyond the base time of the step it is in.          *)
Base == Scaled(timing.baseMs)

Paid == [w \in Workers |-> busyTimeMs[w] - (IF batch[w] # <<>> THEN Base ELSE 0)]

PaidInv ==
  /\ \A w \in Workers : busyTimeMs[w] \in Nat /\ Paid[w] \in Nat
  /\ TokenSum(Requests, generated) * Base
       <= MaxBatchSize * TokenSum(Workers, Paid)

LEMMA InitPaid ==
  ASSUME TimedInit
  PROVE  PaidInv
  <1>1. /\ \A w \in Workers : busyTimeMs[w] = 0 /\ batch[w] = <<>>
        /\ \A r \in Requests : generated[r] = 0 /\ timing \in TimingChoice
    BY DEF TimedInit, Init
  <1>2. \A w \in Workers : Paid[w] = 0
    BY <1>1 DEF Paid
  <1>3. TokenSum(Requests, generated) = 0 /\ TokenSum(Workers, Paid) = 0
    BY <1>1, <1>2, SumZero
  <1>4. Base \in Int
    <2>1. timing \in TimingChoice
      BY DEF TimedInit
    <2> QED
      BY <2>1, TimedAssumption, ScaledType DEF Base
  <1>5. 0 * Base = 0 /\ MaxBatchSize * 0 = 0
    BY <1>4, ModelAssumption, SMT
  <1> QED
    BY <1>1, <1>2, <1>3, <1>5 DEF PaidInv

LEMMA ArrivalPaid ==
  ASSUME Regular, TypeOK, TypeOK', TimedTypeOK, MatchedWithin', PaidInv,
         NEW r \in Requests, TimedArrival(r), NEW fill, ArrivalMoves(r, fill)
  PROVE  PaidInv'
  <1>1. clock' \in Int /\ Charged(Joining(fill)) /\ timing' = timing
    BY ArrivalTimes
  <1>2. Base \in Nat /\ Base' = Base
    BY <1>1, BasePositive DEF Base, Scaled
  <1>3. ASSUME NEW w \in Workers
        PROVE  /\ busyTimeMs'[w] \in Nat /\ Paid'[w] \in Nat
               /\ Paid[w] \in Nat /\ Paid[w] <= Paid'[w]
    <2>1. busyTimeMs[w] \in Nat /\ Paid[w] \in Nat
      BY DEF PaidInv
    <2>2. /\ Paid[w] = busyTimeMs[w] - (IF batch[w] # <<>> THEN Base ELSE 0)
          /\ Paid'[w] = busyTimeMs'[w] - (IF batch'[w] # <<>> THEN Base ELSE 0)
      BY <1>2 DEF Paid
    <2>3. CASE w \in Joining(fill)
      <3>1. batch[w] = <<>> /\ batch'[w] # <<>>
        BY <2>3 DEF ArrivalMoves, Joining
      <3>2. PICK d \in Int : d >= Base /\ busyTimeMs'[w] = busyTimeMs[w] + d
        BY <1>1, <2>3, ChargedTakesTime DEF Base
      <3> QED
        BY <1>2, <2>1, <2>2, <3>1, <3>2
    <2>4. CASE w \notin Joining(fill)
      <3>1. batch'[w] = batch[w]
        BY <2>4 DEF ArrivalMoves, Joining
      <3>2. busyTimeMs'[w] = busyTimeMs[w]
        BY <1>1, <2>4 DEF Charged
      <3> QED
        BY <2>1, <2>2, <3>1, <3>2
    <2> QED
      BY <2>3, <2>4
  <1>4. PICK f : f = Paid'
    OBVIOUS
  <1>5. TokenSum(Workers, Paid) <= TokenSum(Workers, f)
        /\ TokenSum(Workers, Paid) \in Nat /\ TokenSum(Workers, f) \in Nat
    BY <1>3, <1>4, WorkersFinite, SumMonotone, SumType
  <1>6. MaxBatchSize * TokenSum(Workers, Paid)
          <= MaxBatchSize * TokenSum(Workers, f)
    <2> DEFINE a == TokenSum(Workers, Paid)
               b == TokenSum(Workers, f)
    <2>1. a \in Nat /\ b \in Nat /\ a <= b /\ MaxBatchSize \in Nat
      BY <1>5, ModelAssumption
    <2> HIDE DEF a, b
    <2>2. a * MaxBatchSize <= b * MaxBatchSize
      BY <2>1, Products
    <2>3. a * MaxBatchSize = MaxBatchSize * a /\ b * MaxBatchSize = MaxBatchSize * b
      BY <2>1, SMT
    <2> QED
      BY <2>2, <2>3 DEF a, b
  <1>7. generated' = generated
    BY DEF ArrivalMoves
  <1>8. TokenSum(Requests, generated) * Base \in Int
    <2>1. generated \in [Requests -> Nat] /\ Requests \in SUBSET Requests
      BY DEF TypeOK
    <2>2. TokenSum(Requests, generated) \in Int
      BY <2>1, SumOfRequests
    <2> QED
      BY <1>2, <2>2, ProductType
  <1>9. TokenSum(Requests, generated') * Base' <= MaxBatchSize * TokenSum(Workers, Paid')
    <2>1. /\ MaxBatchSize * TokenSum(Workers, Paid) \in Int
          /\ MaxBatchSize * TokenSum(Workers, f) \in Int
      BY <1>5, ModelAssumption, ProductType
    <2>2. TokenSum(Requests, generated) * Base
            <= MaxBatchSize * TokenSum(Workers, Paid)
      BY DEF PaidInv
    <2> QED
      BY <1>2, <1>4, <1>6, <1>7, <1>8, <2>1, <2>2
  <1> QED
    BY <1>3, <1>9 DEF PaidInv

LEMMA StepTokens ==
  ASSUME TypeOK, TypeOK', P!Inv, NEW w \in Workers,
         NEW S, NEW V, NEW F, StepMoves(w, S, V, F)
  PROVE  /\ TokenSum(Requests, generated) \in Nat
         /\ TokenSum(Requests, generated') \in Nat
         /\ TokenSum(Requests, generated')
              <= TokenSum(Requests, generated) + MaxBatchSize
  <1> DEFINE B == ToSet(batch[w])
  <1>1. PICK f : f = generated'
    OBVIOUS
  <1>2. generated \in [Requests -> Nat] /\ f \in [Requests -> Nat]
    BY <1>1 DEF TypeOK
  <1>3. B \in SUBSET Requests /\ IsFiniteSet(Requests)
    BY MembersOf, ModelAssumption DEF TypeOK
  <1>4. IsFiniteSet(B) /\ Cardinality(B) <= MaxBatchSize /\ Cardinality(B) \in Nat
    <2>1. Cardinality(B) <= MaxBatchSize
      <3>1. P!Cardinality(B) = Cardinality(B)
        BY DEF P!Cardinality, Cardinality
      <3>2. P!Cardinality(B) <= MaxBatchSize
        BY DEF P!Inv, P!BatchWithinLimit
      <3> QED
        BY <3>1, <3>2
    <2> QED
      BY <1>3, <2>1, FS_Subset, FS_CardinalityType
  <1>5. /\ \A r \in B : f[r] <= generated[r] + 1
        /\ \A r \in Requests \ B : f[r] <= generated[r]
    <2>1. \A r \in Requests :
            f[r] = IF r \in V THEN 0
                   ELSE IF r \in B THEN generated[r] + 1 ELSE generated[r]
      BY <1>1 DEF StepMoves
    <2> HIDE DEF B
    <2> QED
      BY <1>2, <1>3, <2>1
  <1> HIDE DEF B
  <1>6. /\ TokenSum(B, generated) \in Nat
        /\ TokenSum(Requests \ B, generated) \in Nat
        /\ IsFiniteSet(Requests \ B)
        /\ TokenSum(Requests, generated)
             = TokenSum(B, generated) + TokenSum(Requests \ B, generated)
    <2>1. \A r \in Requests : generated[r] \in Nat
      BY <1>2
    <2> QED
      BY <1>3, <2>1, SumSplit
  <1>7. /\ TokenSum(B, f) \in Nat /\ TokenSum(Requests \ B, f) \in Nat
        /\ TokenSum(Requests, f) = TokenSum(B, f) + TokenSum(Requests \ B, f)
    <2>1. \A r \in Requests : f[r] \in Nat
      BY <1>2
    <2> QED
      BY <1>3, <2>1, SumSplit
  <1>8. TokenSum(B, f) <= TokenSum(B, generated) + Cardinality(B)
    BY <1>2, <1>3, <1>4, <1>5, SumOneMoreEach
  <1>9. TokenSum(Requests \ B, f) <= TokenSum(Requests \ B, generated)
    BY <1>2, <1>5, <1>6, SumMonotone
  <1> QED
    BY <1>1, <1>4, <1>6, <1>7, <1>8, <1>9, ModelAssumption

LEMMA PaidFor ==
  ASSUME NEW tokens \in Nat, NEW more \in Nat, NEW limit \in Nat,
         more <= tokens + limit, NEW base \in Nat,
         NEW paid \in Nat, NEW after \in Nat, paid + base <= after,
         tokens * base <= limit * paid
  PROVE  more * base <= limit * after
  <1>1. more * base <= (tokens + limit) * base
    BY Products
  <1>2. (tokens + limit) * base = tokens * base + limit * base
    BY SMT
  <1>3. (paid + base) * limit <= after * limit
    BY Products
  <1>4. /\ (paid + base) * limit = limit * paid + limit * base
        /\ after * limit = limit * after
    BY SMT
  <1>5. /\ more * base \in Nat /\ tokens * base \in Nat /\ limit * base \in Nat
        /\ limit * paid \in Nat /\ limit * after \in Nat
    BY NatProduct
  <1> QED
    BY <1>1, <1>2, <1>3, <1>4, <1>5

LEMMA StepPaid ==
  ASSUME Regular, TypeOK, TypeOK', P!Inv, TimedTypeOK, MatchedWithin', PaidInv,
         NEW w \in Workers, TimedStep(w), batch[w] # <<>>,
         NEW S, NEW V, NEW F, StepMoves(w, S, V, F)
  PROVE  PaidInv'
  <1>1. clock' \in Int /\ Charged(Stepping(w)) /\ timing' = timing
    BY StepTimes
  <1>2. Base \in Nat /\ Base' = Base
    BY <1>1, BasePositive DEF Base, Scaled
  <1>3. ASSUME NEW v \in Workers
        PROVE  /\ busyTimeMs'[v] \in Nat /\ Paid'[v] \in Nat
               /\ Paid[v] \in Nat /\ Paid[v] <= Paid'[v]
               /\ v = w => Paid[v] + Base <= Paid'[v]
    <2>1. busyTimeMs[v] \in Nat /\ Paid[v] \in Nat
      BY DEF PaidInv
    <2>2. /\ Paid[v] = busyTimeMs[v] - (IF batch[v] # <<>> THEN Base ELSE 0)
          /\ Paid'[v] = busyTimeMs'[v] - (IF batch'[v] # <<>> THEN Base ELSE 0)
      BY <1>2 DEF Paid
    <2>3. CASE v \in Stepping(w)
      <3>1. v = w /\ batch'[v] # <<>>
        BY <2>3 DEF Stepping
      <3>2. PICK d \in Int : d >= Base /\ busyTimeMs'[v] = busyTimeMs[v] + d
        BY <1>1, <2>3, ChargedTakesTime DEF Base
      <3> QED
        BY <1>2, <2>1, <2>2, <3>1, <3>2
    <2>4. CASE v \notin Stepping(w)
      <3>1. busyTimeMs'[v] = busyTimeMs[v]
        BY <1>1, <2>4 DEF Charged
      <3>2. CASE v = w
        <4>1. batch'[v] = <<>>
          BY <2>4, <3>2 DEF Stepping
        <4> QED
          BY <1>2, <2>1, <2>2, <3>1, <3>2, <4>1
      <3>3. CASE v # w
        <4>1. batch'[v] = batch[v]
          BY <3>3 DEF StepMoves
        <4> QED
          BY <2>1, <2>2, <3>1, <3>3, <4>1
      <3> QED
        BY <3>2, <3>3
    <2> QED
      BY <2>3, <2>4
  <1>4. PICK f : f = Paid'
    OBVIOUS
  <1>5. /\ TokenSum(Workers, Paid) \in Nat /\ TokenSum(Workers, f) \in Nat
        /\ TokenSum(Workers, Paid) + Base <= TokenSum(Workers, f)
    <2>1. /\ \A v \in Workers : Paid[v] \in Nat /\ f[v] \in Nat /\ Paid[v] <= f[v]
          /\ Paid[w] + Base <= f[w]
      BY <1>3, <1>4
    <2> QED
      BY <1>2, <2>1, WorkersFinite, SumRises, SumType
  <1>6. PICK g : g = generated'
    OBVIOUS
  <1>7. /\ TokenSum(Requests, generated) \in Nat /\ TokenSum(Requests, g) \in Nat
        /\ TokenSum(Requests, g) <= TokenSum(Requests, generated) + MaxBatchSize
    BY <1>6, StepTokens
  <1>8. /\ TokenSum(Requests, generated) * Base
              <= MaxBatchSize * TokenSum(Workers, Paid)
        /\ MaxBatchSize \in Nat
    BY ModelAssumption DEF PaidInv
  <1>9. TokenSum(Requests, g) * Base <= MaxBatchSize * TokenSum(Workers, f)
    BY <1>2, <1>5, <1>7, <1>8, PaidFor
  <1> QED
    BY <1>2, <1>3, <1>4, <1>6, <1>9 DEF PaidInv

LEMMA NextPaid ==
  ASSUME Regular, Timely, PaidInv, [TimedNext]_allVars
  PROVE  PaidInv'
  <1>1. /\ Busy /\ MatchedWithin' /\ TypeOK /\ TypeOK' /\ P!Inv /\ TimedTypeOK
    BY NextTimely
  <1>2. ASSUME NEW r \in Requests, Arrival(r), TimedArrival(r)
        PROVE  PaidInv'
    <2>1. PICK fill : ArrivalMoves(r, fill)
      BY <1>1, <1>2, ArrivalShape
    <2> QED
      BY <1>1, <1>2, <2>1, ArrivalPaid
  <1>3. ASSUME NEW w \in Workers, TokenStepDone(w), TimedStep(w)
        PROVE  PaidInv'
    <2>1. PICK S, V, F : StepMoves(w, S, V, F)
      BY <1>1, <1>3, StepShape
    <2>2. batch[w] # <<>>
      BY <1>1, <1>3 DEF Busy, TokenStepDone
    <2> QED
      BY <1>1, <1>3, <2>1, <2>2, StepPaid
  <1>4. CASE UNCHANGED <<batch, generated, timing, busyTimeMs>>
    BY <1>4 DEF PaidInv, Paid, Base, Scaled
  <1>5. PeriodicSample /\ UNCHANGED vars
          => UNCHANGED <<batch, generated, timing, busyTimeMs>>
    BY DEF PeriodicSample, vars
  <1>6. UNCHANGED allVars => UNCHANGED <<batch, generated, timing, busyTimeMs>>
    BY DEF allVars, vars, timedVars
  <1> QED
    BY <1>2, <1>3, <1>4, <1>5, <1>6, TimedSteps

(* What the summary reports is covered by what was paid.                   *)
LEMMA DoneTokens ==
  ASSUME TypeOK, P!Inv
  PROVE  /\ Sum(done, OutputTokens) \in Nat
         /\ Sum(done, OutputTokens) <= TokenSum(Requests, generated)
  <1>1. /\ done \in SUBSET Requests /\ IsFiniteSet(done) /\ IsFiniteSet(Requests)
        /\ generated \in [Requests -> Nat]
    BY DoneFinite, ModelAssumption DEF TypeOK
  <1>2. \A r \in Requests : OutputTokens[r] \in Nat /\ generated[r] \in Nat
    BY <1>1, ModelAssumption
  <1>3. \A r \in done : OutputTokens[r] <= generated[r]
    <2> SUFFICES ASSUME NEW r \in done PROVE OutputTokens[r] <= generated[r]
      OBVIOUS
    <2>1. r \in Requests /\ generated[r] = P!TokensWanted(r)
      BY <1>1 DEF P!Inv, P!TokenAccounting
    <2> QED
      BY <1>2, <2>1 DEF P!TokensWanted
  <1>4. /\ Sum(done, OutputTokens) = TokenSum(done, OutputTokens)
        /\ Sum(done, OutputTokens) \in Nat
    BY <1>1, <1>2, SumIsTokenSum
  <1>5. TokenSum(done, OutputTokens) <= TokenSum(done, generated)
    BY <1>1, <1>2, <1>3, SumMonotone
  <1>6. /\ TokenSum(done, generated) \in Nat
        /\ TokenSum(Requests \ done, generated) \in Nat
        /\ TokenSum(Requests, generated)
             = TokenSum(done, generated) + TokenSum(Requests \ done, generated)
    <2>1. \A r \in Requests : generated[r] \in Nat
      BY <1>2
    <2> QED
      BY <1>1, <2>1, SumSplit
  <1> QED
    BY <1>4, <1>5, <1>6

LEMMA BusyCovers ==
  ASSUME Regular, TimedTypeOK, PaidInv
  PROVE  /\ Sum(Workers, busyTimeMs) = TokenSum(Workers, busyTimeMs)
         /\ Sum(Workers, busyTimeMs) \in Nat /\ TokenSum(Workers, Paid) \in Nat
         /\ TokenSum(Workers, Paid) <= Sum(Workers, busyTimeMs)
  <1>1. Base \in Nat
    BY BasePositive DEF Base
  <1>2. \A w \in Workers : /\ busyTimeMs[w] \in Nat /\ Paid[w] \in Nat
                           /\ Paid[w] <= busyTimeMs[w]
    BY <1>1 DEF PaidInv, Paid
  <1>3. /\ Sum(Workers, busyTimeMs) = TokenSum(Workers, busyTimeMs)
        /\ Sum(Workers, busyTimeMs) \in Nat
    BY <1>2, WorkersFinite, SumIsTokenSum
  <1>4. TokenSum(Workers, Paid) <= TokenSum(Workers, busyTimeMs)
        /\ TokenSum(Workers, Paid) \in Nat
    BY <1>2, WorkersFinite, SumMonotone, SumType
  <1> QED
    BY <1>3, <1>4

LEMMA TokensPaidFor ==
  ASSUME Regular, TypeOK, P!Inv, TimedTypeOK, PaidInv
  PROVE  Sum(done, OutputTokens) * Base
           <= MaxBatchSize * Sum(Workers, busyTimeMs)
  <1> DEFINE out == Sum(done, OutputTokens)
             tokens == TokenSum(Requests, generated)
             paid == TokenSum(Workers, Paid)
             busy == Sum(Workers, busyTimeMs)
  <1>1. out \in Nat /\ out <= tokens
    BY DoneTokens
  <1>2. paid \in Nat /\ busy \in Nat /\ paid <= busy
    BY BusyCovers
  <1>3. tokens \in Nat
    <2>1. generated \in [Requests -> Nat] /\ Requests \in SUBSET Requests
      BY DEF TypeOK
    <2> QED
      BY <2>1, SumOfRequests
  <1>4. tokens * Base <= MaxBatchSize * paid
    BY DEF PaidInv
  <1>5. Base \in Nat /\ MaxBatchSize \in Nat
    BY BasePositive, ModelAssumption DEF Base
  <1> HIDE DEF out, tokens, paid, busy
  <1>6. out * Base <= tokens * Base
    BY <1>1, <1>3, <1>5, Products
  <1>7. paid * MaxBatchSize <= busy * MaxBatchSize
    BY <1>2, <1>5, Products
  <1>8. /\ paid * MaxBatchSize = MaxBatchSize * paid
        /\ busy * MaxBatchSize = MaxBatchSize * busy
    BY <1>2, <1>5, SMT
  <1>9. /\ out * Base \in Int /\ tokens * Base \in Int
        /\ MaxBatchSize * paid \in Int /\ MaxBatchSize * busy \in Int
    BY <1>1, <1>2, <1>3, <1>5, ProductType
  <1>10. out * Base <= MaxBatchSize * busy
    BY <1>4, <1>6, <1>7, <1>8, <1>9
  <1> QED
    BY <1>10 DEF out, busy

LEMMA BusyWithinClock ==
  ASSUME TimedTypeOK, ClockInv, PaidInv, BusyWithinElapsed, RunOver
  PROVE  Sum(Workers, busyTimeMs) <= clock * Cardinality(Workers)
  <1> DEFINE f == [w \in Workers |-> clock]
  <1>1. clock \in Nat
    BY DEF ClockInv
  <1>2. \A w \in Workers : /\ busyTimeMs[w] \in Nat /\ f[w] \in Nat
                           /\ busyTimeMs[w] <= f[w]
    BY <1>1 DEF PaidInv, BusyWithinElapsed, RunOver
  <1> HIDE DEF f
  <1>3. Sum(Workers, busyTimeMs) = TokenSum(Workers, busyTimeMs)
    BY <1>2, WorkersFinite, SumIsTokenSum
  <1>4. TokenSum(Workers, busyTimeMs) <= TokenSum(Workers, f)
    BY <1>2, WorkersFinite, SumMonotone
  <1>5. TokenSum(Workers, f) = clock * Cardinality(Workers)
    BY <1>1, WorkersFinite, SumConstant DEF f
  <1> QED
    BY <1>3, <1>4, <1>5

(* Throughput is backed by work: the cluster emits no more tokens than its *)
(* utilisation pays for, at a full batch and the base time for each step,  *)
(* however many tokens were generated in vain for requests that were       *)
(* preempted; and when the run is over the utilisation is at most one.     *)
THEOREM ThroughputBacked ==
  ASSUME Regular
  PROVE  TimedSpec => []ThroughputWithinCapacity
  <1>1. ASSUME Timely, PaidInv, BusyWithinElapsed
        PROVE  ThroughputWithinCapacity
    <2>1. /\ TypeOK /\ P!Inv /\ TimedTypeOK /\ ClockInv
      BY <1>1 DEF Timely, TimedTypes
    <2> DEFINE s == ComputeSummary(clock)
               busy == Sum(Workers, busyTimeMs)
    <2>2. /\ s.throughput.num = Sum(done, OutputTokens)
          /\ s.utilization.num = IF done = {} THEN 0 ELSE busy
          /\ s.utilization.den = clock * Cardinality(Workers)
      BY DEF ComputeSummary, TotalTokensGen
    <2>3. busy \in Nat /\ Sum(done, OutputTokens) * Base <= MaxBatchSize * busy
      BY <1>1, <2>1, BusyCovers, TokensPaidFor
    <2>4. Base \in Nat /\ MaxBatchSize \in Nat /\ clock \in Nat
          /\ Cardinality(Workers) \in Nat
      BY <2>1, BasePositive, ModelAssumption, WorkersFinite, FS_CardinalityType
      DEF Base, ClockInv
    <2>5. RunOver => busy <= clock * Cardinality(Workers)
      BY <1>1, <2>1, BusyWithinClock
    <2> HIDE DEF s, busy
    <2>6. CASE done = {}
      <3>1. Sum(done, OutputTokens) = 0
        <4>1. \A x \in {} : OutputTokens[x] \in Nat
          OBVIOUS
        <4> QED
          BY <2>6, <4>1, FS_EmptySet, SumIsTokenSum, SumEmpty
      <3>2. s.throughput.num = 0 /\ s.utilization.num = 0
        BY <2>2, <2>6, <3>1
      <3>3. 0 * Base = 0 /\ MaxBatchSize * 0 = 0
        BY <2>4, SMT
      <3>4. 0 <= clock * Cardinality(Workers)
        BY <2>4, NatProduct
      <3> QED
        BY <2>2, <3>2, <3>3, <3>4 DEF ThroughputWithinCapacity, s, Base
    <2>7. CASE done # {}
      BY <2>2, <2>3, <2>5, <2>7 DEF ThroughputWithinCapacity, s, Base
    <2> QED
      BY <2>6, <2>7
  <1>2. TimedInit => PaidInv
    BY InitPaid
  <1>3. Timely /\ PaidInv /\ [TimedNext]_allVars => PaidInv'
    BY NextPaid
  <1> QED
    BY <1>1, <1>2, <1>3, TimelyAlways, NeverOvercharged, PTL DEF TimedSpec
=============================================================================
