------------------------------ MODULE Metrics ------------------------------
(***************************************************************************)
(* What the collector makes of a run: the times derived from a request's   *)
(* timestamps, their means and percentiles for each tier, the counts of    *)
(* SLA violations, throughput, utilisation and Jain's fairness index.      *)
(*                                                                         *)
(* A slice of measurements is a set of requests and a function on them:    *)
(* its order plays no part.  Times are in the units of TimedEngine, means  *)
(* and rates are rounded down, percentiles are in hundredths of a unit, a  *)
(* fraction is a record of numerator and denominator.                      *)
(***************************************************************************)
EXTENDS TimedEngine

CONSTANT SLATotalMs   (* TierConfig.SLATotalMs                             *)

ASSUME MetricsAssumption == \A t \in Tiers : SLATotalMs[t] \in Nat

-----------------------------------------------------------------------------
(* The methods of Request; a time of zero counts as unset.                 *)
Since(r, time) == IF time <= 0 THEN 0 ELSE time - Scaled(ArrivalMs[r])

QueueDelayMs == [r \in Requests |-> Since(r, dispatchMs[r])]
TTFTMs == [r \in Requests |-> Since(r, firstTokenMs[r])]

LatencyOfService ==   \* the latency counts from the dispatch
  [r \in Requests |-> completionMs[r] - dispatchMs[r]]

TotalLatencyMs == [r \in Requests |-> Since(r, completionMs[r])]

TokensPerSec ==
  [r \in Requests |-> LET lat == TotalLatencyMs[r]
                      IN IF lat <= 0 THEN 0
                         ELSE Scaled(1000 * OutputTokens[r]) \div lat]

-----------------------------------------------------------------------------
(* util.Mean, util.Percentile and util.JainsIndex.                         *)
Sum(S, f) == MapThenSumSet(LAMBDA r : f[r], S)

Mean(S, f) == IF S = {} THEN 0 ELSE Sum(S, f) \div Cardinality(S)

(* sorted[k], counted from zero.                                           *)
Sorted(S, f, k) ==
  CHOOSE v \in {f[r] : r \in S} :
    /\ Cardinality({r \in S : f[r] < v}) <= k
    /\ Cardinality({r \in S : f[r] <= v}) > k

(* The rank of the p-th percentile, in hundredths; no caller asks for the  *)
(* 0th or the 100th, which the code answers by themselves.                 *)
RankOfCount(n, p) == p * n   \* a share of n, not of n - 1

Rank(n, p) == p * (n - 1)

Percentile(S, f, p) ==
  LET n == Cardinality(S)
      lower == Rank(n, p) \div 100
      frac == Rank(n, p) % 100
  IN IF n = 0 THEN 0
     ELSE IF lower + 1 >= n THEN 100 * Sorted(S, f, n - 1)
     ELSE Sorted(S, f, lower) * (100 - frac) + Sorted(S, f, lower + 1) * frac

JainsIndex(S, f) ==
  LET sum == Sum(S, f)
      sumSq == Sum(S, [x \in S |-> f[x] * f[x]])
  IN IF Cardinality(S) <= 1 \/ sumSq = 0 THEN [num |-> 1, den |-> 1]
     ELSE [num |-> sum * sum, den |-> Cardinality(S) * sumSq]

-----------------------------------------------------------------------------
(* computeTierMetrics.                                                     *)
Spread(S, f) == [avg |-> Mean(S, f), p50 |-> Percentile(S, f, 50),
                 p95 |-> Percentile(S, f, 95), p99 |-> Percentile(S, f, 99)]

ViolationsAt(S, f, limit) ==   \* reaching the threshold counts as a breach
  IF limit > 0 THEN Cardinality({r \in S : f[r] >= Scaled(limit)}) ELSE 0

Violations(S, f, limit) ==
  IF limit > 0 THEN Cardinality({r \in S : f[r] > Scaled(limit)}) ELSE 0

CompletedOfTier(t) == {r \in done : Tier[r] = t}

TierMetrics(t) ==
  LET S == CompletedOfTier(t)
  IN [count |-> Cardinality(S),
      ttft |-> Spread(S, TTFTMs),
      latency |-> Spread(S, TotalLatencyMs),
      avgQueueMs |-> Mean(S, QueueDelayMs),
      avgTokPerSec |-> Mean(S, TokensPerSec),
      slaTTFTViol |-> Violations(S, TTFTMs, SLATTFTMs[t]),
      slaTotalViol |-> Violations(S, TotalLatencyMs, SLATotalMs[t])]

(* ComputeSummary; main calls it with the clock when Run has returned.  A  *)
(* run that completed nothing has a summary of zeros.                      *)
TotalTokensOfAll ==   \* tokens of the prompts are counted as generated
  Sum(done, WorstTokens)

TotalTokensGen == Sum(done, OutputTokens)

ComputeSummary(simDurationMs) ==
  LET busy == IF done = {} THEN 0 ELSE Sum(Workers, busyTimeMs)
      tiers == [t \in Tiers |-> TierMetrics(t)]
      served == {t \in Tiers : tiers[t].count > 0}
  IN [totalRequests |-> Cardinality(done),
      throughput |-> [num |-> TotalTokensGen, den |-> simDurationMs],
      utilization |-> [num |-> busy,
                       den |-> simDurationMs * Cardinality(Workers)],
      p50 |-> Percentile(done, TotalLatencyMs, 50),
      p95 |-> Percentile(done, TotalLatencyMs, 95),
      p99 |-> Percentile(done, TotalLatencyMs, 99),
      tierMetrics |-> tiers,
      fairness |-> IF done = {} THEN [num |-> 0, den |-> 1]
                   ELSE JainsIndex(served,
                          [t \in served |-> tiers[t].avgTokPerSec])]

-----------------------------------------------------------------------------
(* Percentile splits the data where it should, whichever requests it is    *)
(* given: fewer than p percent of the other values, and one more, lie      *)
(* below it, fewer than 100 - p percent, and one more, above it.           *)
PercentilesSplit ==
  \A S \in (SUBSET done) \ {{}} : \A p \in {50, 95, 99} :
    LET v == Percentile(S, TotalLatencyMs, p)
        n == Cardinality(S)
    IN /\ 100 * Cardinality({r \in S : 100 * TotalLatencyMs[r] < v})
            < p * (n - 1) + 100
       /\ 100 * Cardinality({r \in S : 100 * TotalLatencyMs[r] > v})
            < (100 - p) * (n - 1) + 100

(* The two views that a summary gives of an SLA do not contradict each     *)
(* other: a percentile is above the threshold when at least its share of   *)
(* the tier's requests is counted as violating it, and not otherwise.      *)
Consistent(n, violations, percentile, p, limit) ==
  limit > 0 /\ n > 0 =>
    IF percentile > 100 * Scaled(limit)
    THEN violations > 0 /\ 100 * violations >= (100 - p) * (n - 1)
    ELSE 100 * violations < (100 - p) * (n - 1) + 100

SLAMatchesPercentiles ==
  \A t \in Tiers :
    LET tm == TierMetrics(t) IN
    /\ Consistent(tm.count, tm.slaTTFTViol, tm.ttft.p50, 50, SLATTFTMs[t])
    /\ Consistent(tm.count, tm.slaTTFTViol, tm.ttft.p95, 95, SLATTFTMs[t])
    /\ Consistent(tm.count, tm.slaTTFTViol, tm.ttft.p99, 99, SLATTFTMs[t])
    /\ Consistent(tm.count, tm.slaTotalViol, tm.latency.p50, 50, SLATotalMs[t])
    /\ Consistent(tm.count, tm.slaTotalViol, tm.latency.p95, 95, SLATotalMs[t])
    /\ Consistent(tm.count, tm.slaTotalViol, tm.latency.p99, 99, SLATotalMs[t])

(* Preempted or not, requests wait no longer than they wait for a token,   *)
(* and for a token no longer than for all of them: so do the means and the *)
(* percentiles of every tier, though each sorts the requests differently.  *)
DelaysOrdered ==
  \A t \in Tiers :
    LET tm == TierMetrics(t) IN
    /\ tm.avgQueueMs <= tm.ttft.avg /\ tm.ttft.avg <= tm.latency.avg
    /\ tm.ttft.p50 <= tm.latency.p50 /\ tm.latency.p50 <= tm.latency.p95
    /\ tm.ttft.p95 <= tm.latency.p95 /\ tm.latency.p95 <= tm.latency.p99
    /\ tm.ttft.p99 <= tm.latency.p99

(* Throughput is backed by work: the cluster emits no more tokens than its *)
(* utilisation pays for, at a full batch and the base time for each step,  *)
(* and when the run is over the utilisation is at most one.                *)
ThroughputWithinCapacity ==
  clock > 0 =>
    LET s == ComputeSummary(clock) IN
    /\ s.throughput.num * Scaled(timing.baseMs)
         <= MaxBatchSize * s.utilization.num
    /\ RunOver => s.utilization.num <= s.utilization.den
=============================================================================
