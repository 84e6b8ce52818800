------------------------------ MODULE Workload ------------------------------
(***************************************************************************)
(* workload.Generate and the random numbers it draws: Poisson arrivals,    *)
(* bursts with idle periods between them, and traces read row by row from  *)
(* a file that is opened anew by every call; the tokens, the tier and the  *)
(* prefix of each request.                                                 *)
(*                                                                         *)
(* A seed stands for an unknown sequence of words.  Each word is chosen    *)
(* when it is first drawn and kept, so that a second generation with the   *)
(* same seed draws the same ones.  Time is in ticks, no gap between two    *)
(* arrivals is shorter than one, and rates are per tick.                   *)
(***************************************************************************)
EXTENDS Integers, SequencesExt

CONSTANTS
  Configs,       (* the configurations the program may be started with     *)
  WordCount,     (* a word is one of 0..WordCount - 1                      *)
  Waits,         (* the gap that each word stands for at a rate of one     *)
  DefaultBurst,  (* generateBursty's defaults for a burst and for the idle *)
  DefaultIdle,   (* period after it                                        *)
  MaxFloat64     (* a time beyond every duration                           *)

Words == 0..(WordCount - 1)

(* What a row of a trace describes: it has no column for a prefix.         *)
TraceRows ==
  [arrivalMs : Int, contextTokens : Int, outputTokens : Int, tier : STRING,
   sharesPrefix : {FALSE}]

(* Validate looks at none of the numbers of a workload but the duration.   *)
ASSUME WorkloadAssumption ==
  /\ WordCount \in Nat \ {0}
  /\ Waits \in [Words -> Nat \ {0}]
  /\ DefaultBurst \in Nat \ {0} /\ DefaultIdle \in Nat \ {0}
  /\ MaxFloat64 \in Nat
  /\ \A c \in Configs :
       /\ c.durationMs \in Int /\ c.durationMs < MaxFloat64
       /\ c.rps \in Int /\ c.peakRPS \in Int
       /\ c.burstDurationMs \in Int /\ c.idleDurationMs \in Int
       /\ c.contextTokens.min \in Int /\ c.contextTokens.max \in Int
       /\ c.outputTokens.min \in Int /\ c.outputTokens.max \in Int
       /\ c.prefixHitRate \in Int
       /\ c.tiers \in Seq(STRING)
       /\ IsFiniteSet(DOMAIN c.tierWeights)
       /\ c.tierWeights \in [DOMAIN c.tierWeights -> Int]
       /\ c.traces \subseteq Seq(TraceRows)

VARIABLES
  cfg,          (* the configuration; WorkloadConfig and Tiers             *)
  rng,          (* the words of the seed, and how many have been used      *)
  phase,        (* what has become of the current call of Generate         *)
  requests,     (* the slice that Generate builds                          *)
  timeMs,       (* the next three are local to the generators              *)
  periodStart,
  inBurst

workloadVars == <<cfg, rng, phase, requests, timeMs, periodStart, inBurst>>

-----------------------------------------------------------------------------
(* RNG.  Each operator returns the outcomes of a call: a value, and the    *)
(* generator after it.                                                     *)
RngGoesOn(g) == g   \* the generator is shared by all generations

NewRNG(g) == [g EXCEPT !.used = 0]

Draw(g) ==
  IF g.used < Len(g.words)
  THEN {[value |-> g.words[g.used + 1], rng |-> [g EXCEPT !.used = @ + 1]]}
  ELSE {[value |-> u, rng |-> [words |-> Append(g.words, u),
                               used |-> g.used + 1]] : u \in Words}

Map(draws, Op(_)) == {[value |-> Op(d.value), rng |-> d.rng] : d \in draws}

(* Float64 lies in [0, 1): the word u is (2 * u + 1) / (2 * WordCount).    *)
Float64Below(u, share) == 2 * u + 1 < 2 * share   \* share / WordCount

Intn(g, n) == Map(Draw(g), LAMBDA u : u % n)

IntRangeOpen(g, range) ==   \* the upper end is added to, not counted in
  Map(Draw(g), LAMBDA u : range.min + (u % (range.max + 1)))

IntRange(g, range) ==
  IF range.min >= range.max THEN {[value |-> range.min, rng |-> g]}
  ELSE Map(Intn(g, range.max - range.min + 1), LAMBDA n : range.min + n)

Exponential(g, rate) ==
  IF rate <= 0 THEN {[value |-> MaxFloat64, rng |-> g]}
  ELSE Map(Draw(g), LAMBDA u : (Waits[u] + rate - 1) \div rate)

-----------------------------------------------------------------------------
(* pickTier walks the map of weights in any order, and takes the first     *)
(* name at which the weights walked reach the drawn share of their total.  *)
(* The weights may be negative; when none reaches it, the tier is the      *)
(* first one of the configuration.                                         *)
Weight(weights, names) == MapThenSumSet(LAMBDA n : weights[n], names)

Reaches(u, names) ==
  LET weights == cfg.tierWeights
  IN (2 * u + 1) * Weight(weights, DOMAIN weights)
     <= 2 * WordCount * Weight(weights, names)

Walks ==
  LET names == DOMAIN cfg.tierWeights IN Bijection(1..Cardinality(names), names)

TierOnWalk(u, walk) ==
  LET reached == {i \in DOMAIN walk : Reaches(u, {walk[j] : j \in 1..i})}
  IN IF reached = {} THEN cfg.tiers[1] ELSE walk[Min(reached)]

WeightedTiers(u) == {TierOnWalk(u, walk) : walk \in Walks}

PickTier(g) ==
  IF DOMAIN cfg.tierWeights = {}
  THEN Map(Intn(g, Len(cfg.tiers)), LAMBDA n : cfg.tiers[n + 1])
  ELSE UNION {{[value |-> t, rng |-> d.rng] : t \in WeightedTiers(d.value)} :
                d \in Draw(g)}

(* A request shares the prompt when its draw falls below the hit rate, and *)
(* nothing is drawn when the rate is zero.                                 *)
PickPrefix(g) ==
  IF cfg.prefixHitRate <= 0 THEN {[value |-> FALSE, rng |-> g]}
  ELSE Map(Draw(g), LAMBDA u : Float64Below(u, cfg.prefixHitRate))

MakeRequest(g, time) ==
  \E context \in IntRange(g, cfg.contextTokens) :
  \E output \in IntRange(context.rng, cfg.outputTokens) :
  \E tier \in PickTier(output.rng) :
  \E prefix \in PickPrefix(tier.rng) :
    /\ requests' = Append(requests,
         [arrivalMs |-> time, contextTokens |-> context.value,
          outputTokens |-> output.value, tier |-> tier.value,
          sharesPrefix |-> prefix.value])
    /\ rng' = prefix.rng

-----------------------------------------------------------------------------
(* Generate up to its loop.  A trace file is opened, and its header read,  *)
(* in every call: that may fail in any of them.                            *)
Generate ==
  /\ rng' = NewRNG(rng)
  /\ requests' = <<>>
  /\ timeMs' = 0
  /\ periodStart' = 0
  /\ inBurst' = TRUE
  /\ \/ cfg.type \in {"poisson", "bursty", "trace"} /\ phase' = "running"
     \/ cfg.type \notin {"poisson", "bursty"} /\ phase' = "failed"
  /\ UNCHANGED cfg

(* The duration is reached: the arrival that reached it is dropped.        *)
Finish(g) ==
  /\ phase' = "done"
  /\ rng' = g
  /\ UNCHANGED <<cfg, requests, timeMs, periodStart, inBurst>>

PoissonTurn ==
  /\ phase = "running" /\ cfg.type = "poisson"
  /\ \E gap \in Exponential(rng, cfg.rps) :
       LET time == timeMs + gap.value IN
       \/ time >= cfg.durationMs /\ Finish(gap.rng)
       \/ /\ time < cfg.durationMs
          /\ timeMs' = time
          /\ MakeRequest(gap.rng, time)
          /\ UNCHANGED <<cfg, phase, periodStart, inBurst>>

BurstDur == IF cfg.burstDurationMs <= 0 THEN DefaultBurst
            ELSE cfg.burstDurationMs
IdleDur == IF cfg.idleDurationMs <= 0 THEN DefaultIdle
           ELSE cfg.idleDurationMs

(* The first arrival past the end of a burst is dropped; the idle period   *)
(* starts with it.                                                         *)
EndBurstKeeping(g, time) ==   \* `continue' is forgotten: it is kept
  MakeRequest(g, time)

EndBurst(g, time) == rng' = g /\ UNCHANGED requests

BurstTurn ==
  /\ phase = "running" /\ cfg.type = "bursty" /\ inBurst
  /\ \E gap \in Exponential(rng, cfg.peakRPS) :
       LET time == timeMs + gap.value IN
       \/ time >= cfg.durationMs /\ Finish(gap.rng)
       \/ /\ time < cfg.durationMs
          /\ timeMs' = time
          /\ IF time - periodStart >= BurstDur
             THEN /\ inBurst' = FALSE
                  /\ periodStart' = time
                  /\ EndBurst(gap.rng, time)
             ELSE /\ MakeRequest(gap.rng, time)
                  /\ UNCHANGED <<inBurst, periodStart>>
          /\ UNCHANGED <<cfg, phase>>

IdleTurn ==
  /\ phase = "running" /\ cfg.type = "bursty" /\ ~inBurst
  /\ timeMs' = periodStart + IdleDur
  /\ periodStart' = timeMs'
  /\ inBurst' = TRUE
  /\ phase' = IF timeMs' < cfg.durationMs THEN "running" ELSE "done"
  /\ UNCHANGED <<cfg, rng, requests>>

(* generateTrace reads one of the contents that the file may have while    *)
(* this call reads it, up to its end or to a row that cannot be read or    *)
(* parsed; then nothing is returned.                                       *)
ReadRow ==
  \E rows \in cfg.traces :
    /\ IsPrefix(requests, rows)
    /\ \/ /\ Len(requests) < Len(rows)
          /\ requests' = Append(requests, rows[Len(requests) + 1])
          /\ UNCHANGED phase
       \/ /\ Len(requests) = Len(rows)
          /\ phase' = "done"
          /\ UNCHANGED requests

RowError == phase' = "failed" /\ requests' = <<>>

TraceTurn ==
  /\ phase = "running" /\ cfg.type = "trace"
  /\ ReadRow \/ RowError
  /\ UNCHANGED <<cfg, rng, timeMs, periodStart, inBurst>>

GeneratorTurn == PoissonTurn \/ BurstTurn \/ IdleTurn \/ TraceTurn

WorkloadInit ==
  /\ cfg \in Configs
  /\ rng = [words |-> <<>>, used |-> 0]
  /\ phase = "idle"
  /\ requests = <<>>
  /\ timeMs = 0
  /\ periodStart = 0
  /\ inBurst = TRUE

-----------------------------------------------------------------------------
(* A generated workload is one that the simulation is written for: it is   *)
(* ordered by time and ends before the duration, and each request has the  *)
(* tokens, the tier and the prefix that the configuration allows: a tier   *)
(* without a weight only when the weights sum to less than zero.  (A trace *)
(* may hold anything.)                                                     *)
Allowed(range, n) ==
  IF range.min >= range.max THEN n = range.min ELSE n \in range.min..range.max

WithinConfiguration ==
  cfg.type # "trace" =>
    /\ \A i, j \in DOMAIN requests :
         i < j => requests[i].arrivalMs <= requests[j].arrivalMs
    /\ \A i \in DOMAIN requests :
         LET r == requests[i] IN
         /\ 0 <= r.arrivalMs /\ r.arrivalMs < cfg.durationMs
         /\ Allowed(cfg.contextTokens, r.contextTokens)
         /\ Allowed(cfg.outputTokens, r.outputTokens)
         /\ IF DOMAIN cfg.tierWeights = {}
            THEN \E n \in DOMAIN cfg.tiers : cfg.tiers[n] = r.tier
            ELSE \/ r.tier \in DOMAIN cfg.tierWeights
                 \/ /\ Weight(cfg.tierWeights, DOMAIN cfg.tierWeights) < 0
                    /\ r.tier = cfg.tiers[1]
         /\ r.sharesPrefix => cfg.prefixHitRate > 0

(* Bursts are bursts: two arrivals lie within the duration of a burst, or  *)
(* more than an idle period apart, wherever the last burst was cut off.    *)
BurstsApart ==
  cfg.type = "bursty" =>
    \A i, j \in DOMAIN requests :
      i < j => LET apart == requests[j].arrivalMs - requests[i].arrivalMs
               IN apart < BurstDur \/ apart > IdleDur
=============================================================================
