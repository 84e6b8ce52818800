------------------------------ MODULE Policies ------------------------------
(***************************************************************************)
(* The five policies of internal/scheduler as operators: how Enqueue       *)
(* orders the queue, and what FormBatch hands to a worker, what it leaves  *)
(* queued, and how it moves the virtual times of weighted fair queueing.   *)
(*                                                                         *)
(* A queue is the sequence of waiting requests.  The per-tier queues of    *)
(* WFQScheduler are its subsequences, one for each tier.                   *)
(***************************************************************************)
EXTENDS Model, SequencesExt

CONSTANTS
  TierOrder,     (* the names of config.Tiers, in their order              *)
  Tier,          (* Request.Tier, which a trace may take from outside it   *)
  TierPriority,  (* TierConfig.Priority                                    *)
  TierCost,      (* 1 / TierConfig.Weight, in units of virtual time        *)
  SLATTFTMs,     (* TierConfig.SLATTFTMs                                   *)
  ArrivalMs,     (* Request.ArrivalMs                                      *)
  SkipPenalty,   (* what a tier's virtual time gains when nothing fits     *)
  MaxVT          (* the virtual time from which a tier is never picked     *)

PolicyNames == {"fifo", "priority", "wfq", "srtf", "dynbatch"}
Tiers == ToSet(TierOrder)

(* The code has 1e9 and 1e18 for the last two, so that a tier survives a   *)
(* billion skips; the model keeps that there are finitely many.            *)
ASSUME PolicyAssumption ==
  /\ TierOrder \in Seq(Tiers)
  /\ \A t \in Tiers : /\ TierPriority[t] \in Int /\ SLATTFTMs[t] \in Nat
                       /\ TierCost[t] \in Nat \ {0}
  /\ ArrivalMs \in [Requests -> Int]
  /\ SkipPenalty \in Nat \ {0} /\ MaxVT \in Nat \ {0}

-----------------------------------------------------------------------------
(* What is left of q when the elements of S are taken out of it.           *)
Without(q, S) ==
  FoldLeft(LAMBDA left, r : IF r \in S THEN left ELSE Append(left, r), <<>>, q)

(* A tier that the configuration does not name reads as priority 0.        *)
PriorityOf(r) == IF Tier[r] \in Tiers THEN TierPriority[Tier[r]] ELSE 0

(* The ascending order in which a policy keeps its queue.  A queued        *)
(* request has no generated tokens, so all its output remains.             *)
SortKey(policy, r) ==
  CASE policy = "priority" -> PriorityOf(r)
    [] policy = "srtf"     -> OutputTokens[r]

PrecedesLatest(policy, r, s) ==   \* ties go to the later arrival
  \/ SortKey(policy, r) < SortKey(policy, s)
  \/ SortKey(policy, r) = SortKey(policy, s) /\ ArrivalMs[r] > ArrivalMs[s]

Precedes(policy, r, s) ==
  \/ SortKey(policy, r) < SortKey(policy, s)
  \/ SortKey(policy, r) = SortKey(policy, s) /\ ArrivalMs[r] < ArrivalMs[s]

(* sort.SliceStable: an element goes behind every element that precedes it *)
(* and behind every equal one that was before it.                          *)
StableSort(policy, s) ==
  LET Rank(i) == Cardinality({j \in DOMAIN s :
                   \/ Precedes(policy, s[j], s[i])
                   \/ ~Precedes(policy, s[i], s[j]) /\ j <= i})
  IN [n \in DOMAIN s |-> s[CHOOSE i \in DOMAIN s : Rank(i) = n]]

EnqueueUnsorted(policy, q, r) == Append(q, r)   \* the sort is forgotten

Enqueue(policy, q, r) ==
  IF policy \in {"priority", "srtf"}
  THEN StableSort(policy, Append(q, r))
  ELSE Append(q, r)

-----------------------------------------------------------------------------
(* Each FormBatch tests a request against the worst case of those it has   *)
(* already chosen, beside what the running batch uses now.                 *)
FitsBeside(chosen, used, r) ==
  WorstTokens[r] <= MemoryTokens - used - TokenSum(ToSet(chosen), WorstTokens)

(* The scan of FIFO, Priority, SRTF and DynBatch: take what fits, in queue *)
(* order, until the batch has `limit' members; skip the rest.              *)
ScanToMisfit(q, running, used, limit) ==   \* the scan stops at a misfit
  LET n == SelectInSeq(q, LAMBDA r : WorstTokens[r] > MemoryTokens - used)
  IN FoldLeft(LAMBDA chosen, r :
                IF running + Len(chosen) < limit /\ FitsBeside(chosen, used, r)
                THEN Append(chosen, r) ELSE chosen,
              <<>>, IF n = 0 THEN q ELSE SubSeq(q, 1, n - 1))

Scan(q, running, used, limit) ==
  FoldLeft(LAMBDA chosen, r :
             IF running + Len(chosen) < limit /\ FitsBeside(chosen, used, r)
             THEN Append(chosen, r) ELSE chosen,
           <<>>, q)

(* computeEffectiveBatchSize.  EnqueueMs is the arrival time, and a        *)
(* request that arrived at time zero is taken for one not yet enqueued.    *)
HasPressure(q) ==
  \E r \in ToSet(q) :
    /\ Tier[r] \in Tiers /\ SLATTFTMs[Tier[r]] > 0
    /\ ArrivalMs[r] > 0
    /\ 2 * 5 * Len(q) > SLATTFTMs[Tier[r]]

EffectiveBatchSize(q) ==
  IF HasPressure(q)
  THEN IF MaxBatchSize \div 2 < 1 THEN 1 ELSE MaxBatchSize \div 2
  ELSE IF Len(q) <= 2 /\ Len(q) < MaxBatchSize THEN Len(q)
  ELSE MaxBatchSize

(* pickLowestVTTier, as an index into TierOrder; 0 when it finds none.     *)
LowestVTTier(q, vt) ==
  LET ready == {i \in DOMAIN TierOrder :
                  /\ \E r \in ToSet(q) : Tier[r] = TierOrder[i]
                  /\ vt[TierOrder[i]] < MaxVT}
  IN IF ready = {} THEN 0
     ELSE CHOOSE i \in ready : \A j \in ready :
            \/ vt[TierOrder[i]] < vt[TierOrder[j]]
            \/ vt[TierOrder[i]] = vt[TierOrder[j]] /\ i <= j

(* One turn of the loop in WFQScheduler.FormBatch: the first request of    *)
(* the lowest tier that fits, or a penalty for that tier.                  *)
WFQTurn(st, running, used) ==
  LET i == LowestVTTier(st.left, st.vt) IN
  IF running + Len(st.chosen) >= MaxBatchSize \/ i = 0 THEN st
  ELSE LET tier == TierOrder[i]
           n == SelectInSeq(st.left, LAMBDA r :
                  Tier[r] = tier /\ FitsBeside(st.chosen, used, r))
       IN IF n = 0 THEN [st EXCEPT !.vt[tier] = @ + SkipPenalty]
          ELSE [chosen |-> Append(st.chosen, st.left[n]),
                left |-> Without(st.left, {st.left[n]}),
                vt |-> [st.vt EXCEPT ![tier] = @ + TierCost[tier]]]

(* The loop ends when the batch is full or no tier can be picked.  Before  *)
(* that a turn either fills a slot or brings a tier a penalty nearer MaxVT.*)
WFQTurns == MaxBatchSize + Len(TierOrder) * (MaxVT \div SkipPenalty + 1)

(* FormBatch for a worker whose `running' requests use `used' tokens.      *)
FormBatch(policy, q, vt, running, used) ==
  IF policy = "wfq"
  THEN FoldLeft(LAMBDA st, turn : WFQTurn(st, running, used),
                [chosen |-> <<>>, left |-> q, vt |-> vt],
                [turn \in 1..WFQTurns |-> turn])
  ELSE LET limit == IF policy = "dynbatch" THEN EffectiveBatchSize(q)
                    ELSE MaxBatchSize
           picked == Scan(q, running, used, limit)
       IN [chosen |-> picked,
           left |-> Without(q, ToSet(picked)),
           vt |-> vt]
=============================================================================
