------------------------------ MODULE Serving ------------------------------
(***************************************************************************)
(* What internal/engine and internal/model promise for every scheduling    *)
(* policy that keeps the contract of scheduler.Scheduler: the life of a    *)
(* request from its arrival, through a queue, batches and preemptions, to  *)
(* its completion, and the step loop of each worker.                       *)
(*                                                                         *)
(* The slices of the code are sets here: the order in which a policy picks *)
(* requests, and which of several equally advanced requests is evicted,    *)
(* are left open.  Events fire in any order, so that the properties hold   *)
(* for every timing model and every workload.  Module Engine keeps the     *)
(* order and the policies, and implements this specification.              *)
(***************************************************************************)
EXTENDS Model

VARIABLES
  pending,      (* requests whose Arrival event has not fired               *)
  queue,        (* requests waiting in the scheduler                        *)
  batch,        (* Worker.Batch                                             *)
  generated,    (* Request.GeneratedTokens                                  *)
  matched,      (* Request.MatchedPrefixTokens                              *)
  prefixCache,  (* Worker.PrefixCache                                       *)
  steps,        (* the worker's TokenStepDone events in the event queue     *)
  done,         (* Collector.Completed                                      *)
  completed     (* Engine.completed, the counter main reports               *)

vars == <<pending, queue, batch, generated, matched, prefixCache, steps,
          done, completed>>

Init ==
  /\ pending = Requests
  /\ queue = {}
  /\ batch = [w \in Workers |-> {}]
  /\ generated = [r \in Requests |-> 0]
  /\ matched = [r \in Requests |-> 0]
  /\ prefixCache = [w \in Workers |-> EmptyCache]
  /\ steps = [w \in Workers |-> 0]
  /\ done = {}
  /\ completed = 0

-----------------------------------------------------------------------------
RemoveRefsAll(cache, S) ==   \* the first release drops the entry
  [p \in PrefixIDs |-> IF Users(S, p) = {} THEN cache[p] ELSE NoEntry]

(* removeRef for every request of S, as RemoveCompleted and Evict call it. *)
RemoveRefs(cache, S) ==
  [p \in PrefixIDs |->
     LET n == Cardinality(Users(S, p)) IN
     IF n = 0 THEN cache[p]
     ELSE IF cache[p].refs <= n THEN NoEntry
     ELSE [tokens |-> cache[p].tokens, refs |-> cache[p].refs - n]]

(* AddToBatch for every request of F.  Where p has no entry, the first of  *)
(* its users, first[p], creates one as large as its own context.           *)
AddRefs(cache, F, first) ==
  [p \in PrefixIDs |->
     LET n == Cardinality(Users(F, p)) IN
     IF n = 0 THEN cache[p]
     ELSE IF cache[p] # NoEntry
          THEN [tokens |-> cache[p].tokens, refs |-> cache[p].refs + n]
     ELSE [tokens |-> ContextTokens[first[p]], refs |-> n]]

(* The prefix tokens that AddToBatch takes as matched for r.               *)
PrefixHit(cache, first, r) ==
  LET p == PrefixID[r] IN
  IF cache[p] # NoEntry THEN cache[p].tokens
  ELSE IF r = first[p] THEN 0
  ELSE ContextTokens[first[p]]

FitsAlone(B, F, used) ==   \* memory already in use is not counted
  F # {} => /\ Cardinality(B) + Cardinality(F) <= MaxBatchSize
            /\ TokenSum(F, WorstTokens) <= MemoryTokens

FitsOneMore(B, F, used) ==   \* the limit test is `>' instead of `>='
  F # {} => /\ Cardinality(B) + Cardinality(F) <= MaxBatchSize + 1
            /\ used + TokenSum(F, WorstTokens) <= MemoryTokens

(* The contract of FormBatch: F may be empty; otherwise it respects the    *)
(* batch limit, and the worst case of its members fits beside what the     *)
(* batch B of the worker uses now.                                         *)
Fits(B, F, used) ==
  F # {} => /\ Cardinality(B) + Cardinality(F) <= MaxBatchSize
            /\ used + TokenSum(F, WorstTokens) <= MemoryTokens

(* What FormBatch leaves in the queue q when it hands out the set F.       *)
KeptInQueue(q, F) == q   \* the chosen requests stay in s.queue
LeftInQueue(q, F) == q \ F

(* FormBatch and AddToBatch for the workers of W, which hold `kept' and    *)
(* `cache', out of the queue q.  fill[w] is what w admits.                 *)
Admit(W, q, kept, cache, gen, fill) ==
  /\ \A w \in Workers : w \notin W => fill[w] = {}
  /\ \A v, w \in Workers : v # w => fill[v] \cap fill[w] = {}
  /\ queue' = LeftInQueue(q, UNION {fill[w] : w \in Workers})
  /\ batch' = [w \in Workers |-> kept[w] \cup fill[w]]
  /\ \A w \in W :
       Fits(kept[w], fill[w], UsedTokens(kept[w], gen, matched, cache[w]))
  /\ \E first \in [Workers -> [PrefixIDs -> Requests]] :
       /\ \A w \in Workers, p \in PrefixIDs :
            Users(fill[w], p) # {} => first[w][p] \in Users(fill[w], p)
       /\ prefixCache' =
            [w \in Workers |-> AddRefs(cache[w], fill[w], first[w])]
       /\ matched' =
            [r \in Requests |->
               IF PrefixID[r] # NoPrefix /\ \E w \in Workers : r \in fill[w]
               THEN LET w == CHOOSE v \in Workers : r \in fill[v]
                    IN  PrefixHit(cache[w], first[w], r)
               ELSE matched[r]]

(* handleArrival: enqueue r and offer the queue to every idle worker.      *)
AllWorkers == Workers   \* tryDispatchAll does not ask whether a worker is idle
IdleWorkers == {w \in Workers : batch[w] = {}}

ArrivalWith(r, fill) ==
  /\ pending' = pending \ {r}
  /\ Admit(IdleWorkers, queue \cup {r}, batch, prefixCache, generated, fill)
  /\ steps' = [w \in Workers |->
                 IF fill[w] # {} THEN steps[w] + 1 ELSE steps[w]]
  /\ UNCHANGED <<generated, done, completed>>

Arrival(r) ==
  /\ r \in pending
  /\ \E fill \in [Workers -> SUBSET (queue \cup {r})] : ArrivalWith(r, fill)

(* Evict makes its request lose every token it generated.                  *)
RestartedMutant(gen, V) ==   \* Evict forgets to reset GeneratedTokens
  gen

RestartedMinus(gen, V) ==    \* Evict takes the remaining tokens off instead
  [r \in Requests |-> IF r \in V THEN gen[r] - OutputTokens[r] ELSE gen[r]]

Restarted(gen, V) == [r \in Requests |-> IF r \in V THEN 0 ELSE gen[r]]

(* The OOM loop of handleTokenStepDone over the batch B: it evicts a       *)
(* request with the fewest generated tokens until the rest fits.  V is     *)
(* what it evicts; the loop test still held before the last of V left.     *)
EvictedOldest(B, V, gen, cache) ==   \* the victim has the most tokens
  IF ~PagedAttention \/ UsedTokens(B, gen, matched, cache) <= MemoryTokens
  THEN V = {}
  ELSE \E v \in B : V = {v} /\ \A s \in B : gen[v] >= gen[s]

Evicted(B, V, gen, cache) ==
  IF ~PagedAttention THEN V = {}
  ELSE
    /\ \A v \in V, s \in B \ V : gen[v] <= gen[s]
    /\ B \ V # {} =>
         UsedTokens(B \ V, gen, matched, RemoveRefs(cache, V)) <= MemoryTokens
    /\ V # {} => \E last \in V :
         /\ \A v \in V : gen[v] <= gen[last]
         /\ UsedTokens((B \ V) \cup {last}, gen, matched,
                       RemoveRefs(cache, V \ {last})) > MemoryTokens

(* handleTokenStepDone: every request of the batch gains a token; the      *)
(* complete ones leave; victims go back to the queue and start over; then  *)
(* the worker takes what fits, and steps again if it has a batch.          *)
Advanced(w) ==
  [r \in Requests |-> IF r \in batch[w] THEN generated[r] + 1
                      ELSE generated[r]]
Finished(w) == {r \in batch[w] : IsComplete(Advanced(w), r)}
ActiveAll(w) == batch[w]   \* RemoveCompleted leaves its result in the batch
Active(w) == batch[w] \ Finished(w)

StepWith(w, victims, F) ==
  LET released == RemoveRefs(prefixCache[w], Finished(w))
      gen == Restarted(Advanced(w), victims)
  IN
  /\ generated' = gen
  /\ Evicted(Active(w), victims, Advanced(w), released)
  /\ Admit({w}, queue \cup victims,
           [batch EXCEPT ![w] = Active(w) \ victims],
           [prefixCache EXCEPT ![w] = RemoveRefs(released, victims)],
           gen, [v \in Workers |-> IF v = w THEN F ELSE {}])
  /\ steps' = [steps EXCEPT ![w] =
                 IF (Active(w) \ victims) \cup F # {} THEN @ ELSE @ - 1]
  /\ done' = done \cup Finished(w)
  /\ completed' = completed + Cardinality(Finished(w))
  /\ UNCHANGED pending

TokenStepDone(w) ==
  /\ steps[w] > 0
  /\ \E victims \in SUBSET Active(w) :
       \E F \in SUBSET (queue \cup victims) : StepWith(w, victims, F)

Next ==
  \/ \E r \in Requests : Arrival(r)
  \/ \E w \in Workers : TokenStepDone(w)

Spec == Init /\ [][Next]_vars

-----------------------------------------------------------------------------
TypeOK ==
  /\ pending \subseteq Requests
  /\ queue \subseteq Requests
  /\ batch \in [Workers -> SUBSET Requests]
  /\ generated \in [Requests -> Nat]
  /\ matched \in [Requests -> Nat]
  /\ prefixCache \in [Workers -> [PrefixIDs -> PrefixState]]
  /\ steps \in [Workers -> Nat]
  /\ done \subseteq Requests
  /\ completed \in Nat

(* No request is lost or held twice: arrival, dispatch, preemption and     *)
(* completion each move it from exactly one place to another.              *)
Placed == UNION {batch[w] : w \in Workers}

ExactlyOnePlace ==
  /\ Requests = pending \cup queue \cup Placed \cup done
  /\ pending \cap (queue \cup Placed \cup done) = {}
  /\ queue \cap (Placed \cup done) = {}
  /\ Placed \cap done = {}
  /\ \A v, w \in Workers : v # w => batch[v] \cap batch[w] = {}

(* A worker with a batch has exactly one TokenStepDone event outstanding,  *)
(* and an idle worker none: no worker stalls and none runs twice as fast.  *)
StepPerBusyWorker ==
  \A w \in Workers : steps[w] = IF batch[w] = {} THEN 0 ELSE 1

(* Engine.completed counts every completed request once: a request that is *)
(* preempted and served again is not reported twice.                       *)
CompletedOnce == completed = Cardinality(done)

(* A worker never runs more requests than MaxBatchSize, however its batch  *)
(* was topped up between steps.                                            *)
BatchWithinLimit == \A w \in Workers : Cardinality(batch[w]) <= MaxBatchSize

(* The reference count of a cached prefix is the number of requests of the *)
(* batch that share it, through evictions and completions: the entry is    *)
(* neither freed under a request nor kept after the last one.              *)
PrefixRefsExact ==
  \A w \in Workers, p \in PrefixIDs :
    /\ prefixCache[w][p].refs = Cardinality(Users(batch[w], p))
    /\ prefixCache[w][p].refs = 0 => prefixCache[w][p] = NoEntry

(* A waiting request has no tokens (a preempted one starts over), a served *)
(* one still lacks some, and a completed one has exactly those it asked    *)
(* for - or one, when it asked for none.                                   *)
TokensWanted(r) == IF OutputTokens[r] = 0 THEN 1 ELSE OutputTokens[r]

TokenAccounting ==
  \A r \in Requests :
    /\ r \in pending \cup queue => generated[r] = 0
    /\ r \in Placed => generated[r] < TokensWanted(r)
    /\ r \in done => generated[r] = TokensWanted(r)

(* With paging, what the requests of a batch hold themselves, beyond their *)
(* matched prefixes, never outgrows the worker after a step: the OOM loop  *)
(* makes room, and the batch is topped up only with what fits beside it.   *)
OwnTokens(B) == TokenSum(B, TotalTokens(generated)) - TokenSum(B, matched)

PagedMemoryBound ==
  PagedAttention => \A w \in Workers : OwnTokens(batch[w]) <= MemoryTokens

(* Preemption cannot go on for ever: when the requests of a batch carry no *)
(* prefix and each would fit the worker alone, a step either completes one *)
(* or leaves one of the most advanced in the batch with its new token.  (A *)
(* shared prefix can make the used memory negative, and so let in one that *)
(* does not fit alone.)                                                    *)
ProgressSurvives ==
  [][\A w \in Workers :
       /\ TokenStepDone(w)
       /\ \A r \in batch[w] :
            PrefixID[r] = NoPrefix /\ WorstTokens[r] <= MemoryTokens
       => \E r \in batch[w] :
            /\ generated'[r] = generated[r] + 1
            /\ \A s \in batch[w] : generated[s] <= generated[r]
                                    \/ s \in done']_vars
=============================================================================
