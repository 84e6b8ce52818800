------------------------------- MODULE Engine -------------------------------
(***************************************************************************)
(* The handlers of internal/engine with the scheduling policies and the    *)
(* order of queues and batches.  The clock is left out: the event of a     *)
(* worker and the next arrival may fire in either order, as they do for    *)
(* some timing parameters.  Module Serving is what this module implements. *)
(*                                                                         *)
(* A handler computes the state it leaves by passing a record from call to *)
(* call; it is bound by \E over a singleton, so that TLC computes it once. *)
(***************************************************************************)
EXTENDS Policies

CONSTANTS
  WorkerOrder,   (* Cluster.Workers, the workers in their order            *)
  PolicyChoice   (* the policies a run may be started with                 *)

ASSUME EngineAssumption ==
  /\ WorkerOrder \in Seq(Workers) /\ IsInjective(WorkerOrder)
  /\ ToSet(WorkerOrder) = Workers
  /\ PolicyChoice \subseteq PolicyNames

VARIABLES
  policy,       (* Engine.sched, chosen by main and never changed          *)
  pending,      (* requests whose Arrival event has not fired              *)
  queue,        (* the scheduler's queue                                   *)
  virtualTime,  (* WFQScheduler.virtualTime                                *)
  batch,        (* Worker.Batch                                            *)
  generated,    (* Request.GeneratedTokens                                 *)
  matched,      (* Request.MatchedPrefixTokens                             *)
  prefixCache,  (* Worker.PrefixCache                                      *)
  steps,        (* the worker's TokenStepDone events in the event queue    *)
  done,         (* Collector.Completed                                     *)
  completed     (* Engine.completed                                        *)

vars == <<policy, pending, queue, virtualTime, batch, generated, matched,
          prefixCache, steps, done, completed>>

(* The part of the state that a handler passes from call to call.          *)
Before == [queue |-> queue, vt |-> virtualTime, batch |-> batch,
           gen |-> generated, matched |-> matched, cache |-> prefixCache]

Becomes(st) ==
  /\ queue' = st.queue
  /\ virtualTime' = st.vt
  /\ batch' = st.batch
  /\ generated' = st.gen
  /\ matched' = st.matched
  /\ prefixCache' = st.cache
  /\ UNCHANGED policy

Init ==
  /\ policy \in PolicyChoice
  /\ pending = Requests
  /\ queue = <<>>
  /\ virtualTime = [t \in Tiers |-> 0]
  /\ batch = [w \in Workers |-> <<>>]
  /\ generated = [r \in Requests |-> 0]
  /\ matched = [r \in Requests |-> 0]
  /\ prefixCache = [w \in Workers |-> EmptyCache]
  /\ steps = [w \in Workers |-> 0]
  /\ done = {}
  /\ completed = 0

-----------------------------------------------------------------------------
(* Worker.UsedMemoryGB, in tokens.                                         *)
UsedMemory(st, w) ==
  UsedTokens(ToSet(st.batch[w]), st.gen, st.matched, st.cache[w])

(* Worker.AddToBatch.                                                      *)
AddToBatch(st, w, r) ==
  LET p == PrefixID[r]
      joined == [st EXCEPT !.batch[w] = Append(@, r)]
  IN IF p = NoPrefix THEN joined
     ELSE IF st.cache[w][p] # NoEntry
     THEN [joined EXCEPT !.matched[r] = st.cache[w][p].tokens,
                         !.cache[w][p].refs = @ + 1]
     ELSE [joined EXCEPT !.matched[r] = 0,
                         !.cache[w][p] = [tokens |-> ContextTokens[r],
                                          refs |-> 1]]

(* Worker.removeRef, and the request's departure from the batch.           *)
RemoveFromBatch(st, w, r) ==
  LET p == PrefixID[r]
      left == [st EXCEPT !.batch[w] = Without(@, {r})]
  IN IF p = NoPrefix \/ st.cache[w][p] = NoEntry THEN left
     ELSE IF st.cache[w][p].refs <= 1
     THEN [left EXCEPT !.cache[w][p] = NoEntry]
     ELSE [left EXCEPT !.cache[w][p].refs = @ - 1]

(* tryDispatch and tryFillBatch: what FormBatch returns joins the batch.   *)
TryFill(st, w) ==
  IF st.queue = <<>> THEN st
  ELSE LET formed == FormBatch(policy, st.queue, st.vt,
                               Len(st.batch[w]), UsedMemory(st, w))
       IN FoldLeft(LAMBDA s, r : AddToBatch(s, w, r),
                   [st EXCEPT !.queue = formed.left, !.vt = formed.vt],
                   formed.chosen)

(* The first request of the batch among those with the fewest tokens.      *)
VictimLargest(st, w) ==   \* the victim is the most advanced request
  LET b == st.batch[w] IN
  b[CHOOSE i \in DOMAIN b : \A j \in DOMAIN b : st.gen[b[i]] >= st.gen[b[j]]]

Victim(st, w) ==
  LET b == st.batch[w] IN
  b[CHOOSE i \in DOMAIN b : \A j \in DOMAIN b :
      \/ st.gen[b[i]] < st.gen[b[j]]
      \/ st.gen[b[i]] = st.gen[b[j]] /\ i <= j]

(* Worker.Evict, and the victim's way back into the queue.                 *)
EvictLost(st, w, victim) ==   \* the victim is not enqueued again
  [RemoveFromBatch(st, w, victim) EXCEPT !.gen[victim] = 0]

EvictKept(st, w, victim) ==   \* the victim is not taken out of the batch
  [st EXCEPT !.gen[victim] = 0, !.queue = Enqueue(policy, @, victim)]

Evict(st, w, victim) ==
  LET st1 == RemoveFromBatch(st, w, victim) IN
  [st1 EXCEPT !.gen[victim] = 0, !.queue = Enqueue(policy, @, victim)]

(* The OOM loop: at most every request of the batch is evicted.            *)
OutOfMemory(st, w) ==
  PagedAttention /\ st.batch[w] # <<>> /\ UsedMemory(st, w) > MemoryTokens

EvictLoop(st, w) ==
  FoldLeft(LAMBDA s, turn : IF OutOfMemory(s, w)
                            THEN Evict(s, w, Victim(s, w)) ELSE s,
           st, st.batch[w])

-----------------------------------------------------------------------------
(* handleArrival.  Arrivals fire in the order of their times.              *)
DispatchAllBusy(st) ==   \* a busy worker is dispatched to as well
  FoldLeft(LAMBDA s, w : TryFill(s, w), st, WorkerOrder)

DispatchAll(st) ==
  FoldLeft(LAMBDA s, w : IF s.batch[w] = <<>> THEN TryFill(s, w) ELSE s,
           st, WorkerOrder)

Arrival(r) ==
  /\ r \in pending
  /\ \A s \in pending : ArrivalMs[r] <= ArrivalMs[s]
  /\ pending' = pending \ {r}
  /\ \E st \in {DispatchAll([Before EXCEPT !.queue = Enqueue(policy, @, r)])} :
       /\ Becomes(st)
       /\ steps' = [w \in Workers |->
                      IF batch[w] = <<>> /\ st.batch[w] # <<>>
                      THEN steps[w] + 1 ELSE steps[w]]
  /\ UNCHANGED <<done, completed>>

(* handleTokenStepDone.                                                    *)
Advance(st, w) ==
  [st EXCEPT !.gen = [r \in Requests |->
                        IF r \in ToSet(st.batch[w]) THEN @[r] + 1 ELSE @[r]]]

CompletedOf(st, w) ==
  LET active == {r \in Requests : ~IsComplete(st.gen, r)}
  IN Without(st.batch[w], active)

RemoveCompleted(st, w) ==
  FoldLeft(LAMBDA s, r : RemoveFromBatch(s, w, r), st, CompletedOf(st, w))

RecordCompletion(finished) == done' = done \cup ToSet(finished)

TokenStepDone(w) ==
  /\ steps[w] > 0
  /\ \E advanced \in {Advance(Before, w)} :
     \E finished \in {CompletedOf(advanced, w)} :
     \E active \in {RemoveCompleted(advanced, w)} :
     \E evicted \in {EvictLoop(active, w)} :
     \E st \in {TryFill(evicted, w)} :
       /\ Becomes(st)
       /\ RecordCompletion(finished)
       /\ completed' = completed + Len(finished)
       /\ steps' = [steps EXCEPT ![w] =
                      IF st.batch[w] # <<>> THEN @ ELSE @ - 1]
  /\ UNCHANGED pending

Next ==
  \/ \E r \in Requests : Arrival(r)
  \/ \E w \in Workers : TokenStepDone(w)

Spec == Init /\ [][Next]_vars

(* Engine.Run pops events until there are none, and a step takes time, so  *)
(* no event is for ever overtaken by later ones.                           *)
Fairness ==
  /\ WF_vars(\E r \in Requests : Arrival(r))
  /\ \A w \in Workers : WF_vars(TokenStepDone(w))

FairSpec == Spec /\ Fairness

-----------------------------------------------------------------------------
Placed == UNION {ToSet(batch[w]) : w \in Workers}
Waiting == pending \cup ToSet(queue)

TypeOK ==
  /\ policy \in PolicyNames
  /\ pending \subseteq Requests
  /\ queue \in Seq(Requests) /\ IsInjective(queue)
  /\ virtualTime \in [Tiers -> Nat]
  /\ batch \in [Workers -> Seq(Requests)]
  /\ \A w \in Workers : IsInjective(batch[w])
  /\ generated \in [Requests -> Nat]
  /\ matched \in [Requests -> Nat]
  /\ prefixCache \in [Workers -> [PrefixIDs -> PrefixState]]
  /\ steps \in [Workers -> Nat]
  /\ done \subseteq Requests
  /\ completed \in Nat

(* The handlers and the five policies do what Serving promises: whatever   *)
(* order a queue is kept in and whichever victims the OOM loop finds, each *)
(* step is one that the abstract scheduler may take.                       *)
Abstract == INSTANCE Serving WITH
  queue <- ToSet(queue),
  batch <- [w \in Workers |-> ToSet(batch[w])]

ImplementsServing == Abstract!Spec

(* Without paging no worker sits idle while a request that would fit it    *)
(* waits, though the queue is only looked at when a request arrives or a   *)
(* worker ends a step.  (A WFQ tier may be cut off; see NoTierStarves.)    *)
WorkConserving ==
  ~PagedAttention /\ policy # "wfq" =>
    \A w \in Workers : batch[w] = <<>> =>
      \A r \in ToSet(queue) : WorstTokens[r] > MemoryTokens

(* Requests of one tier and one size are served in the order of their      *)
(* arrival, under every policy, as long as none is preempted.              *)
SameClass(r, s) ==
  Tier[r] = Tier[s] /\ ContextTokens[r] = ContextTokens[s]
    /\ OutputTokens[r] = OutputTokens[s]

ClassInArrivalOrder ==
  ~PagedAttention => \A r, s \in Requests :
    SameClass(r, s) /\ ArrivalMs[r] < ArrivalMs[s] /\ r \in Waiting
      => s \in Waiting

(* A request that the policy ranks behind r overtakes r only onto a worker *)
(* where the worst case of r does not fit beside what runs there and what  *)
(* was chosen ahead of it: priorities, shortest-first and arrival order,   *)
(* with weighted fair queueing that within a tier, give way to memory and  *)
(* to nothing else.                                                        *)
RankedBefore(r, s) ==
  CASE policy \in {"fifo", "dynbatch"} -> ArrivalMs[r] < ArrivalMs[s]
    [] policy \in {"priority", "srtf"} -> Precedes(policy, r, s)
    [] policy = "wfq" -> Tier[r] = Tier[s] /\ ArrivalMs[r] < ArrivalMs[s]

OvertakenOnlyForMemory ==
  [][~PagedAttention /\ (\A r \in Requests : PrefixID[r] = NoPrefix) =>
       \A w \in Workers :
         LET joined == ToSet(batch'[w]) \ ToSet(batch[w])
             stayed == ToSet(batch'[w]) \ joined
             ahead(r) == {s \in joined : ~RankedBefore(r, s)}
         IN \A r \in ToSet(queue') : ahead(r) # joined =>
              TokenSum(stayed, TotalTokens(generated'))
                + TokenSum(ahead(r) \cup {r}, WorstTokens) > MemoryTokens]_vars

(* When every request fits a worker, every one is completed: none is       *)
(* preempted for ever and none is forgotten in the queue.  A request that  *)
(* creates its prefix entry needs room for it beside its own context.      *)
Footprint(r) ==
  WorstTokens[r] + (IF PrefixID[r] = NoPrefix THEN 0 ELSE ContextTokens[r])

AllServed ==
  (\A r \in Requests : Footprint(r) <= MemoryTokens)
    => \A r \in Requests : <>(r \in done)

-----------------------------------------------------------------------------
(* What comments and documents say of the code and the code does not do.   *)

(* ARCHITECTURE.md: worst-case memory is checked before a request is       *)
(* admitted, which enforces the memory capacity of a worker.               *)
AdmissionProtectsMemory ==
  ~PagedAttention => \A w \in Workers : UsedMemory(Before, w) <= MemoryTokens

(* Engine.Run: the simulation runs until all events are processed.         *)
RunOver == pending = {} /\ \A w \in Workers : steps[w] = 0

RunTerminates == <>RunOver

(* POLICY_NOTES.md on weighted fair queueing: no tier starves.  When the   *)
(* last event has fired, no request that fits a worker is still waiting.   *)
NoTierStarves ==
  policy = "wfq" /\ RunOver =>
    \A r \in ToSet(queue) : Footprint(r) > MemoryTokens
=============================================================================
