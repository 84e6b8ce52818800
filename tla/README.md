# A TLA+ model of TASS

TASS is a discrete-event simulator of LLM serving: requests arrive at a queue,
one of five scheduling policies forms batches for GPU workers, each worker runs
a batch step by step (one token per request and step), and a worker that runs
out of KV-cache memory preempts requests. This directory holds TLA+ modules of
that program, TLC configurations that check them on small instances, and proofs
of their invariants, action properties and refinements for instances of every size.

The simulator is sequential: one loop pops events and calls a handler. What is
hard about it is not parallelism inside a handler but the order of handlers:
the steps of several workers, arrivals and preemptions interleave in as many
ways as there are timing parameters and workloads, and every handler touches
the state that several others rely on (queue, batches, prefix caches, tokens,
the outstanding events). A test fixes one such order; the model leaves it open.

## Inventory

| Part | State it keeps | Operations | Talks to |
|---|---|---|---|
| Engine (`internal/engine/engine.go`) | clock, event queue, counter of completed requests | `ScheduleArrival`, `Run`, `handleArrival`, `handleTokenStepDone`, `handlePeriodicSample`, `tryDispatchAll`, `tryDispatch`, `tryFillBatch`, `scheduleTokenStep` | all others, by direct calls |
| Event queue (`engine/event.go`, `util/heap.go`) | a binary heap keyed by time plus a small fraction of a sequence number | `Push`, `Pop`, `Peek` | engine |
| Domain model (`internal/model`) | per worker: batch, prefix cache, busy time; per request: tokens, matched prefix, timestamps, preemptions | `AddToBatch`, `RemoveCompleted`, `Evict`, `UsedMemoryGB`, `BatchAvgSeqLen`, `StepMs` | called by engine and policies |
| Policies (`internal/scheduler`) | a queue (one per tier for WFQ), virtual times (WFQ) | `Enqueue`, `FormBatch`, `QueueLen` | read workers, called by engine |
| Workload (`internal/workload`, `util/rng.go`) | the random generator; the slice under construction | `Generate` (Poisson, bursty, trace), `makeRequest`, `pickTier` | gives `main` the requests |
| Metrics (`internal/metrics/collector.go`, `util/stats.go`) | completed requests, samples | `RecordCompletion`, `RecordSample`, `ComputeSummary`, `Percentile`, `JainsIndex` | called by engine and `main` |
| Result files (`internal/metrics/exporter.go`) | a directory for each policy, with a summary and a table of requests | `ExportSummaryJSON`, `ExportRequestCSV` | called by `main`; fails with the file system |
| Configuration (`internal/config`) | the parsed file | `Load`, `Validate` | read by all |
| Command line (`cmd/tass`) | the policies still to be run | `runSingle`, `runComparison`, `runSimulation`, `exportResults` | creates the rest, one simulation for each policy |

What makes each part correct:

* Engine: no request is lost or served twice; a worker with a batch has exactly
  one step outstanding; an idle worker does not sit beside a request that fits;
  every request that fits is completed; time never runs backwards.
* Domain model: the batch limit holds; the reference count of a prefix is the
  number of its users; a preempted request starts over; with paging, memory is
  respected after each step.
* Policies: what `FormBatch` returns is out of the queue, within the batch limit
  and within the memory that is free; a request is overtaken only by one that
  the policy ranks before it, or for want of memory; no tier starves.
* Event queue: events come out in the order of time, but for differences below
  the precision of the key; ties in order of insertion.
* Metrics: a percentile splits the data where it should; the counts of SLA
  violations and the percentiles agree; throughput is backed by busy time.
* Workload: arrivals are ordered and inside the duration, bursts are apart,
  tokens and tiers are those the configuration allows; generating again from
  one seed gives the same workload, so that policies are compared on it.
* Result files and command line: a directory never holds files of two
  simulations without an error having been reported; what is refused leaves
  earlier results alone; the program ends.

The hazards, each at its line, are in `PROJECT.json`.

## Modules

| Module | Models |
|---|---|
| `Model` | the data of `internal/model`: token counts, memory in tokens, prefix entries |
| `Serving` | the abstract scheduler: the life of a request under any policy that keeps the contract of `FormBatch`, with events in any order |
| `ServingProofs` | the proofs about `Serving` |
| `Policies` | `Enqueue` and `FormBatch` of FIFO, Priority, WFQ, SRTF and DynBatch, as operators on sequences |
| `Engine` | the handlers with the queues and batches as sequences and the policies as they are; it implements `Serving` |
| `EventBag` | what the event loop promises: no event lost, none scheduled in the past, and none fired past a waiting one that is earlier by more than `Until` allows, an operator that its users choose |
| `EventQueue` | the binary heap, its key in floating point, and the loop that pops it; it implements `EventBag` |
| `TimedEngine` | `Engine` with the clock, step times, timestamps, busy times and the periodic sample; it implements `Engine` with its fairness, and `EventBag` |
| `Metrics` | the derived times of a request and `ComputeSummary` with its statistics, as operators over the state of `TimedEngine` |
| `Workload` | the three generators turn by turn, and the random numbers they draw |
| `Session` | one invocation of the program: validation, and for each policy a workload, a simulation and an export that may fail at any step |
| `SessionProofs` | the proofs about `Session` |
| `FoldProofs` | what a loop over a sequence does: the invariant rule for `FoldLeft` |
| `ModelProofs` | sums of token counts, victims and users of a prefix, as lemmas |
| `PolicyProofs` | the proofs about `Enqueue` and `FormBatch` |
| `EngineProofs` | the proofs about `Engine`, that it implements `Serving` among them |
| `EventQueueProofs` | the proofs about `EventQueue`, that it implements `EventBag` among them |
| `TimedProofs` | the proofs about `TimedEngine` (the clock, the timestamps, busy times) and `Metrics` |
| `MCServing`, `MCEngine`, `MCTimed`, `MCSession` | instances for TLC (`EventQueue` is an instance by itself) |

`Engine` EXTENDS `Policies`, which EXTENDS `Model`; `Serving` EXTENDS `Model`
only. `Engine` instantiates `Serving` with `queue <- ToSet(queue)` and
`batch[w] <- ToSet(batch[w])`; the other variables are the same. `TimedEngine`
EXTENDS `Engine`: each of its actions is an action of `Engine` together with what
it does to the clock, so that the refinement of the state is the identity, and
what remains to be checked is the fairness. It instantiates `EventBag` with the
set of its outstanding events, `EventQueue` with the set of the heap's elements.
Together they say that the clock may take the heap for a set from which an event
of the least time is drawn, as long as times are further apart than the fractions
in the keys: `TimedEngine` instantiates `EventBag` with the identity for `Until`,
`EventQueue` with the time up to which its rounded keys may reach. `Metrics` EXTENDS `TimedEngine`: a summary can be made
of every state of a run, and `main` makes it of the last. `Session` EXTENDS
`Workload` and calls it once for each policy; a whole simulation is one step of it,
since `main` does nothing else meanwhile. A trace file is read anew by every call. What `Workload` promises
(`WithinConfiguration`) is what the assumptions of `Model` and `TimedEngine` ask
of the constants that stand for the requests; only a trace may break it.

### State and actions

| Variable | Code |
|---|---|
| `pending` | the Arrival events in the event queue |
| `queue` | the slice of a scheduler; WFQ's queues are its subsequences by tier |
| `virtualTime` | `WFQScheduler.virtualTime` |
| `batch`, `prefixCache` | the fields of `Worker` |
| `generated`, `matched` | `GeneratedTokens`, `MatchedPrefixTokens` of `Request` |
| `steps[w]` | how many TokenStepDone events of `w` are in the event queue |
| `done`, `completed` | `Collector.Completed`, `Engine.completed` |
| `policy` | which scheduler `main` created |
| `clock`, `timing` | `Engine.clock`, `Engine.timing` |
| `stepAt[w]`, `sampleAt` | the times of the TokenStepDone event of `w` and of the PeriodicSample event |
| `dispatchMs`, `firstTokenMs`, `completionMs`, `preemptions` | the fields of `Request` |
| `busyTimeMs`, `samples` | `Worker.BusyTimeMs`, `Collector.Samples` |
| `cfg`, `rng` (`Workload`) | the `Config`; the `RNG` that `NewRNG` made of the seed |
| `cfg.traces` | what the trace file may hold when a call of `generateTrace` reads it; several contents for a file that is edited while the program runs |
| `requests`, `timeMs`, `periodStart`, `inBurst`, `phase` | the locals of `generatePoisson`, `generateBursty` and `generateTrace`, and whether the call goes on, has returned or has failed |
| `compare`, `stage`, `todo` (`Session`) | the flag, where `main` is, the rest of the list of policies |
| `disk`, `reported`, `first` | the files of each directory; the directories of which an export error was printed; the workload of the first policy, kept to compare others with |
| `heap`, `seqNum` (`EventQueue`) | `PriorityQueue.inner`, `Engine.seqNum` |

`Arrival(r)` is the whole of `handleArrival`: the request is enqueued (with the
sort of the policy) and the queue is offered to every idle worker in order.
`TokenStepDone(w)` is the whole of `handleTokenStepDone`: each request of the
batch gains a token, complete ones leave and release their prefix, the OOM loop
evicts, the worker is filled up, and the next step is scheduled if it has a
batch. `TimedArrival` and `TimedStep` are the same handlers with their
timestamps and step times, and `PeriodicSample` is `handlePeriodicSample`.
`EventQueue`'s `Turn` is one turn of the loop in `Run`: pop, set the clock, and
push what the handler schedules. `PoissonTurn`, `BurstTurn`, `IdleTurn` and
`TraceTurn` are each one iteration of a generator's loop, with the whole of
`makeRequest`; `MakeDir`, `ExportSummary` and `ExportRequests` are the steps of
`exportResults`, each with the way in which `main` goes on. `handleDispatch` and `handleCompletion` have no event that reaches them.

Abstractions that apply throughout:

* Memory is counted in tokens. Every test compares a whole number of tokens
  times `KVPerTokenGB` with `MemoryGB`, so `MemoryTokens` is the floor of their
  quotient. Rounding of floating-point products is left out.
* A worker's matched prefix may be longer than the context of a request, as in
  the code; its memory is then negative, as in the code.
* `Serving` lets events fire in any order. `Engine` keeps the order of arrivals
  and lets a step and the next arrival fire in either order. Both therefore
  cover every timing model.
* `TimedEngine` counts time in whole units of `1/TimeScale` ms, a multiple of
  every batch size, so that the average length of a batch is exact. Of several
  events of one time any may fire first: `EventQueue` shows that the order of
  insertion does not decide it.
* `EventQueue` counts time in units of 1e-15 ms, the fraction that the key adds
  for one event, and rounds sums to a few bits, halves to even, where the code
  has 53. Go's `container/heap` is modelled from the package's documented
  algorithm. Times may be as close to each other as the format has numbers. The
  fractions of all events of a run, added to a time and rounded, give `Until`: in
  the code, with a million events, 1e-9 ms beyond the time, or the next number of
  the format where that is further. Events of times that are closer may be
  reversed, and the clock is then turned back by that much.
* The penalty (1e9) and the limit (1e18) of WFQ are the constants `SkipPenalty`
  and `MaxVT`, small in the instances. The model keeps that a tier can be
  penalised only finitely often; it does not keep how often that is.
* A summary counts time in the units of `TimedEngine`, percentiles in hundredths
  of it; means and rates are rounded down. `Sorted` reads the k-th of a set of
  measurements where the code sorts a slice.
* A seed is a sequence of words that nobody knows: a word is chosen when it is
  drawn for the first time and kept for the next generation. There are
  `WordCount` words. `Float64` of the word `u` is the middle of its share of
  [0, 1), `Intn` takes the remainder (the code draws again for the few words that
  would make it uneven), and the gap of an exponential draw is the entry of
  `Waits` divided by the rate and rounded up. A gap is therefore positive; in
  the code a draw of exactly zero is possible and changes nothing but equal times.
* `pickTier` walks a Go map: `WeightedTiers` is what any order of the walk can
  give. Weights may be negative, as `Validate` allows; if they sum to less than
  zero a walk may end without reaching the drawn share, and the request gets the
  first tier of the configuration. Sums are exact: that rounding could also lead
  to that fallback is left out.
* A row of a trace is the request it describes. Every policy of a comparison
  opens and reads the file anew: each call of `generateTrace` may fail when it
  opens the file or at any row, whatever earlier calls did, and reads one of the
  contents in `cfg.traces`. That a configuration cannot be read or parsed is a
  choice in `Load`.
* Files are missing, old, cut off or complete. The content of a complete file is
  what `Metrics` says.
* `ArrivalMs` may be negative: a trace may hold any time, and no order is assumed
  of the rows.
* `WFQTurns` bounds the loop of WFQ's `FormBatch` by the number of turns after
  which it cannot go on.

## Runs

| Run | Instance | What it shows |
|---|---|---|
| `serving` | 2 workers, 4 requests, one prefix, paging, batch limit 2, memory 8 | the invariants of the abstract scheduler and `ProgressSurvives` |
| `engine_policies` | 2 workers, 6 requests of 2 tiers, all five policies, no paging | `Engine` implements `Serving`; no worker idles beside a request that fits; requests of a class are served in order; overtaking only for memory |
| `engine_paged` | 2 workers, 4 requests, two of them with a prefix, paging, four policies | the same refinement with preemption, and `AllServed` |
| `event_queue` | times 0, 7, 8 and 32, numbers of 3 bits, at most 6 events | the heap stays ordered, keeps every event and yields them by time but for the fractions; the clock is turned back by no more than those; ties are in order as long as the sums are exact |
| `timed` | 2 workers, 4 requests, two of them with a prefix and contexts of one length, paging, four policies, eight timing models, samples every 3 ms up to 6 ms | `TimedEngine` implements `Engine` with its fairness and `EventBag`; busy time, timestamps and token times are consistent; the duration that is reported is accounted for; the metrics agree with the data and with each other; the simulation ends |
| `session` | 11 configurations (4 Poisson, one with weights that sum to less than zero; 2 bursty; 2 traces, one edited while the program runs; 3 refused), one policy or a comparison of two, every failure of the export | workloads are as configured; bursts are apart; policies are compared on the same requests up to tiers; no directory mixes two simulations silently; refusals leave results alone, but for policies that a trace let through before; the program ends |
| `event_ties` | time 16, at most 3 events | violated: `TiesInOrder` |
| `timed_backwards` | FIFO, 1 worker, 2 requests with one prefix and contexts 1 and 4 | violated: `ClockMonotone` |
| `overcommit` | FIFO, no paging | violated: `AdmissionProtectsMemory` |
| `prefix_livelock` | FIFO, 1 worker, 2 requests with one prefix, paging | violated: `RunTerminates` |
| `wfq_starvation` | WFQ, no paging | violated: `NoTierStarves` |
| `seed_tiers` | one Poisson configuration of `session` | violated: `SeedDeterminesWorkload` |

The bounds. Two workers are enough for a request to be offered to the wrong one
or to both, and for a preempted request to move from one to the other; a third
adds no kind of interaction, since workers share only the queue. A batch of two
is the smallest in which a request joins another; with contexts and outputs of
1 to 4 tokens and a memory of 8 there are requests that fit together, that fit
only one after the other, that fit at admission and not later, and one
that never fits. One prefix with users of different length covers each way in
which its entry is created, shared and released. Six events give a heap of
three levels, with a node that has one child. Of the four times, 0 keeps every
fraction, 7 and 8 keep about every other one, and 32 next to none; 7 and 8 are
closer than the fractions, so that the clock does go back from 8 to 7 in the run.
WFQ is not in `timed`: the clock does not depend on the policy, and TLC is slow
to decide whether a step that contains its loop is enabled. `MaxEvents` bounds
the sequence number of `EventQueue`; no other counter is bounded in the
modules: every run ends because requests are finitely many and tokens bounded,
apart from the livelock, which is a cycle of states.

In `session` there are two words, with gaps of 1 and 3 ticks at a rate of one:
the draw that comes out high and the one that comes out low, on both sides of
each weight and of the hit rate. Durations of 3 and 8 ticks give up to two
requests of a Poisson workload and up to two bursts with an idle period between
them, with bursts that the configured length ends and bursts that the defaults
end. Two of the five policies are compared, which is enough for a second
generation from the seed, for an error before or after a success, and for the
end of the list; `SessionProofs` covers a list of any length. Of the weights -3
and 2 no partial sum reaches the share that either word draws, or the first name
does, depending on the walk. The edited trace has three contents: two that part
at a row and one that ends there.

`CHECK_DEADLOCK FALSE` in every configuration: the simulation ends when the
event queue is empty, and the program when it has run its policies or met a fatal
error; these are states without a successor.

### Fairness

`SessionEnds` is checked under `WF_sessionVars(SessionNext)`: a sequential program
goes on while it can. It rests on gaps that are positive and on an idle period
that has a default when it is configured as zero.

`AllServed` and `RunTerminates` are checked under `FairSpec`: weak fairness of
the arrivals and of each worker's step. That this follows from the order of
events is itself checked: `TimedSpec` assumes no more than that the loop goes on
while there is an event (`WF_allVars(TimedNext)`), and implements `FairSpec`
(`ImplementsFairEngine`). `Engine.Run` pops events until there are
none, the earliest first. With a positive step time, which every configuration
of the repository has (`Validate` does not demand it), a worker that goes on
stepping passes the time of every other event, so that none stays in the queue
for ever while others are popped.

### Findings

1. **Admission does not reserve.** Every policy compares the worst case of a
   request with the memory that the running batch uses *now*. The batch goes on
   growing, so a batch that is topped up between steps outgrows `MemoryGB`
   without paging. `ARCHITECTURE.md` says that worst-case memory is checked to
   enforce capacity; `CanFit`, which it names, has no caller.
2. **Livelock with prefixes.** The creator of a prefix entry pays for its context
   twice, and admission does not know it. With paging, a request that does not
   fit beside its own entry is preempted in its first step and admitted again,
   for ever; the simulation does not end.
3. **WFQ cuts tiers off.** When no request of the lowest tier fits, its virtual
   time is raised until `pickLowestVTTier` ignores it. Nothing lowers it again.
4. **A seed does not determine tiers.** `pickTier` walks a Go map, whose order
   changes from run to run, so one draw picks different tiers in two generations
   with one seed, and a comparison of policies gives them different requests.
   `SameButTiers` shows that tiers are the only difference. `rng.go` promises a
   deterministic generator.
5. **Ties are not FIFO.** The fraction that breaks ties is lost to rounding for
   times from about 16 ms on; events of one time then come out in the order of
   the heap's slice. `engine_test.go` tests times of 50 ms and passes because two
   equal elements happen to come out in order there. Nor does the "strict
   chronological order" of `ARCHITECTURE.md` hold of times that are closer than
   the fractions; `ClockNearlyMonotone` bounds by how much it fails.
6. **Time runs backwards.** A request that shares a prefix takes the whole entry
   as matched, even one longer than its own context, and the length of a step
   becomes negative. The configurations with prefixes and contexts of different
   length can reach it.

Also seen and not stated as properties:

* FIFO: a preempted request joins the tail of the queue, where `fifo.go` says
  that requests are served in the order of arrival. `DispatchMs` is overwritten
  when it is dispatched again, so its queue delay includes the time it was
  served in vain, where `request.go` says "first dispatched".
* DynBatch compares the waiting time with the SLA of the request's own tier,
  where its comment speaks of the lowest one; a victim tie goes to the first of
  the batch, where the comment says the most recent; a tier outside the
  configuration has priority 0 and is never served by WFQ; a request larger than
  a worker stays queued for ever.
* Samples go on until one and a half times `DurationMs`, and the duration that a
  summary divides by includes them: a workload that is done early is reported
  with the lower throughput and utilisation of the longer time. `DurationAccounted`
  states the limit: beyond one and a half times `DurationMs` only a completion,
  or the first sample, is the end of a run.
* Each policy of a comparison reads the trace file again. If it is removed or
  spoilt meanwhile, the program ends with the results of some policies written
  and of others not; if it is edited, policies are compared on different rows,
  and nothing says so. `RefusedBeforeExport` and `SameButTiers` state what is left.
* SLA violations count completed requests only, and fairness the configured tiers
  only, as the mean of each request's tokens per second.
* A time of zero counts as unset, so that a request of a trace that arrives at a
  negative time and is dispatched at zero has no queue delay.
* The summary and the rows are each checked, but the error of the `Flush` that
  is deferred in `ExportRequestCSV` is dropped: the rows may be cut off while
  success is reported. `NoSilentMix` allows it. A summary that holds NaN or an
  infinity cannot be marshalled; that is an export error.
* `Validate` looks at no number of a workload but the duration, nor at the base
  time of a step, the type of the workload, ranges, or weights, which may name
  tiers that are not configured. A trace may hold times that are negative or
  out of order.
* `internal/scheduler/scheduler_test.go` calls `NewWorker` with an argument too
  few.

## Proofs

`ServingProofs` proves, from `ModelAssumption` alone, each property that the run
`serving` checks:

| Theorem | States |
|---|---|
| `TypeCorrect` | `Spec => []TypeOK` |
| `NothingLost` | `Spec => []ExactlyOnePlace` |
| `OneStepAhead` | `Spec => []StepPerBusyWorker` |
| `CountedOnce` | `Spec => []CompletedOnce` |
| `LimitRespected` | `Spec => []BatchWithinLimit` |
| `TokensExact` | `Spec => []TokenAccounting` |
| `RefsExact` | `Spec => []PrefixRefsExact` |
| `MemoryBounded` | `Spec => []PagedMemoryBound` |
| `ProgressMade` | `Spec => ProgressSurvives` |

`ModelAssumption` says that there are finitely many requests and prefixes, that
token counts and memory are naturals and that the batch limit is positive. The
number of workers is not restricted.

The inductive invariant `Inv` is the conjunction of the eight invariants. None
but `TypeOK`, `StepPerBusyWorker` and `BatchWithinLimit` is inductive alone:
a request is counted once only because it is in one place
(`CompletedOnce` and `TokenAccounting` need `ExactlyOnePlace`); a reference count
stays exact only because the requests that join a batch are not in it
(`PrefixRefsExact` needs `ExactlyOnePlace`); memory is bounded only because the
requests that join have no tokens yet (`PagedMemoryBound` needs
`TokenAccounting`). The lemmas follow the code: what `Admit` does to each
variable, then what a step and an arrival do, one lemma for each action and
invariant. A sum of token counts is the number of slots the requests hold, so
that the facts about sums (`SumUnion`, `SumMonotone`, ...) follow from the
library's theorems on finite sets. `ProgressMade` rests on `SomeSurvive` (a
request that fits alone is never the last one evicted) and on `MostAdvanced`
(a set of requests has a most advanced one, by well-foundedness of inclusion).

`ProgressSurvives` requires that each request of the batch fits the worker alone,
and that none carries a prefix. Without the first, a request that joined when
matched prefixes had made the used memory negative may be too large for the
worker, and is evicted alone.

`SessionProofs` proves, from `WorkloadAssumption` and `SessionAssumption`, for any
set of configurations, any words and waits and any list of policies:

| Theorem | States |
|---|---|
| `BurstsStayApart` | `SessionSpec => []BurstsApart` |
| `RefusalsLeaveResults` | `SessionSpec => []RefusedBeforeExport` |
| `ResultsBelongTogether` | `SessionSpec => []NoSilentMix` |
| `SessionTypes` | `SessionSpec => []SessionTypeOK` |
| `GeneratedAsConfigured` | `SessionSpec => []WithinConfiguration` |
| `SameArrivals` | `SessionSpec => []SameButTiers` |

`BurstInv` places each arrival: in the burst that goes on, or more than an idle
period before its start; between two bursts, before the idle period. That the
arrival which ends a burst is dropped, and the idle period starts with it, is what
keeps it. It needs gaps that are positive (`GapPositive`), also for a rate of zero,
where the gap leads past the duration. `RefusalInv` says which directories
may have been touched: none before the configuration was validated, and with a type
that `Generate` does not know none at all, since its first call fails. Only a
trace can fail after a policy was exported, and then only the directories of
policies before it are touched. `MixInv` adds to `NoSilentMix` that the policies still to be run are the
last ones of the list (`TodoOK`), and that rows are written only beside a summary
of the same simulation.

`ConfigInv` says of the requests under construction what `WithinConfiguration` says
of the finished ones, and with `BurstInv` where in the period the generator is; that
a tier can be picked needs that the configuration was validated, which is part of
`RefusalInv`. `ReplayInv` is a simulation of each generation by the first one: what a
turn of a generator makes of all but the tiers is a function of the words of the
seed (`TurnDetermined`), since a turn uses the same number of words whichever
tier is picked, and of a trace that is not edited a function of its rows. There is therefore a path of snapshots that the words determine
(`Replays`); the first generation lays it down as it draws the words, and every later
one is at a snapshot on it. `SameButTiers` compares the ends.

`WorkloadAssumption` states the types that the fields of a configuration have in
Go, that the tiers are a list and the weights a finite map to numbers of either
sign, that a row of a trace describes one request, and that no duration reaches the
largest float. Which tiers `GeneratedAsConfigured` allows follows the walk: one
that is left by the fallback has a share above the total, which is only possible
for a total below zero (`TierOnWalkOf`).

### Folds

The loops of the program are `FoldLeft` in the modules, and the library defines
a fold by a recursive function over a set of indices, about which the provers can
say nothing by themselves. `FoldProofs` shows that the function exists
(`FoldExists`: a partial fold up to each index, by the least index without one),
what it is at the first turn and from one turn to the next (`FoldTurns`), and from
that the rule that the other modules use: what holds before a loop and is kept by
each turn holds after it (`LoopInvariant`, with the states that the invariant
allows after n turns given as a set for each n).

### The policies

`PolicyProofs` has the two contracts that the engine relies on, for every queue,
batch, free memory and virtual time:

| Theorem | States |
|---|---|
| `FormBatchContract` | what is handed out comes from the queue, each request once, within the batch limit and the memory that is free; the rest stays queued; except by WFQ, an idle worker is handed nothing only if nothing fits it |
| `FormBatchInOrder` | a queue in the order of its policy stays so; no request is handed out before an earlier one of its tier and size; a waiting one is overtaken by one that the policy ranks behind it only if it did not fit beside what was chosen ahead of it; WFQ ranks by arrival within a tier, and between tiers one that was served is at most one step of virtual time ahead of one that waits and is not shut out |

The loop invariants are about the chosen prefix of the queue: it fits, and each
request that was passed over did not fit beside the chosen ones before it. Memory
that is in use only grows while a batch is formed, so that what did not fit does
not fit later. The stable sort of Priority and SRTF is a permutation and is
ordered because its rank function is a bijection. The loop of WFQ keeps that
its queue holds what is not chosen, tier by tier in the order of arrival, and that
what it has taken is in turn (`WFQInTurn`): a turn moves the lowest of the tiers
that wait, by the cost of a request or by the penalty, and takes the first of its
requests that fits; those it passes over do not fit beside what was chosen before.
`ClassSpared` then gives the order within a class for all five policies: of two
requests of one size, one cannot fit where the other does not.

### The engine

| Theorem | States |
|---|---|
| `EngineTypes` | `Spec => []TypeOK` |
| `EngineImplementsServing` | `Spec => ImplementsServing` |
| `HandlersKeepPromises`, `HandlersProgress` | what is proved of `Serving` holds of `Engine` |
| `NoIdleWaste` | `Spec => []WorkConserving` |
| `NoClassOvertaken` | `Spec => []ClassInArrivalOrder` |
| `OnlyMemoryOvertakes` | `Spec => OvertakenOnlyForMemory` |

The inductive invariant is `TypeOK /\ P!Inv`, `P` being `Serving` over the
abstraction of the state: that no queue and no batch holds a request twice is
kept only because a request is in one place, and the loops over a batch do what
the sets of `Serving` do only because it is in the batch once. The proof follows
the calls of a handler. For each there is a lemma that says in terms of sets what
the record becomes (`TryFillAdmits`, `RemoveCompletedReleases`,
`EvictLoopPreempts`, `DispatchAllAdmits`), proved with `LoopInvariant`;
`StepCalls` and `ArrivalDispatches` compose them, and `StepImplements` and
`ArrivalImplements` find in the result a step of `Serving`. The victims of the
OOM loop are those with the fewest tokens, one by one, which is what `Evicted`
demands of the set of them.

`WorkConserving` needs that a worker without a batch has no cached prefix left, so
that all of its memory is free (`IdleCache`); then what did not fit an idle
worker does not fit it later. `OrderInv` (the queue is in the order of its policy,
and what waits arrived no later than what is pending) is the invariant under the
two properties about overtaking. Those are about the engine without paging, where
nothing comes back to the queue.

### The event queue

| Theorem | States |
|---|---|
| `QueueTypes` | `Spec => []TypeOK` |
| `HeapStaysOrdered` | `Spec => []HeapOrdered` |
| `QueueImplementsBag` | `Spec => ImplementsEventBag` |
| `ClockStaysNearlyMonotone` | `Spec => ClockNearlyMonotone` |
| `ExactTiesBrokenInOrder` | `Spec => ExactTiesInOrder` |

They hold for heaps of any size, any set of times and any precision;
`EventAssumption` demands only that every time is itself a number of the format.
The loops `up` and `down` keep that the heap is ordered but at one index, and that
the array holds the same elements; the root of an ordered heap is least, by descent
along parents. The key of an event is the time and a fraction of the sequence
number, rounded to a few bits. That rounding is monotone is proved for one whose
unit is a power of two that grows with the number. A key therefore lies between
the time of its event and `Until` of it, so that an event whose key is least is not
past `Until` of any that waits (`LesserKeyFiresInTime`); two events whose times are
further apart than that fire in order. The inductive invariant `QueueInv` says that
the heap is ordered and its elements have different sequence numbers, all given out
by now and at most `MaxEvents`, and that the clock is at 0 until the queue is
drained. `Waiting` adds that the clock is not past `Until` of any event that waits:
with it the clock cannot be turned back further, by however many reversals.

### The clock

| Theorem | Assumes | States |
|---|---|---|
| `TimedImplementsEngine` | | `TimedSpec => Spec`: what is proved of `Engine` holds of a timed run |
| `TimedTypesCorrect` | | `TimedSpec => []TimedTypeOK` |
| `ClockForward` | `Regular` | `TimedSpec => ClockMonotone` |
| `NeverOvercharged` | `Regular` | `TimedSpec => []BusyWithinElapsed` |
| `TimestampsInOrder` | `Regular` | `TimedSpec => []TimestampsOrdered` |
| `EachTokenTakesTime` | `Regular` | `TimedSpec => []TokensTakeTime` |
| `TimedImplementsBag` | `Regular` | `TimedSpec => ImplementsEventBag` |
| `SamplingEndsInTime` | `WithinDuration` | `TimedSpec => []DurationAccounted` |

`Regular` says for which configurations the times of a run make sense: no request
arrives before time 0, the contexts of requests that share a prefix are of one
length, and the base time of a step is positive. The code demands none of the
three, and each is needed. The run `timed_backwards` violates `ClockMonotone` with
contexts of two lengths. With arrivals before 0 the clock goes back from its first
value, and with a base time of 0 a request can be dispatched, served and
completed at one time. The workloads that are generated satisfy the first, those
without prefixes or with a context range of one value the second, and every timing
model in the repository the third; so do the instances of the run `timed`.
All of them are about events that fire in the strict order of time, as the queue
lets them if times are further apart than the fractions; where the queue reverses
close times the clock goes back by as much as `ClockStaysNearlyMonotone` says.
`WithinDuration` keeps the second, and says that arrivals end within one and a
half times the duration (generated ones end within the duration; a trace need
not) and that no run is started with WFQ, which may cut the tier of a preempted
request off: the last step then completes nothing.

The invariants behind them:

* `PrefixInv`: no entry of a prefix cache and no matched prefix is longer than the
  context of a request with that prefix. It makes the length of a step at least the
  base time (`StepTimeType`).
* `ClockInv`: no outstanding event is in the past, and whoever left `pending` has
  arrived by now. Whatever fires is the least, so the clock moves forward.
* `ServiceInv`: a request in a batch was dispatched after its arrival; by the end
  of the worker's step, the base time of a step has passed for each token it will
  then have; its first token came after the dispatch. For a completed request
  this ends in what the two properties say, and a preempted one starts over with
  its next dispatch.
* `Room`: whoever is in a batch fits its worker alone, since what it was admitted
  beside uses no less than nothing. It makes a step that leaves its worker idle
  one that completed a request (`IdleMeansDone`).

`BusyWithinElapsed` is inductive with `ClockInv`. `StepMoves` and `ArrivalMoves`
say which requests move where in a step, as far as their times depend on it.

### The metrics

They are in `TimedProofs` too, since two of them need its invariants:

| Theorem | Assumes | States |
|---|---|---|
| `PercentilesInPlace` | | `TimedSpec => []PercentilesSplit` |
| `ViewsOfSLAAgree` | | `TimedSpec => []SLAMatchesPercentiles` |
| `DelaysInOrder` | `Regular` | `TimedSpec => []DelaysOrdered` |
| `ThroughputBacked` | `Regular` | `TimedSpec => []ThroughputWithinCapacity` |

The first two hold of any finite set of measurements. That the value a sort puts
at index k exists is proved without sorting: it is the least value that more than k
measurements do not exceed (`SortedIs`). From the counts of the values below and
above it follow that sorted values grow with the index and with the data
(`SortedMonotone`, `SortedDominated`), and, with interpolation being between its
neighbours, where a percentile lies (`PercentileNear`, `PercentileMonotone`,
`PercentileDominated`). `util.Mean` adds the values one by one; `SumIsTokenSum` shows
that what comes out does not depend on the order, by induction on the size of the
set over the partial sums that the fold computes.

`ThroughputBacked` needs `PaidInv`: the tokens that all requests hold, times the base
time of a step, are at most the batch limit times what the workers are charged
beyond the base time of the step each is in. A step adds one token at most
for each of a batch and completes the payment of one base time; a preemption only
takes tokens away. What completed requests hold is at least what the summary counts.

### What is only model-checked

* Liveness: `AllServed`, `SimulationEnds`, `SessionEnds`, and the fairness in
  `ImplementsFairEngine` (its safety part is `TimedImplementsEngine`).
* `DurationAccounted` has no theorem for a run with WFQ.

## What is not modelled

* Layout: `FormatTable`, `printComparisonTable`, the columns of the CSV file and
  the fields of the JSON file, log lines.
* The experiment scripts (`plot_results.py`): they read the result files and draw.
* Code without a caller: `CanFit`, `IsBusy`, `IdleWorkers`, `WorkersReadyAt`,
  `KVCacheMaxGB`, `PrefillMs`, `ExportCSV`, `TierByName`, `Poisson`, `NormFloat64`,
  `Choice`, `Peek`.
* That a simulation inside a session may not end: `prefix_livelock` shows it, and
  `SessionEnds` is about the rest of the program.
* The error of rounding in sums of floating-point numbers, but for the key of
  the event queue.

## Plan

Modelled: every part of the program that keeps state. Proved: every safety
property that a passing run checks, of every module, `DurationAccounted` but for
WFQ. What is left:

1. `DurationAccounted` with WFQ: whether a run in which WFQ cuts off the tier of a
   preempted request can end later than the property allows.
2. The timed engine over a queue that reverses close times: by how much the bounds
   on busy time and timestamps then give way.
3. As a further instance: a request whose worst case exceeds a worker and is
   admitted while the used memory is negative.
