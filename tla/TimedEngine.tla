---------------------------- MODULE TimedEngine ----------------------------
(***************************************************************************)
(* Engine with its clock: events fire in the order of their times, a step  *)
(* takes as long as the timing model says, requests get their timestamps,  *)
(* and the periodic sample is an event of its own.                         *)
(*                                                                         *)
(* Times are whole numbers of 1/TimeScale ms, so that the average length   *)
(* of a batch is exact.  Which of several events of one time fires first   *)
(* is left open: the fraction that Event.Priority adds for the sequence    *)
(* number is lost to rounding (module EventQueue).                         *)
(***************************************************************************)
EXTENDS Engine

CONSTANTS
  TimingChoice,      (* the timing parameters a run may be started with    *)
  TimeScale,         (* a multiple of every batch size                     *)
  SampleIntervalMs,  (* SimConfig.SampleIntervalMs; 0 for no samples       *)
  DurationMs         (* WorkloadConfig.DurationMs                          *)

ASSUME TimedAssumption ==
  /\ TimingChoice \subseteq [baseMs : Nat, perTokenMs : Nat, perBatchMs : Nat]
  /\ TimeScale \in Nat \ {0}
  /\ \A n \in 1..MaxBatchSize : TimeScale % n = 0
  /\ SampleIntervalMs \in Nat /\ DurationMs \in Nat \ {0}

VARIABLES
  timing,        (* Engine.timing                                          *)
  clock,         (* Engine.clock                                           *)
  stepAt,        (* the time of a worker's TokenStepDone event             *)
  sampleAt,      (* the time of the PeriodicSample event, a set of one     *)
                 (* or no time                                             *)
  dispatchMs,    (* Request.DispatchMs; 0 when unset, as are the next two  *)
  firstTokenMs,  (* Request.FirstTokenMs                                   *)
  completionMs,  (* Request.CompletionMs                                   *)
  preemptions,   (* Request.Preemptions                                    *)
  busyTimeMs,    (* Worker.BusyTimeMs                                      *)
  samples        (* Collector.Samples; no two are of one time              *)

timedVars == <<timing, clock, stepAt, sampleAt, dispatchMs, firstTokenMs,
               completionMs, preemptions, busyTimeMs, samples>>
allVars == <<vars, timedVars>>

Scaled(ms) == TimeScale * ms

TimedInit ==
  /\ Init
  /\ timing \in TimingChoice
  /\ clock = 0
  /\ stepAt = [w \in Workers |-> 0]
  /\ sampleAt = IF SampleIntervalMs > 0 THEN {Scaled(SampleIntervalMs)} ELSE {}
  /\ dispatchMs = [r \in Requests |-> 0]
  /\ firstTokenMs = [r \in Requests |-> 0]
  /\ completionMs = [r \in Requests |-> 0]
  /\ preemptions = [r \in Requests |-> 0]
  /\ busyTimeMs = [w \in Workers |-> 0]
  /\ samples = {}

-----------------------------------------------------------------------------
Events ==
  {[timeMs |-> Scaled(ArrivalMs[r]), id |-> <<"arrival", r>>] : r \in pending}
    \cup {[timeMs |-> stepAt[w], id |-> <<"step", w>>] :
             w \in {v \in Workers : steps[v] > 0}}
    \cup {[timeMs |-> t, id |-> <<"sample", 0>>] : t \in sampleAt}

(* Engine.Run pops an event of the least time and sets the clock to it.    *)
FiresAny(time) == clock' = time   \* the heap hands out any event

Fires(time) ==
  /\ \A e \in Events : time <= e.timeMs
  /\ clock' = time

(* BatchAvgSeqLen, times TimeScale: cached prefixes cost no time.  The     *)
(* batch is not empty.                                                     *)
BatchAvgSeqLen(w) ==
  LET B == ToSet(batch[w])
      tokens == TokenSum(B, TotalTokens(generated)) - TokenSum(B, matched)
  IN tokens * (TimeScale \div Len(batch[w]))

(* TimingModel.StepMs.                                                     *)
StepMsNoBase(w) ==   \* the base time is not added
  timing.perTokenMs * BatchAvgSeqLen(w)

StepMs(w) ==
  Scaled(timing.baseMs) + timing.perTokenMs * BatchAvgSeqLen(w)
    + Scaled(timing.perBatchMs * Len(batch[w]))

(* scheduleTokenStep for the workers of W.                                 *)
ScheduleTwice(W) ==   \* a step that was topped up is charged twice
  /\ stepAt' = [w \in Workers |->
                  IF w \in W THEN clock' + StepMs(w)' ELSE stepAt[w]]
  /\ busyTimeMs' =
       [w \in Workers |->
          IF w \in W
          THEN busyTimeMs[w] + StepMs(w)' * (IF batch[w] = <<>> THEN 1 ELSE 2)
          ELSE busyTimeMs[w]]

ScheduleTokenStep(W) ==
  /\ stepAt' = [w \in Workers |->
                  IF w \in W THEN clock' + StepMs(w)' ELSE stepAt[w]]
  /\ busyTimeMs' = [w \in Workers |->
                      IF w \in W THEN busyTimeMs[w] + StepMs(w)'
                      ELSE busyTimeMs[w]]

Dispatched(S) ==
  dispatchMs' = [r \in Requests |-> IF r \in S THEN clock' ELSE dispatchMs[r]]

TimedArrival(r) ==
  /\ Arrival(r)
  /\ UNCHANGED <<timing, sampleAt, firstTokenMs, completionMs, preemptions,
                 samples>>
  /\ Fires(Scaled(ArrivalMs[r]))
  /\ LET started == {w \in Workers : batch[w] # batch'[w]}
     IN /\ Dispatched(UNION {ToSet(batch'[w]) : w \in started})
        /\ ScheduleTokenStep(started)

(* In a step every request of the batch has a token before some of them    *)
(* are evicted; whoever is left without one was evicted, and whoever is in *)
(* the batch without one has just been dispatched.                         *)
FirstTokensKept(w, victims) ==   \* Evict leaves FirstTokenMs alone
  [r \in Requests |->
     IF r \in ToSet(batch[w]) /\ firstTokenMs[r] = 0 THEN clock'
     ELSE firstTokenMs[r]]

FirstTokens(w, victims) ==
  [r \in Requests |-> IF r \in victims THEN 0
                      ELSE IF r \in ToSet(batch[w]) /\ generated[r] = 0
                      THEN clock' ELSE firstTokenMs[r]]

TimedStep(w) ==
  /\ TokenStepDone(w)
  /\ UNCHANGED <<timing, sampleAt, samples>>
  /\ Fires(stepAt[w])
  /\ LET finished == done' \ done
         victims == {r \in ToSet(batch[w]) : generated'[r] = 0}
     IN /\ firstTokenMs' = FirstTokens(w, victims)
        /\ completionMs' = [r \in Requests |-> IF r \in finished THEN clock'
                                               ELSE completionMs[r]]
        /\ preemptions' = [r \in Requests |-> IF r \in victims
                                              THEN preemptions[r] + 1
                                              ELSE preemptions[r]]
  /\ Dispatched({r \in ToSet(batch'[w]) : generated'[r] = 0})
  /\ ScheduleTokenStep(IF batch'[w] = <<>> THEN {} ELSE {w})

(* handlePeriodicSample.                                                   *)
NextSampleNow(time) == {time}   \* the interval is not added

NextSamples(time) ==   \* more than one is scheduled
  {time + Scaled(SampleIntervalMs), time + 2 * Scaled(SampleIntervalMs)}

NextSampleLate(time) ==   \* the time of this sample is compared
  IF 2 * time <= 3 * Scaled(DurationMs)
  THEN {time + Scaled(SampleIntervalMs)} ELSE {}

NextSample(time) ==
  LET next == time + Scaled(SampleIntervalMs)
  IN IF 2 * next <= 3 * Scaled(DurationMs) THEN {next} ELSE {}

RecordSample(sample) == samples' = samples \cup {sample}

PeriodicSample ==
  /\ \E time \in sampleAt : Fires(time) /\ sampleAt' = NextSample(time)
  /\ LET active == {w \in Workers : batch[w] # <<>>}
     IN RecordSample([timeMs |-> clock', queueDepth |-> Len(queue),
                      activeWorkers |-> Cardinality(active),
                      totalBatched |->
                        TokenSum(Workers, [w \in Workers |-> Len(batch[w])])])
  /\ UNCHANGED <<vars, timing, stepAt, dispatchMs, firstTokenMs, completionMs,
                 preemptions, busyTimeMs>>

TimedNext ==
  \/ \E r \in Requests : TimedArrival(r)
  \/ \E w \in Workers : TimedStep(w)
  \/ PeriodicSample

(* The loop of Engine.Run goes on while there is an event; nothing else is *)
(* assumed.                                                                *)
TimedSpec == TimedInit /\ [][TimedNext]_allVars /\ WF_allVars(TimedNext)

-----------------------------------------------------------------------------
TimedTypeOK ==
  /\ timing \in TimingChoice
  /\ clock \in Int
  /\ stepAt \in [Workers -> Int]
  /\ sampleAt \subseteq Nat /\ Cardinality(sampleAt) <= 1
  /\ dispatchMs \in [Requests -> Int]
  /\ firstTokenMs \in [Requests -> Int]
  /\ completionMs \in [Requests -> Int]
  /\ preemptions \in [Requests -> Nat]
  /\ busyTimeMs \in [Workers -> Int]
  /\ samples \subseteq [timeMs : Int, queueDepth : Nat, activeWorkers : Nat,
                        totalBatched : Nat]

(* No event is for ever overtaken by others, though events fire strictly   *)
(* by time: the clock implements the fairness that Engine assumes of the   *)
(* arrivals and of each worker.                                            *)
ImplementsFairEngine == FairSpec

(* The handlers use the event queue as they should: they lose no event,    *)
(* fire none before its time, and schedule none in the past.  (The times   *)
(* here are further apart than the fractions in the keys of the queue, so  *)
(* that the order of events is that of time.)                              *)
Until(t) == t

Bag == INSTANCE EventBag WITH events <- Events

ImplementsEventBag == Bag!Spec

(* A worker's steps do not overlap: it is never charged for more time than *)
(* has passed when its step ends, so that utilisation is at most 1.        *)
BusyWithinElapsed ==
  \A w \in Workers :
    busyTimeMs[w] <= IF steps[w] > 0 THEN stepAt[w] ELSE clock

(* Whatever preemptions it went through, a completed request was           *)
(* dispatched after it arrived, and had its first token after the dispatch *)
(* that led to its completion; a waiting one has no first token.           *)
TimestampsOrdered ==
  /\ \A r \in done :
       /\ Scaled(ArrivalMs[r]) <= dispatchMs[r]
       /\ dispatchMs[r] < firstTokenMs[r]
       /\ firstTokenMs[r] <= completionMs[r]
  /\ \A r \in ToSet(queue) : firstTokenMs[r] = 0

(* Each token of a request takes a step of its own: between dispatch and   *)
(* completion lies the base time of a step for each of its tokens.         *)
TokensTakeTime ==
  \A r \in done :
    completionMs[r] - dispatchMs[r] >= OutputTokens[r] * Scaled(timing.baseMs)

(* The simulation ends: samples do not keep it alive, and no request is    *)
(* preempted for ever when each fits a worker.                             *)
SimulationEnds == <>(Events = {})

(* Sampling does not make a run longer than half as long again as the      *)
(* arrivals last, or than the first sample: the time that throughput and   *)
(* utilisation are divided by is otherwise that of the last completion.    *)
DurationAccounted ==
  Events = {} =>
    \/ \E r \in done : completionMs[r] = clock
    \/ 2 * clock <= 3 * Scaled(DurationMs)
    \/ clock = Scaled(SampleIntervalMs)

-----------------------------------------------------------------------------
(* What comments and documents say of the code and the code does not do.   *)

(* ARCHITECTURE.md: events fire in strict chronological order.             *)
ClockMonotone == [][clock' >= clock]_allVars
=============================================================================
