----------------------------- MODULE MCSession -----------------------------
(***************************************************************************)
(* Instances of a session for TLC: Poisson workloads with and without      *)
(* weights and prefixes, with weights of which no sum reaches their total, *)
(* bursts that are cut off early and late, a trace, a trace that is edited *)
(* while policies are compared, and configurations that are refused.       *)
(***************************************************************************)
EXTENDS Session, TLC

MCWaits == (0 :> 1) @@ (1 :> 3)
MCPolicies == <<"fifo", "srtf">>

Row(time, tier) ==
  [arrivalMs |-> time, contextTokens |-> 1, outputTokens |-> 1,
   tier |-> tier, sharesPrefix |-> FALSE]

Base ==
  [type |-> "poisson", durationMs |-> 3, rps |-> 1, peakRPS |-> 1,
   burstDurationMs |-> 3, idleDurationMs |-> 0,
   contextTokens |-> [min |-> 1, max |-> 1],
   outputTokens |-> [min |-> 1, max |-> 1],
   tierWeights |-> ("free" :> 2) @@ ("pro" :> 1), prefixHitRate |-> 0,
   traces |-> {},
   tiers |-> <<"free", "pro">>, scheduler |-> "wfq",
   numWorkers |-> 1, memoryGB |-> 1, maxBatchSize |-> 1, kvPerTokenGB |-> 1]

Steady == [Base EXCEPT !.outputTokens.max = 2]
Sharing == [Base EXCEPT !.rps = 2, !.prefixHitRate = 1,
                        !.tierWeights = <<>>]
Silent == [Base EXCEPT !.rps = 0]
Bursts == [Base EXCEPT !.type = "bursty", !.durationMs = 8,
                       !.tierWeights = <<>>, !.tiers = <<"free">>]
ShortBursts == [Bursts EXCEPT !.burstDurationMs = 0, !.idleDurationMs = 2]
Indebted == [Base EXCEPT !.tierWeights = ("free" :> -3) @@ ("pro" :> 2),
                         !.tiers = <<"vip", "free", "pro">>]
Traced == [Base EXCEPT !.type = "trace",
                       !.traces = {<<Row(5, "free"), Row(2, "vip")>>}]
Edited == [Traced EXCEPT !.traces = @ \cup {<<Row(5, "free")>>,
                                            <<Row(5, "free"), Row(2, "pro")>>}]
Unknown == [Base EXCEPT !.type = "uniform"]
NoTime == [Base EXCEPT !.durationMs = 0]
NoPolicy == [Base EXCEPT !.scheduler = "lifo"]

AllConfigs == {Steady, Sharing, Silent, Indebted, Bursts, ShortBursts,
               Traced, Edited, Unknown, NoTime, NoPolicy}
SeededConfigs == {Steady}
=============================================================================
