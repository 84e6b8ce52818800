------------------------------ MODULE MCTimed ------------------------------
(***************************************************************************)
(* Instances of the engine with its clock for TLC.                         *)
(*                                                                         *)
(* Mixed workload: c1 is long and arrives first, a1 joins it and one of    *)
(* the two is preempted; e1 and e2 share a prefix with contexts of one     *)
(* length.  Arrivals and steps meet at the same times.                     *)
(*                                                                         *)
(* Backwards workload: the context of e2 is longer than all that e1 has,   *)
(* and both carry the prefix p1.                                           *)
(***************************************************************************)
EXTENDS Metrics

CONSTANTS a1, c1, e1, e2, p1, free, pro

MCTierOrder == <<free, pro>>
MCPriority == (free :> 2) @@ (pro :> 1)
MCCost == (free :> 3) @@ (pro :> 1)
MCSLA == (free :> 100) @@ (pro :> 25)
TimedSLA == (free :> 12) @@ (pro :> 6)
TimedSLATotal == (free :> 10) @@ (pro :> 12)
MCWorkers == {1, 2}
MCWorkerOrder == <<1, 2>>
OneWorker == {1}
OneWorkerOrder == <<1>>
MCPrefixIDs == {p1}

MixedRequests == {a1, c1, e1, e2}
MixedContext == (a1 :> 1) @@ (c1 :> 3) @@ (e1 :> 1) @@ (e2 :> 1)
MixedOutput == (a1 :> 3) @@ (c1 :> 4) @@ (e1 :> 2) @@ (e2 :> 3)
MixedTier == [r \in MixedRequests |-> IF r \in {e2, c1} THEN pro ELSE free]
MixedArrival == (a1 :> 1) @@ (c1 :> 0) @@ (e1 :> 2) @@ (e2 :> 2)
MixedPrefix == [r \in MixedRequests |-> IF r \in {e1, e2} THEN p1 ELSE NoPrefix]
MixedTiming == [baseMs : {1, 2}, perTokenMs : {0, 1}, perBatchMs : {0, 1}]

BackwardsRequests == {e1, e2}
BackwardsContext == (e1 :> 1) @@ (e2 :> 4)
BackwardsOutput == (e1 :> 3) @@ (e2 :> 2)
BackwardsTier == [r \in BackwardsRequests |-> free]
BackwardsArrival == (e1 :> 2) @@ (e2 :> 1)
BackwardsPrefix == [r \in BackwardsRequests |-> p1]
BackwardsTiming == {[baseMs |-> 1, perTokenMs |-> 1, perBatchMs |-> 0]}
=============================================================================
