------------------------------ MODULE MCEngine ------------------------------
(***************************************************************************)
(* Instances of the engine for TLC: two workers and two tiers.             *)
(*                                                                         *)
(* Plain workload: no prefixes; a1 and a2 are of one class, b1 is short    *)
(* and urgent, c1 is long, d1 fits no worker.  a1 or a2 passes admission   *)
(* beside c1 and outgrows the worker with it.                              *)
(*                                                                         *)
(* Shared workload: e1, e2 and a1 carry the prefix p1 with contexts of     *)
(* different length; c1 has none.  Any of the three may create the entry.  *)
(*                                                                         *)
(* Wide workload: two requests with the prefix p1 whose worst case fits a  *)
(* worker, but not beside the prefix entry that one of them creates.       *)
(***************************************************************************)
EXTENDS Engine

CONSTANTS a1, a2, b1, c1, c2, d1, e1, e2, p1, free, pro

MCTierOrder == <<free, pro>>
MCPriority == (free :> 2) @@ (pro :> 1)
MCCost == (free :> 3) @@ (pro :> 1)
MCSLA == (free :> 100) @@ (pro :> 25)
MCWorkers == {1, 2}
MCWorkerOrder == <<1, 2>>
OneWorker == {1}
OneWorkerOrder == <<1>>

PlainRequests == {a1, a2, b1, c1, c2, d1}
PlainContext == (a1 :> 1) @@ (a2 :> 1) @@ (b1 :> 2) @@ (c1 :> 3) @@ (c2 :> 3)
                  @@ (d1 :> 6)
PlainOutput == (a1 :> 3) @@ (a2 :> 3) @@ (b1 :> 2) @@ (c1 :> 4) @@ (c2 :> 4)
                 @@ (d1 :> 3)
PlainTier == [r \in PlainRequests |-> IF r \in {b1, c1} THEN pro ELSE free]
PlainArrival == (a1 :> 1) @@ (a2 :> 2) @@ (b1 :> 3) @@ (c1 :> 0) @@ (c2 :> 0)
                  @@ (d1 :> 1)
PlainPrefix == [r \in PlainRequests |-> NoPrefix]

SharedRequests == {a1, c1, e1, e2}
SharedContext == (a1 :> 1) @@ (c1 :> 3) @@ (e1 :> 1) @@ (e2 :> 2)
SharedOutput == (a1 :> 3) @@ (c1 :> 4) @@ (e1 :> 3) @@ (e2 :> 2)
SharedTier == [r \in SharedRequests |-> IF r \in {e2, c1} THEN pro ELSE free]
SharedArrival == [r \in SharedRequests |-> IF r = c1 THEN 0 ELSE 1]
SharedPrefix ==
  [r \in SharedRequests |-> IF r \in {e1, e2} THEN p1 ELSE NoPrefix]
SharedPrefixIDs == {p1}

WideRequests == {e1, e2}
WideContext == [r \in WideRequests |-> 4]
WideOutput == [r \in WideRequests |-> 2]
WideTier == [r \in WideRequests |-> free]
WideArrival == [r \in WideRequests |-> 1]
WidePrefix == [r \in WideRequests |-> p1]
=============================================================================
