----------------------------- MODULE MCServing -----------------------------
(***************************************************************************)
(* Two workers and four requests for TLC.  r1 and r2 share a prefix and    *)
(* have contexts of different length, so that either may create its entry; *)
(* r2 asks for no output at all.  r3 and r4 carry no prefix; they pass     *)
(* admission together and outgrow the worker afterwards.                   *)
(***************************************************************************)
EXTENDS Serving, TLC

CONSTANTS r1, r2, r3, r4, p1

MCRequests == {r1, r2, r3, r4}
MCPrefixIDs == {p1}
MCContext == (r1 :> 3) @@ (r2 :> 1) @@ (r3 :> 1) @@ (r4 :> 3)
MCOutput == (r1 :> 2) @@ (r2 :> 0) @@ (r3 :> 3) @@ (r4 :> 4)
MCPrefix == (r1 :> p1) @@ (r2 :> p1) @@ (r3 :> NoPrefix) @@ (r4 :> NoPrefix)
=============================================================================
