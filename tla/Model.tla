------------------------------- MODULE Model -------------------------------
(***************************************************************************)
(* The domain types of internal/model: a request with its token counts,    *)
(* the memory its KV-cache takes, and a worker's shared-prefix cache.      *)
(*                                                                         *)
(* Memory is counted in tokens: a worker holds MemoryTokens =              *)
(* floor(MemoryGB / KVPerTokenGB) of them.  Every memory test of the code  *)
(* compares a whole number of tokens times KVPerTokenGB with MemoryGB.     *)
(***************************************************************************)
EXTENDS Integers, FiniteSets

CONSTANTS
  Requests,        (* the requests the workload generator produced         *)
  Workers,         (* the GPU workers of the cluster                       *)
  PrefixIDs,        (* the shared-prefix identifiers that requests carry    *)
  NoPrefix,        (* Request.PrefixID = ""                                *)
  ContextTokens,   (* Request.ContextTokens, a function on Requests        *)
  OutputTokens,    (* Request.OutputTokens, a function on Requests         *)
  PrefixID,        (* Request.PrefixID, a function on Requests             *)
  MaxBatchSize,    (* Worker.MaxBatchSize, the same for every worker       *)
  MemoryTokens,    (* Worker.MemoryGB in tokens, the same for every worker *)
  PagedAttention   (* Worker.PagedAttention, the same for every worker     *)

(* config.Validate demands a positive batch size and memory.  It does not  *)
(* look at the token counts: a request may have no output tokens.          *)
ASSUME ModelAssumption ==
  /\ IsFiniteSet(Requests)
  /\ IsFiniteSet(PrefixIDs)
  /\ NoPrefix \notin PrefixIDs
  /\ ContextTokens \in [Requests -> Nat]
  /\ OutputTokens \in [Requests -> Nat]
  /\ PrefixID \in [Requests -> PrefixIDs \cup {NoPrefix}]
  /\ MaxBatchSize \in Nat \ {0}
  /\ MemoryTokens \in Nat
  /\ PagedAttention \in BOOLEAN

(* The sum of the naturals f[x] over x in S, counted as the token slots    *)
(* that the members of S hold.                                             *)
Slots(S, f) == UNION {{x} \X (1..f[x]) : x \in S}
TokenSum(S, f) == Cardinality(Slots(S, f))

(* What every scheduler sets aside for r when it admits it.                *)
WorstTokens == [r \in Requests |-> ContextTokens[r] + OutputTokens[r]]

TotalTokens(generated) ==
  [r \in Requests |-> ContextTokens[r] + generated[r]]

IsComplete(generated, r) == generated[r] >= OutputTokens[r]

(* A PrefixCache maps a prefix to its PrefixState; NoEntry stands for a    *)
(* prefix that is not in the map (AddToBatch never leaves refs at 0).      *)
PrefixState == [tokens : Nat, refs : Nat]
NoEntry == [tokens |-> 0, refs |-> 0]
EmptyCache == [p \in PrefixIDs |-> NoEntry]

(* The requests of S that share prefix p.                                  *)
Users(S, p) == {r \in S : PrefixID[r] = p}

(* The memory a worker with batch B and prefix cache `cache' uses: what    *)
(* its requests hold beyond their matched prefix, and the cached prefixes. *)
UsedTokens(B, generated, matched, cache) ==
  TokenSum(B, TotalTokens(generated)) - TokenSum(B, matched)
    + TokenSum(PrefixIDs, [p \in PrefixIDs |-> cache[p].tokens])
=============================================================================
