---------------------------- MODULE EngineProofs ----------------------------
(***************************************************************************)
(* The handlers of Engine, with their loops, queues and batches, do what   *)
(* Serving promises, under every policy and for every workload; so what    *)
(* ServingProofs shows of Serving holds of them.                           *)
(***************************************************************************)
EXTENDS Engine, PolicyProofs

P == INSTANCE ServingProofs WITH
  queue <- ToSet(queue),
  batch <- [w \in Workers |-> ToSet(batch[w])]

-----------------------------------------------------------------------------
(* The operators of Model read the same inside P.                          *)
LEMMA SameModel ==
  /\ \A S : P!IsFiniteSet(S) <=> IsFiniteSet(S)
  /\ \A S : P!Cardinality(S) = Cardinality(S)
  /\ \A S, p : P!Users(S, p) = Users(S, p)
  /\ \A S, f : P!Slots(S, f) = Slots(S, f)
  /\ P!WorstTokens = WorstTokens
  /\ \A gen : P!TotalTokens(gen) = TotalTokens(gen)
  /\ \A gen, r : P!IsComplete(gen, r) <=> IsComplete(gen, r)
  /\ P!PrefixState = PrefixState
  /\ P!NoEntry = NoEntry
  /\ P!EmptyCache = EmptyCache
  <1>1. \A S : P!IsFiniteSet(S) <=> IsFiniteSet(S)
    BY DEF P!IsFiniteSet, IsFiniteSet
  <1>2. \A S : P!Cardinality(S) = Cardinality(S)
    BY DEF P!Cardinality, Cardinality
  <1>3. \A S, p : P!Users(S, p) = Users(S, p)
    BY DEF P!Users, Users
  <1>4. \A S, f : P!Slots(S, f) = Slots(S, f)
    BY DEF P!Slots, Slots
  <1>5. P!WorstTokens = WorstTokens
    BY DEF P!WorstTokens, WorstTokens
  <1>6. \A gen : P!TotalTokens(gen) = TotalTokens(gen)
    BY DEF P!TotalTokens, TotalTokens
  <1>7. \A gen, r : P!IsComplete(gen, r) <=> IsComplete(gen, r)
    BY DEF P!IsComplete, IsComplete
  <1>8. P!PrefixState = PrefixState /\ P!NoEntry = NoEntry
    BY DEF P!PrefixState, PrefixState, P!NoEntry, NoEntry
  <1>9. P!EmptyCache = EmptyCache
    BY <1>8 DEF P!EmptyCache, EmptyCache
  <1> QED
    BY <1>1, <1>2, <1>3, <1>4, <1>5, <1>6, <1>7, <1>8, <1>9

LEMMA SameSums ==
  /\ \A S, f : P!TokenSum(S, f) = TokenSum(S, f)
  /\ \A B, gen, m, cache :
       P!UsedTokens(B, gen, m, cache) = UsedTokens(B, gen, m, cache)
  <1>1. \A S, f : P!TokenSum(S, f) = TokenSum(S, f)
    BY SameModel DEF P!TokenSum, TokenSum
  <1>2. \A B, gen, m, cache :
          P!UsedTokens(B, gen, m, cache) = UsedTokens(B, gen, m, cache)
    BY <1>1, SameModel DEF P!UsedTokens, UsedTokens
  <1> QED
    BY <1>1, <1>2

LEMMA SameAssumption == P!ModelAssumption
  BY ModelAssumption, SameModel DEF P!ModelAssumption

-----------------------------------------------------------------------------
(* The states a handler passes from call to call.                          *)
HandlerStates ==
  [queue : Seq(Requests), vt : [Tiers -> Nat],
   batch : [Workers -> Seq(Requests)], gen : [Requests -> Nat],
   matched : [Requests -> Nat],
   cache : [Workers -> [PrefixIDs -> PrefixState]]]

LEMMA UsedType ==
  ASSUME NEW B \in SUBSET Requests, NEW gen \in [Requests -> Nat],
         NEW m \in [Requests -> Nat],
         NEW cache \in [PrefixIDs -> PrefixState]
  PROVE  UsedTokens(B, gen, m, cache) \in Int
  <1> DEFINE held == [p \in PrefixIDs |-> cache[p].tokens]
  <1>1. TotalTokens(gen) \in [Requests -> Nat]
    BY ModelAssumption DEF TotalTokens
  <1>2. TokenSum(B, TotalTokens(gen)) \in Nat /\ TokenSum(B, m) \in Nat
    BY <1>1, SumOfRequests
  <1>3. \A p \in PrefixIDs : held[p] \in Nat
    BY DEF PrefixState
  <1> HIDE DEF held
  <1>4. TokenSum(PrefixIDs, held) \in Nat
    BY <1>3, ModelAssumption, SumType
  <1> QED
    BY <1>2, <1>4 DEF UsedTokens, held

LEMMA UsedMemoryType ==
  ASSUME NEW st \in HandlerStates, NEW w \in Workers
  PROVE  UsedMemory(st, w) \in Int
  <1>1. ToSet(st.batch[w]) \in SUBSET Requests
    BY DEF HandlerStates, ToSet
  <1>2. /\ st.gen \in [Requests -> Nat] /\ st.matched \in [Requests -> Nat]
        /\ st.cache[w] \in [PrefixIDs -> PrefixState]
    BY DEF HandlerStates
  <1> QED
    BY <1>1, <1>2, UsedType DEF UsedMemory

-----------------------------------------------------------------------------
(* AddToBatch, and the loop that calls it for what FormBatch hands out.    *)
Joins(cache, p, r) ==
  IF cache[p] # NoEntry
  THEN [tokens |-> cache[p].tokens, refs |-> cache[p].refs + 1]
  ELSE [tokens |-> ContextTokens[r], refs |-> 1]

LEMMA AddToBatchEffect ==
  ASSUME NEW st \in HandlerStates, NEW w \in Workers, NEW r \in Requests
  PROVE  LET t == AddToBatch(st, w, r) IN
         /\ t \in HandlerStates
         /\ t.queue = st.queue /\ t.vt = st.vt /\ t.gen = st.gen
         /\ t.batch[w] = Append(st.batch[w], r)
         /\ \A v \in Workers : v # w => /\ t.batch[v] = st.batch[v]
                                        /\ t.cache[v] = st.cache[v]
         /\ \A p \in PrefixIDs :
              t.cache[w][p] = IF p = PrefixID[r] THEN Joins(st.cache[w], p, r)
                              ELSE st.cache[w][p]
         /\ \A s \in Requests :
              t.matched[s] =
                IF s # r \/ PrefixID[r] = NoPrefix THEN st.matched[s]
                ELSE IF st.cache[w][PrefixID[r]] # NoEntry
                THEN st.cache[w][PrefixID[r]].tokens ELSE 0
  <1> DEFINE p == PrefixID[r]
             c == st.cache[w]
             b == [st.batch EXCEPT ![w] = Append(@, r)]
             hit == IF c[p] # NoEntry THEN c[p].tokens ELSE 0
             m == IF p = NoPrefix THEN st.matched
                  ELSE [st.matched EXCEPT ![r] = hit]
             d == IF p = NoPrefix THEN st.cache
                  ELSE [st.cache EXCEPT ![w] =
                          [c EXCEPT ![p] = Joins(c, p, r)]]
             t == [queue |-> st.queue, vt |-> st.vt, batch |-> b,
                   gen |-> st.gen, matched |-> m, cache |-> d]
  <1>1. /\ st = [queue |-> st.queue, vt |-> st.vt, batch |-> st.batch,
                 gen |-> st.gen, matched |-> st.matched, cache |-> st.cache]
        /\ st.queue \in Seq(Requests) /\ st.vt \in [Tiers -> Nat]
        /\ st.batch \in [Workers -> Seq(Requests)]
        /\ st.gen \in [Requests -> Nat] /\ st.matched \in [Requests -> Nat]
        /\ st.cache \in [Workers -> [PrefixIDs -> PrefixState]]
    BY DEF HandlerStates
  <1>2. p # NoPrefix <=> p \in PrefixIDs
    BY ModelAssumption
  <1>3. c \in [PrefixIDs -> PrefixState]
    BY <1>1
  <1>4. p \in PrefixIDs => /\ Joins(c, p, r) \in PrefixState
                           /\ hit \in Nat
                           /\ c[p] \in PrefixState
    BY <1>3, ModelAssumption DEF Joins, PrefixState
  <1>5. AddToBatch(st, w, r) = t
    <2>1. CASE p = NoPrefix
      BY <1>1, <2>1 DEF AddToBatch
    <2>2. CASE p # NoPrefix /\ c[p] # NoEntry
      <3>1. [c[p] EXCEPT !.refs = @ + 1] = Joins(c, p, r)
        BY <1>2, <1>4, <2>2 DEF Joins, PrefixState
      <3> QED
        BY <1>1, <2>2, <3>1 DEF AddToBatch
    <2>3. CASE p # NoPrefix /\ c[p] = NoEntry
      BY <1>1, <2>3 DEF AddToBatch, Joins
    <2> QED
      BY <2>1, <2>2, <2>3
  <1>6. b \in [Workers -> Seq(Requests)]
    BY <1>1
  <1>7. m \in [Requests -> Nat]
    BY <1>1, <1>2, <1>4
  <1>8. d \in [Workers -> [PrefixIDs -> PrefixState]]
    <2> HIDE DEF c
    <2> QED
      BY <1>1, <1>2, <1>3, <1>4
  <1>9. t \in HandlerStates
    BY <1>1, <1>6, <1>7, <1>8 DEF HandlerStates
  <1>10. b[w] = Append(st.batch[w], r)
    BY <1>1
  <1>11. \A v \in Workers : v # w => b[v] = st.batch[v] /\ d[v] = st.cache[v]
    BY <1>1
  <1>12. \A q \in PrefixIDs :
           d[w][q] = IF q = p THEN Joins(c, q, r) ELSE c[q]
    <2> HIDE DEF p
    <2> QED
      BY <1>1, <1>2, <1>3, ModelAssumption
  <1>13. \A s \in Requests :
           m[s] = IF s # r \/ p = NoPrefix THEN st.matched[s] ELSE hit
    <2> HIDE DEF hit, p
    <2> QED
      BY <1>1
  <1> HIDE DEF m, d, b
  <1> QED
    BY <1>5, <1>9, <1>10, <1>11, <1>12, <1>13

LEMMA UsersOne ==
  ASSUME NEW F \in SUBSET Requests, NEW r \in Requests, r \notin F, NEW p
  PROVE  /\ Cardinality(Users(F, p)) \in Nat
         /\ Cardinality(Users(F, p)) = 0 <=> Users(F, p) = {}
         /\ PrefixID[r] # p => Users(F \cup {r}, p) = Users(F, p)
         /\ PrefixID[r] = p =>
              /\ Users(F \cup {r}, p) = Users(F, p) \cup {r}
              /\ Cardinality(Users(F \cup {r}, p))
                   = Cardinality(Users(F, p)) + 1
  <1>1. /\ IsFiniteSet(Users(F, p)) /\ Cardinality(Users(F, p)) \in Nat
        /\ r \notin Users(F, p)
    BY UsersFinite DEF Users
  <1>2. Cardinality(Users(F, p)) = 0 <=> Users(F, p) = {}
    BY <1>1, FS_EmptySet
  <1>3. PrefixID[r] # p => Users(F \cup {r}, p) = Users(F, p)
    BY DEF Users
  <1>4. PrefixID[r] = p => Users(F \cup {r}, p) = Users(F, p) \cup {r}
    BY DEF Users
  <1>5. Cardinality(Users(F, p) \cup {r}) = Cardinality(Users(F, p)) + 1
    BY <1>1, FS_AddElement
  <1> QED
    BY <1>1, <1>2, <1>3, <1>4, <1>5

LEMMA AddRefsAt ==
  ASSUME NEW cache, NEW F, NEW first, NEW p \in PrefixIDs
  PROVE  P!AddRefs(cache, F, first)[p] =
           LET n == Cardinality(Users(F, p)) IN
           IF n = 0 THEN cache[p]
           ELSE IF cache[p] # NoEntry
                THEN [tokens |-> cache[p].tokens, refs |-> cache[p].refs + n]
           ELSE [tokens |-> ContextTokens[first[p]], refs |-> n]
  BY SameModel DEF P!AddRefs

FirstUsers(first, F) ==
  /\ first \in [PrefixIDs -> Requests]
  /\ \A p \in PrefixIDs : Users(F, p) # {} => first[p] \in Users(F, p)

(* One more request joins: it is the first user of its prefix if that has  *)
(* none yet.                                                               *)
WithFirst(first, F, r) ==
  IF Users(F, PrefixID[r]) = {} THEN [first EXCEPT ![PrefixID[r]] = r]
  ELSE first

LEMMA WithFirstUsers ==
  ASSUME NEW F \in SUBSET Requests, NEW r \in Requests, r \notin F,
         NEW first, FirstUsers(first, F)
  PROVE  /\ FirstUsers(WithFirst(first, F, r), F \cup {r})
         /\ \A p \in PrefixIDs : p # PrefixID[r] \/ Users(F, p) # {}
              => WithFirst(first, F, r)[p] = first[p]
         /\ PrefixID[r] \in PrefixIDs /\ Users(F, PrefixID[r]) = {}
              => WithFirst(first, F, r)[PrefixID[r]] = r
  <1> DEFINE next == WithFirst(first, F, r)
  <1>1. first \in [PrefixIDs -> Requests]
    BY DEF FirstUsers
  <1>2. next \in [PrefixIDs -> Requests]
    BY <1>1 DEF WithFirst
  <1>3. \A p \in PrefixIDs : p # PrefixID[r] \/ Users(F, p) # {}
          => next[p] = first[p]
    BY <1>1 DEF WithFirst
  <1>4. PrefixID[r] \in PrefixIDs /\ Users(F, PrefixID[r]) = {}
          => next[PrefixID[r]] = r
    BY <1>1 DEF WithFirst
  <1> HIDE DEF next
  <1>5. ASSUME NEW p \in PrefixIDs, Users(F \cup {r}, p) # {}
        PROVE  next[p] \in Users(F \cup {r}, p)
    <2>1. CASE Users(F, p) # {}
      <3>1. first[p] \in Users(F, p)
        BY <2>1 DEF FirstUsers
      <3> QED
        BY <1>3, <2>1, <3>1 DEF Users
    <2>2. CASE Users(F, p) = {}
      <3>1. PrefixID[r] = p
        BY <1>5, <2>2 DEF Users
      <3> QED
        BY <1>4, <2>2, <3>1 DEF Users
    <2> QED
      BY <2>1, <2>2
  <1> QED
    BY <1>2, <1>3, <1>4, <1>5 DEF FirstUsers, next

LEMMA AddRefsOne ==
  ASSUME NEW cache \in [PrefixIDs -> PrefixState],
         NEW F \in SUBSET Requests, NEW r \in Requests, r \notin F,
         NEW first, FirstUsers(first, F), NEW p \in PrefixIDs
  PROVE  P!AddRefs(cache, F \cup {r}, WithFirst(first, F, r))[p]
           = IF p = PrefixID[r]
             THEN Joins(P!AddRefs(cache, F, first), p, r)
             ELSE P!AddRefs(cache, F, first)[p]
  <1> DEFINE n == Cardinality(Users(F, p))
             next == WithFirst(first, F, r)
             c == P!AddRefs(cache, F, first)
             d == P!AddRefs(cache, F \cup {r}, next)
  <1>1. /\ n \in Nat /\ (n = 0 <=> Users(F, p) = {})
        /\ p # PrefixID[r] => Users(F \cup {r}, p) = Users(F, p)
        /\ p = PrefixID[r] => Cardinality(Users(F \cup {r}, p)) = n + 1
    BY UsersOne
  <1>2. /\ p # PrefixID[r] \/ n # 0 => next[p] = first[p]
        /\ p = PrefixID[r] /\ n = 0 => next[p] = r
    <2> HIDE DEF c, d
    <2>1. /\ \A x \in PrefixIDs : x # PrefixID[r] \/ Users(F, x) # {}
               => next[x] = first[x]
          /\ PrefixID[r] \in PrefixIDs /\ Users(F, PrefixID[r]) = {}
               => next[PrefixID[r]] = r
      BY WithFirstUsers
    <2> HIDE DEF n, next
    <2> QED
      BY <1>1, <2>1
  <1>3. c[p] = IF n = 0 THEN cache[p]
               ELSE IF cache[p] # NoEntry
                    THEN [tokens |-> cache[p].tokens, refs |-> cache[p].refs + n]
               ELSE [tokens |-> ContextTokens[first[p]], refs |-> n]
    BY AddRefsAt
  <1>4. d[p] = LET m == Cardinality(Users(F \cup {r}, p)) IN
               IF m = 0 THEN cache[p]
               ELSE IF cache[p] # NoEntry
                    THEN [tokens |-> cache[p].tokens, refs |-> cache[p].refs + m]
               ELSE [tokens |-> ContextTokens[next[p]], refs |-> m]
    BY AddRefsAt
  <1>5. cache[p].refs \in Nat
    BY DEF PrefixState
  <1> HIDE DEF next, c, d
  <1>6. ASSUME p # PrefixID[r] PROVE d[p] = c[p]
    BY <1>1, <1>2, <1>3, <1>4, <1>6
  <1>7. ASSUME p = PrefixID[r] PROVE d[p] = Joins(c, p, r)
    <2> HIDE DEF n
    <2>1. d[p] = IF cache[p] # NoEntry
                 THEN [tokens |-> cache[p].tokens,
                       refs |-> cache[p].refs + (n + 1)]
                 ELSE [tokens |-> ContextTokens[next[p]], refs |-> n + 1]
      BY <1>1, <1>4, <1>7
    <2>2. CASE n = 0
      BY <1>2, <1>3, <1>7, <2>1, <2>2 DEF Joins
    <2>3. CASE n # 0 /\ cache[p] # NoEntry
      <3>1. c[p] = [tokens |-> cache[p].tokens, refs |-> cache[p].refs + n]
        BY <1>3, <2>3
      <3>2. /\ cache[p].refs + n # 0
            /\ (cache[p].refs + n) + 1 = cache[p].refs + (n + 1)
        BY <1>1, <1>5, <2>3
      <3>3. c[p] # NoEntry
        BY <3>1, <3>2 DEF NoEntry
      <3> QED
        BY <2>1, <2>3, <3>1, <3>2, <3>3 DEF Joins
    <2>4. CASE n # 0 /\ cache[p] = NoEntry
      <3>1. c[p] = [tokens |-> ContextTokens[first[p]], refs |-> n]
        BY <1>3, <2>4
      <3>2. c[p] # NoEntry
        BY <2>4, <3>1 DEF NoEntry
      <3> QED
        BY <1>2, <2>1, <2>4, <3>1, <3>2 DEF Joins
    <2> QED
      BY <2>2, <2>3, <2>4
  <1> QED
    BY <1>6, <1>7 DEF c, d, next

LEMMA PrefixHitOne ==
  ASSUME NEW cache \in [PrefixIDs -> PrefixState],
         NEW F \in SUBSET Requests, NEW r \in Requests, r \notin F,
         NEW first, FirstUsers(first, F)
  PROVE  /\ \A s \in F : PrefixID[s] # NoPrefix =>
              P!PrefixHit(cache, WithFirst(first, F, r), s)
                = P!PrefixHit(cache, first, s)
         /\ PrefixID[r] # NoPrefix =>
              LET entry == P!AddRefs(cache, F, first)[PrefixID[r]] IN
              P!PrefixHit(cache, WithFirst(first, F, r), r)
                = IF entry # NoEntry THEN entry.tokens ELSE 0
  <1> DEFINE next == WithFirst(first, F, r)
             c == P!AddRefs(cache, F, first)
  <1>1. /\ \A p \in PrefixIDs : p # PrefixID[r] \/ Users(F, p) # {}
             => next[p] = first[p]
        /\ PrefixID[r] \in PrefixIDs /\ Users(F, PrefixID[r]) = {}
             => next[PrefixID[r]] = r
    BY WithFirstUsers
  <1> HIDE DEF next
  <1>2. ASSUME NEW s \in F, PrefixID[s] # NoPrefix
        PROVE  P!PrefixHit(cache, next, s) = P!PrefixHit(cache, first, s)
    <2>1. PrefixID[s] \in PrefixIDs /\ s \in Users(F, PrefixID[s])
      BY <1>2, ModelAssumption DEF Users
    <2>2. next[PrefixID[s]] = first[PrefixID[s]]
      BY <1>1, <2>1
    <2> QED
      BY <2>2 DEF P!PrefixHit
  <1>3. ASSUME PrefixID[r] # NoPrefix
        PROVE  P!PrefixHit(cache, next, r)
                 = IF c[PrefixID[r]] # NoEntry THEN c[PrefixID[r]].tokens
                   ELSE 0
    <2> DEFINE p == PrefixID[r]
               n == Cardinality(Users(F, p))
    <2>1. p \in PrefixIDs
      BY <1>3, ModelAssumption
    <2>2. n \in Nat /\ (n = 0 <=> Users(F, p) = {})
      BY UsersOne
    <2>3. c[p] = IF n = 0 THEN cache[p]
                 ELSE IF cache[p] # NoEntry
                      THEN [tokens |-> cache[p].tokens,
                            refs |-> cache[p].refs + n]
                 ELSE [tokens |-> ContextTokens[first[p]], refs |-> n]
      BY <2>1, AddRefsAt
    <2>4. P!PrefixHit(cache, next, r)
            = IF cache[p] # NoEntry THEN cache[p].tokens
              ELSE IF r = next[p] THEN 0 ELSE ContextTokens[next[p]]
      BY SameModel DEF P!PrefixHit
    <2>5. cache[p].refs \in Nat
      BY <2>1 DEF PrefixState
    <2>6. n # 0 => first[p] # r
      BY <2>1, <2>2 DEF FirstUsers, Users
    <2> HIDE DEF n, c
    <2>7. CASE n = 0
      BY <1>1, <2>1, <2>2, <2>3, <2>4, <2>7
    <2>8. CASE n # 0 /\ cache[p] # NoEntry
      <3>1. cache[p].refs + n # 0
        BY <2>2, <2>5, <2>8
      <3>2. c[p] # NoEntry /\ c[p].tokens = cache[p].tokens
        BY <2>3, <2>8, <3>1 DEF NoEntry
      <3> QED
        BY <2>4, <2>8, <3>2
    <2>9. CASE n # 0 /\ cache[p] = NoEntry
      <3>1. c[p] # NoEntry /\ c[p].tokens = ContextTokens[first[p]]
        BY <2>3, <2>9 DEF NoEntry
      <3>2. next[p] = first[p]
        BY <1>1, <2>1, <2>2, <2>9
      <3> QED
        BY <2>4, <2>6, <2>9, <3>1, <3>2
    <2> QED
      BY <2>7, <2>8, <2>9
  <1> QED
    BY <1>2, <1>3 DEF next

(* What the worker w of st becomes in t when the requests of F join it.    *)
Filled(st, t, w, F, first) ==
  /\ t \in HandlerStates
  /\ t.gen = st.gen
  /\ \A v \in Workers : v # w => /\ t.batch[v] = st.batch[v]
                                 /\ t.cache[v] = st.cache[v]
  /\ IsInjective(t.batch[w])
  /\ ToSet(t.batch[w]) = ToSet(st.batch[w]) \cup F
  /\ FirstUsers(first, F)
  /\ \A p \in PrefixIDs :
       t.cache[w][p] = P!AddRefs(st.cache[w], F, first)[p]
  /\ \A r \in Requests :
       t.matched[r] = IF r \in F /\ PrefixID[r] # NoPrefix
                      THEN P!PrefixHit(st.cache[w], first, r)
                      ELSE st.matched[r]

LEMMA FilledNone ==
  ASSUME NEW st \in HandlerStates, NEW w \in Workers,
         IsInjective(st.batch[w]), NEW first \in [PrefixIDs -> Requests]
  PROVE  Filled(st, st, w, {}, first)
  <1>1. \A p : Users({}, p) = {}
    BY DEF Users
  <1>2. \A p \in PrefixIDs :
          st.cache[w][p] = P!AddRefs(st.cache[w], {}, first)[p]
    <2> SUFFICES ASSUME NEW p \in PrefixIDs
                 PROVE  st.cache[w][p] = P!AddRefs(st.cache[w], {}, first)[p]
      OBVIOUS
    <2>1. Cardinality(Users({}, p)) = 0
      BY <1>1, FS_EmptySet
    <2> DEFINE none == {}
    <2> HIDE DEF none
    <2>2. Cardinality(Users(none, p)) = 0
      BY <2>1 DEF none
    <2>3. P!AddRefs(st.cache[w], none, first)[p] = st.cache[w][p]
      BY <2>2, AddRefsAt
    <2> QED
      BY <2>3 DEF none
  <1> QED
    BY <1>1, <1>2 DEF Filled, FirstUsers

LEMMA FilledOne ==
  ASSUME NEW st \in HandlerStates, NEW w \in Workers,
         NEW F \in SUBSET Requests, NEW t, NEW first, Filled(st, t, w, F, first),
         NEW r \in Requests, r \notin F, r \notin ToSet(st.batch[w])
  PROVE  /\ Filled(st, AddToBatch(t, w, r), w, F \cup {r},
                   WithFirst(first, F, r))
         /\ AddToBatch(t, w, r).queue = t.queue
         /\ AddToBatch(t, w, r).vt = t.vt
  <1> DEFINE u == AddToBatch(t, w, r)
             next == WithFirst(first, F, r)
             c == st.cache[w]
  <1>1. /\ t \in HandlerStates /\ t.gen = st.gen
        /\ \A v \in Workers : v # w => /\ t.batch[v] = st.batch[v]
                                       /\ t.cache[v] = st.cache[v]
        /\ IsInjective(t.batch[w])
        /\ ToSet(t.batch[w]) = ToSet(st.batch[w]) \cup F
        /\ FirstUsers(first, F)
    BY DEF Filled
  <1>2. /\ \A p \in PrefixIDs : t.cache[w][p] = P!AddRefs(c, F, first)[p]
        /\ \A s \in Requests :
             t.matched[s] = IF s \in F /\ PrefixID[s] # NoPrefix
                            THEN P!PrefixHit(c, first, s) ELSE st.matched[s]
    BY DEF Filled
  <1>3. /\ u \in HandlerStates
        /\ u.queue = t.queue /\ u.vt = t.vt /\ u.gen = t.gen
        /\ u.batch[w] = Append(t.batch[w], r)
        /\ \A v \in Workers : v # w => /\ u.batch[v] = t.batch[v]
                                       /\ u.cache[v] = t.cache[v]
    BY <1>1, AddToBatchEffect
  <1>4. \A p \in PrefixIDs :
          u.cache[w][p] = IF p = PrefixID[r] THEN Joins(t.cache[w], p, r)
                          ELSE t.cache[w][p]
    BY <1>1, AddToBatchEffect
  <1>5. \A s \in Requests :
          u.matched[s] = IF s # r \/ PrefixID[r] = NoPrefix THEN t.matched[s]
                         ELSE IF t.cache[w][PrefixID[r]] # NoEntry
                         THEN t.cache[w][PrefixID[r]].tokens ELSE 0
    BY <1>1, AddToBatchEffect
  <1>6. c \in [PrefixIDs -> PrefixState] /\ t.batch[w] \in Seq(Requests)
    BY <1>1 DEF HandlerStates
  <1> HIDE DEF u, next, c
  <1>7. /\ IsInjective(u.batch[w])
        /\ ToSet(u.batch[w]) = ToSet(st.batch[w]) \cup (F \cup {r})
    <2>1. r \notin ToSet(t.batch[w])
      BY <1>1
    <2> QED
      BY <1>1, <1>3, <1>6, <2>1, AppendNew
  <1>8. FirstUsers(next, F \cup {r})
    BY <1>1, WithFirstUsers DEF next
  <1>9. \A p \in PrefixIDs :
          u.cache[w][p] = P!AddRefs(c, F \cup {r}, next)[p]
    <2> SUFFICES ASSUME NEW p \in PrefixIDs
                 PROVE  u.cache[w][p] = P!AddRefs(c, F \cup {r}, next)[p]
      OBVIOUS
    <2>1. P!AddRefs(c, F \cup {r}, next)[p]
            = IF p = PrefixID[r] THEN Joins(P!AddRefs(c, F, first), p, r)
              ELSE P!AddRefs(c, F, first)[p]
      BY <1>1, <1>6, AddRefsOne DEF next
    <2>2. Joins(P!AddRefs(c, F, first), p, r) = Joins(t.cache[w], p, r)
      BY <1>2 DEF Joins
    <2> QED
      BY <1>2, <1>4, <2>1, <2>2
  <1>10. \A s \in Requests :
           u.matched[s] = IF s \in F \cup {r} /\ PrefixID[s] # NoPrefix
                          THEN P!PrefixHit(c, next, s) ELSE st.matched[s]
    <2>1. \A s \in F : PrefixID[s] # NoPrefix =>
            P!PrefixHit(c, next, s) = P!PrefixHit(c, first, s)
      BY <1>1, <1>6, PrefixHitOne DEF next
    <2>2. PrefixID[r] # NoPrefix =>
            LET entry == P!AddRefs(c, F, first)[PrefixID[r]] IN
            P!PrefixHit(c, next, r)
              = IF entry # NoEntry THEN entry.tokens ELSE 0
      BY <1>1, <1>6, PrefixHitOne DEF next
    <2>3. PrefixID[r] # NoPrefix =>
            P!PrefixHit(c, next, r)
              = IF t.cache[w][PrefixID[r]] # NoEntry
                THEN t.cache[w][PrefixID[r]].tokens ELSE 0
      <3>1. PrefixID[r] # NoPrefix => PrefixID[r] \in PrefixIDs
        BY ModelAssumption
      <3> QED
        BY <1>2, <2>2, <3>1
    <2> QED
      BY <1>2, <1>5, <2>1, <2>3
  <1>11. Filled(st, u, w, F \cup {r}, next)
    BY <1>1, <1>3, <1>7, <1>8, <1>9, <1>10 DEF Filled, c
  <1> QED
    BY <1>3, <1>11 DEF u, next

FillStep(w, s, r) == AddToBatch(s, w, r)
Filling == INSTANCE FoldProofs WITH Step <- FillStep

LEMMA FillFolds ==
  ASSUME NEW st, NEW w, st.queue # <<>>,
         FormBatch(policy, st.queue, st.vt, Len(st.batch[w]),
                   UsedMemory(st, w)).chosen \in Seq(Requests)
  PROVE  LET formed == FormBatch(policy, st.queue, st.vt, Len(st.batch[w]),
                                 UsedMemory(st, w))
         IN Filling!FoldOf(TryFill(st, w), w,
                           [st EXCEPT !.queue = formed.left, !.vt = formed.vt],
                           formed.chosen, Len(formed.chosen))
  <1> DEFINE formed == FormBatch(policy, st.queue, st.vt, Len(st.batch[w]),
                                 UsedMemory(st, w))
             base == [st EXCEPT !.queue = formed.left, !.vt = formed.vt]
             c == formed.chosen
             Turns(f) == f = [s \in SUBSET DOMAIN c |->
               IF s = {} THEN base
               ELSE AddToBatch(f[s \ {Max(s)}], w, c[Max(s)])]
  <1>1. Len(c) \in Nat /\ DOMAIN c = 1..Len(c)
    OBVIOUS
  <1>2. \A f : Turns(f) <=> Filling!Folds(f, w, base, c, Len(c))
    <2>1. \A s, r : AddToBatch(s, w, r) = FillStep(w, s, r)
      BY DEF FillStep
    <2>2. \A s : Max(s) = Filling!Greatest(s)
      BY DEF Filling!Greatest, Max
    <2> HIDE DEF base, c
    <2>3. ASSUME NEW f
          PROVE  [s \in SUBSET DOMAIN c |->
                    IF s = {} THEN base
                    ELSE AddToBatch(f[s \ {Max(s)}], w, c[Max(s)])]
                 = [s \in SUBSET (1..Len(c)) |->
                    IF s = {} THEN base
                    ELSE FillStep(w, f[s \ {Filling!Greatest(s)}],
                                  c[Filling!Greatest(s)])]
      BY <1>1, <2>1, <2>2
    <2> QED
      BY <2>3 DEF Filling!Folds
  <1>3. \A f : Turns(f) => \E g : Turns(g) /\ TryFill(st, w) = g[DOMAIN c]
    BY DEF TryFill, FoldLeft, MapThenFoldSet
  <1>4. PICK f : Filling!Folds(f, w, base, c, Len(c))
    BY <1>1, Filling!FoldExists
  <1> HIDE DEF Turns, base, c
  <1>5. Filling!FoldOf(TryFill(st, w), w, base, c, Len(c))
    BY <1>1, <1>2, <1>3, <1>4 DEF Filling!FoldOf
  <1> QED
    BY <1>5 DEF base, c

(* A queue in order stays so, and those of F are chosen from it in order.  *)
ServedInOrder(q, left, F, used) ==
  InOrder(policy, q) => /\ InOrder(policy, left)
                        /\ Spared(policy, ToSet(left), F, used)

(* The requests of F leave the queue of st for the worker w.               *)
Admitted(st, t, w, F, first) ==
  /\ F \subseteq ToSet(st.queue)
  /\ Filled(st, t, w, F, first)
  /\ IsInjective(t.queue)
  /\ ToSet(t.queue) = ToSet(st.queue) \ F
  /\ P!Fits(ToSet(st.batch[w]), F, UsedMemory(st, w))
  /\ policy # "wfq" /\ ToSet(st.batch[w]) = {} /\ F = {} =>
       \A r \in ToSet(st.queue) :
         WorstTokens[r] > MemoryTokens - UsedMemory(st, w)
  /\ ServedInOrder(st.queue, t.queue, F, UsedMemory(st, w))

LEMMA FillLoop ==
  ASSUME NEW st \in HandlerStates, NEW w \in Workers,
         IsInjective(st.batch[w]),
         NEW c \in Seq(Requests), IsInjective(c),
         ToSet(c) \cap ToSet(st.batch[w]) = {}, Requests # {},
         NEW result, Filling!FoldOf(result, w, st, c, Len(c))
  PROVE  \E first : /\ Filled(st, result, w, ToSet(c), first)
                    /\ result.queue = st.queue
                    /\ result.vt = st.vt
  <1> DEFINE R == [n \in 0..Len(c) |->
               {t \in HandlerStates :
                  /\ \E first : Filled(st, t, w, Passed(c, n), first)
                  /\ t.queue = st.queue /\ t.vt = st.vt}]
  <1>1. Len(c) \in Nat
    OBVIOUS
  <1>2. st \in R[0]
    <2>1. PICK r \in Requests : TRUE
      OBVIOUS
    <2>2. [p \in PrefixIDs |-> r] \in [PrefixIDs -> Requests]
      OBVIOUS
    <2>3. Filled(st, st, w, {}, [p \in PrefixIDs |-> r])
      BY <2>2, FilledNone
    <2>4. Passed(c, 0) = {}
      BY PassedTurns
    <2>5. \E first : Filled(st, st, w, Passed(c, 0), first)
      BY <2>3, <2>4
    <2> QED
      BY <1>1, <2>5
  <1>3. ASSUME NEW n \in 1..Len(c), NEW t \in R[n - 1]
        PROVE  FillStep(w, t, c[n]) \in R[n]
    <2> DEFINE F == Passed(c, n - 1)
               r == c[n]
               u == AddToBatch(t, w, r)
    <2>1. /\ \E first : Filled(st, t, w, F, first)
          /\ t.queue = st.queue /\ t.vt = st.vt
      BY <1>1
    <2>2. PICK first : Filled(st, t, w, F, first)
      BY <2>1
    <2>3. /\ r \in Requests /\ r \in ToSet(c)
          /\ Passed(c, n) = F \cup {r} /\ r \notin F
      BY PassedTurns
    <2>4. F \in SUBSET Requests /\ r \notin ToSet(st.batch[w])
      BY <1>1, <2>3, PassedTurns DEF Passed
    <2> HIDE DEF F, r
    <2>5. /\ Filled(st, u, w, F \cup {r}, WithFirst(first, F, r))
          /\ u.queue = t.queue /\ u.vt = t.vt
      BY <2>2, <2>3, <2>4, FilledOne
    <2>6. u \in HandlerStates
      BY <2>5 DEF Filled
    <2> HIDE DEF u
    <2>7. \E next : Filled(st, u, w, Passed(c, n), next)
      BY <2>3, <2>5
    <2>8. u.queue = st.queue /\ u.vt = st.vt
      BY <2>1, <2>5
    <2>9. u \in R[n]
      BY <1>1, <2>6, <2>7, <2>8
    <2> QED
      BY <2>9 DEF FillStep, u, r
  <1> HIDE DEF R
  <1>4. result \in R[Len(c)]
    BY <1>1, <1>2, <1>3, Filling!LoopInvariant
  <1> QED
    BY <1>1, <1>4, PassedTurns DEF R

LEMMA TryFillAdmits ==
  ASSUME NEW st \in HandlerStates, NEW w \in Workers, Requests # {},
         IsInjective(st.queue), IsInjective(st.batch[w]),
         ToSet(st.queue) \cap ToSet(st.batch[w]) = {}
  PROVE  \E F, first : Admitted(st, TryFill(st, w), w, F, first)
  <1>1. /\ st.queue \in Seq(Requests) /\ st.vt \in [Tiers -> Nat]
        /\ st.batch[w] \in Seq(Requests) /\ Len(st.batch[w]) \in Nat
        /\ UsedMemory(st, w) \in Int
    <2>1. UsedMemory(st, w) \in Int
      BY UsedMemoryType
    <2> QED
      BY <2>1 DEF HandlerStates
  <1>2. CASE st.queue = <<>>
    <2>1. PICK r \in Requests : TRUE
      OBVIOUS
    <2> DEFINE first == [p \in PrefixIDs |-> r]
    <2>2. first \in [PrefixIDs -> Requests]
      OBVIOUS
    <2> HIDE DEF first
    <2>3. Filled(st, st, w, {}, first)
      BY <2>2, FilledNone
    <2>4. ToSet(st.queue) = {} /\ TryFill(st, w) = st
      BY <1>2 DEF ToSet, TryFill
    <2>5. ServedInOrder(st.queue, st.queue, {}, UsedMemory(st, w))
      BY <2>4
        DEF ServedInOrder, Spared, ClassInOrder, OvertakenForMemory
    <2>6. Admitted(st, TryFill(st, w), w, {}, first)
      BY <2>3, <2>4, <2>5 DEF Admitted, P!Fits
    <2> QED
      BY <2>6
  <1>3. CASE st.queue # <<>>
    <2> DEFINE used == UsedMemory(st, w)
               running == Len(st.batch[w])
               formed == FormBatch(policy, st.queue, st.vt, running, used)
               c == formed.chosen
               F == ToSet(c)
               base == [st EXCEPT !.queue = formed.left, !.vt = formed.vt]
               t == TryFill(st, w)
    <2>0. used \in Int /\ running \in Nat
      BY <1>1
    <2> HIDE DEF used, running
    <2>1. /\ c \in Choice(ToSet(st.queue), running, used, MaxBatchSize)
          /\ formed.left \in Seq(Requests) /\ IsInjective(formed.left)
          /\ ToSet(formed.left) = ToSet(st.queue) \ F
          /\ formed.vt \in [Tiers -> Nat]
          /\ policy # "wfq" /\ running = 0 /\ c = <<>> =>
               \A r \in ToSet(st.queue) : WorstTokens[r] > MemoryTokens - used
      <3>1. KeepsContract(policy, st.queue, running, used, formed)
        BY <1>1, <2>0, FormBatchContract
      <3> HIDE DEF formed
      <3> QED
        BY <1>3, <3>1 DEF KeepsContract
    <2>13. ServedInOrder(st.queue, formed.left, F, used)
      <3>1. ASSUME InOrder(policy, st.queue)
            PROVE  ServesInOrder(policy, used, formed)
        BY <1>1, <2>0, <3>1, FormBatchInOrder
      <3> HIDE DEF formed
      <3> QED
        BY <3>1, Zenon DEF ServedInOrder, ServesInOrder
    <2>2. /\ c \in Seq(Requests) /\ IsInjective(c) /\ F \subseteq ToSet(st.queue)
          /\ c # <<>> => /\ running + Len(c) <= MaxBatchSize
                         /\ used + TokenSum(F, WorstTokens) <= MemoryTokens
      BY <2>1 DEF Choice
    <2>3. Filling!FoldOf(t, w, base, c, Len(c))
      BY <1>3, <2>2, FillFolds DEF used, running
    <2>4. /\ base \in HandlerStates
          /\ base.queue = formed.left /\ base.batch = st.batch
          /\ base.gen = st.gen /\ base.matched = st.matched
          /\ base.cache = st.cache
      <3>1. /\ formed.left \in Seq(Requests)
            /\ formed.vt \in [Tiers -> Nat]
        BY <2>1
      <3> HIDE DEF formed
      <3> QED
        BY <3>1 DEF HandlerStates
    <2> HIDE DEF base, t, F
    <2>5. F \cap ToSet(base.batch[w]) = {}
      BY <2>2, <2>4
    <2>6. IsInjective(base.batch[w])
      BY <2>4
    <2> HIDE DEF c
    <2>7. PICK first : /\ Filled(base, t, w, F, first)
                       /\ t.queue = base.queue
      BY <2>2, <2>3, <2>4, <2>5, <2>6, FillLoop DEF F
    <2>8. Filled(st, t, w, F, first)
      BY <2>4, <2>7 DEF Filled
    <2>9. /\ F = {} => c = <<>>
          /\ Cardinality(F) = Len(c)
          /\ Cardinality(ToSet(st.batch[w])) = running
      <3>1. F = {} => c = <<>>
        BY <2>2 DEF F, ToSet
      <3>2. Cardinality(F) = Len(c)
        BY <2>2, InjectiveLength DEF F
      <3>3. Cardinality(ToSet(st.batch[w])) = running
        BY <1>1, InjectiveLength DEF running
      <3> QED
        BY <3>1, <3>2, <3>3
    <2>10. P!Fits(ToSet(st.batch[w]), F, used)
      <3>1. F # {} => c # <<>>
        BY DEF F, ToSet
      <3> QED
        BY <2>2, <2>9, <3>1, SameModel, SameSums DEF P!Fits
    <2>11. ToSet(st.batch[w]) = {} => running = 0
      BY <2>9, FS_EmptySet
    <2>14. ServedInOrder(st.queue, t.queue, F, used)
      BY <2>4, <2>7, <2>13
    <2>12. Admitted(st, t, w, F, first)
      BY <2>1, <2>2, <2>4, <2>7, <2>8, <2>9, <2>10, <2>11, <2>14
         DEF Admitted, used
    <2> QED
      BY <2>12 DEF t
  <1> QED
    BY <1>2, <1>3

-----------------------------------------------------------------------------
(* RemoveFromBatch, and the loops of RemoveCompleted and of the OOM test.  *)
Leaves(cache, p) ==
  IF cache[p] = NoEntry \/ cache[p].refs <= 1 THEN NoEntry
  ELSE [tokens |-> cache[p].tokens, refs |-> cache[p].refs - 1]

RemovedOne(st, t, w, r) ==
  /\ t \in HandlerStates
  /\ t.queue = st.queue /\ t.vt = st.vt /\ t.gen = st.gen
  /\ t.matched = st.matched
  /\ t.batch[w] = Without(st.batch[w], {r})
  /\ \A v \in Workers : v # w => /\ t.batch[v] = st.batch[v]
                                 /\ t.cache[v] = st.cache[v]
  /\ \A p \in PrefixIDs :
       t.cache[w][p] = IF p = PrefixID[r] THEN Leaves(st.cache[w], p)
                       ELSE st.cache[w][p]

LEMMA RemoveFromBatchEffect ==
  ASSUME NEW st \in HandlerStates, NEW w \in Workers, NEW r \in Requests
  PROVE  RemovedOne(st, RemoveFromBatch(st, w, r), w, r)
  <1> DEFINE p == PrefixID[r]
             c == st.cache[w]
             b == [st.batch EXCEPT ![w] = Without(@, {r})]
             d == IF p = NoPrefix THEN st.cache
                  ELSE [st.cache EXCEPT ![w] = [c EXCEPT ![p] = Leaves(c, p)]]
             t == [queue |-> st.queue, vt |-> st.vt, batch |-> b,
                   gen |-> st.gen, matched |-> st.matched, cache |-> d]
  <1>1. /\ st = [queue |-> st.queue, vt |-> st.vt, batch |-> st.batch,
                 gen |-> st.gen, matched |-> st.matched, cache |-> st.cache]
        /\ st.queue \in Seq(Requests) /\ st.vt \in [Tiers -> Nat]
        /\ st.batch \in [Workers -> Seq(Requests)]
        /\ st.gen \in [Requests -> Nat] /\ st.matched \in [Requests -> Nat]
        /\ st.cache \in [Workers -> [PrefixIDs -> PrefixState]]
    BY DEF HandlerStates
  <1>2. p # NoPrefix <=> p \in PrefixIDs
    BY ModelAssumption
  <1>3. c \in [PrefixIDs -> PrefixState]
    BY <1>1
  <1>4. p \in PrefixIDs => Leaves(c, p) \in PrefixState /\ c[p] \in PrefixState
    BY <1>3 DEF Leaves, PrefixState, NoEntry
  <1>5. RemoveFromBatch(st, w, r) = t
    <2>1. CASE p = NoPrefix
      BY <1>1, <2>1 DEF RemoveFromBatch
    <2>2. CASE p # NoPrefix /\ c[p] = NoEntry
      <3>1. [c EXCEPT ![p] = Leaves(c, p)] = c
        BY <1>3, <2>2 DEF Leaves
      <3>2. [st.cache EXCEPT ![w] = c] = st.cache
        BY <1>1
      <3> HIDE DEF c
      <3> QED
        BY <1>1, <2>2, <3>1, <3>2 DEF RemoveFromBatch, c
    <2>3. CASE p # NoPrefix /\ c[p] # NoEntry /\ c[p].refs <= 1
      BY <1>1, <2>3 DEF RemoveFromBatch, Leaves
    <2>4. CASE p # NoPrefix /\ c[p] # NoEntry /\ ~(c[p].refs <= 1)
      <3>1. [c[p] EXCEPT !.refs = @ - 1] = Leaves(c, p)
        BY <1>2, <1>4, <2>4 DEF Leaves, PrefixState
      <3> QED
        BY <1>1, <2>4, <3>1 DEF RemoveFromBatch
    <2> QED
      BY <2>1, <2>2, <2>3, <2>4
  <1>6. b \in [Workers -> Seq(Requests)]
    <2>1. st.batch[w] \in Seq(Requests)
      BY <1>1
    <2>2. Without(st.batch[w], {r}) \in Seq(Requests)
      BY <2>1, WithoutKeeps
    <2> QED
      BY <1>1, <2>2
  <1>7. d \in [Workers -> [PrefixIDs -> PrefixState]]
    <2> HIDE DEF c
    <2> QED
      BY <1>1, <1>2, <1>3, <1>4
  <1>8. t \in HandlerStates
    BY <1>1, <1>6, <1>7 DEF HandlerStates
  <1>9. b[w] = Without(st.batch[w], {r})
    BY <1>1
  <1>10. \A v \in Workers : v # w => b[v] = st.batch[v] /\ d[v] = st.cache[v]
    BY <1>1
  <1>11. \A q \in PrefixIDs :
           d[w][q] = IF q = p THEN Leaves(c, q) ELSE c[q]
    <2> HIDE DEF p
    <2> QED
      BY <1>1, <1>2, <1>3, ModelAssumption
  <1> HIDE DEF d, b
  <1>12. RemovedOne(st, t, w, r)
    BY <1>8, <1>9, <1>10, <1>11 DEF RemovedOne
  <1> QED
    BY <1>5, <1>12

LEMMA RemoveRefsAt ==
  ASSUME NEW cache, NEW S, NEW p \in PrefixIDs
  PROVE  P!RemoveRefs(cache, S)[p] =
           LET n == Cardinality(Users(S, p)) IN
           IF n = 0 THEN cache[p]
           ELSE IF cache[p].refs <= n THEN NoEntry
           ELSE [tokens |-> cache[p].tokens, refs |-> cache[p].refs - n]
  BY SameModel DEF P!RemoveRefs

LEMMA RemoveRefsOne ==
  ASSUME NEW cache \in [PrefixIDs -> PrefixState],
         NEW S \in SUBSET Requests, NEW r \in Requests, r \notin S,
         NEW p \in PrefixIDs
  PROVE  P!RemoveRefs(cache, S \cup {r})[p]
           = IF p = PrefixID[r] THEN Leaves(P!RemoveRefs(cache, S), p)
             ELSE P!RemoveRefs(cache, S)[p]
  <1> DEFINE n == Cardinality(Users(S, p))
             c == P!RemoveRefs(cache, S)
             d == P!RemoveRefs(cache, S \cup {r})
  <1>1. /\ n \in Nat
        /\ p # PrefixID[r] => Users(S \cup {r}, p) = Users(S, p)
        /\ p = PrefixID[r] => Cardinality(Users(S \cup {r}, p)) = n + 1
    BY UsersOne
  <1>2. c[p] = IF n = 0 THEN cache[p]
               ELSE IF cache[p].refs <= n THEN NoEntry
               ELSE [tokens |-> cache[p].tokens, refs |-> cache[p].refs - n]
    BY RemoveRefsAt
  <1>3. d[p] = LET m == Cardinality(Users(S \cup {r}, p)) IN
               IF m = 0 THEN cache[p]
               ELSE IF cache[p].refs <= m THEN NoEntry
               ELSE [tokens |-> cache[p].tokens, refs |-> cache[p].refs - m]
    BY RemoveRefsAt
  <1>4. cache[p].refs \in Nat
    BY DEF PrefixState
  <1> HIDE DEF c, d
  <1>5. ASSUME p # PrefixID[r] PROVE d[p] = c[p]
    BY <1>1, <1>2, <1>3, <1>5
  <1>6. ASSUME p = PrefixID[r] PROVE d[p] = Leaves(c, p)
    <2> HIDE DEF n
    <2>1. d[p] = IF cache[p].refs <= n + 1 THEN NoEntry
                 ELSE [tokens |-> cache[p].tokens,
                       refs |-> cache[p].refs - (n + 1)]
      BY <1>1, <1>3, <1>6
    <2>2. NoEntry.refs = 0
      BY DEF NoEntry
    <2>3. CASE n = 0
      BY <1>2, <1>4, <2>1, <2>2, <2>3 DEF Leaves
    <2>4. CASE n # 0 /\ cache[p].refs <= n
      BY <1>1, <1>2, <1>4, <2>1, <2>4 DEF Leaves
    <2>5. CASE n # 0 /\ ~(cache[p].refs <= n)
      <3>1. c[p] = [tokens |-> cache[p].tokens, refs |-> cache[p].refs - n]
        BY <1>2, <2>5
      <3>2. /\ cache[p].refs - n # 0
            /\ cache[p].refs - n <= 1 <=> cache[p].refs <= n + 1
            /\ (cache[p].refs - n) - 1 = cache[p].refs - (n + 1)
        BY <1>1, <1>4, <2>5
      <3>3. c[p] # NoEntry
        BY <2>2, <3>1, <3>2
      <3> QED
        BY <2>1, <3>1, <3>2, <3>3 DEF Leaves
    <2> QED
      BY <2>3, <2>4, <2>5
  <1> QED
    BY <1>5, <1>6 DEF c, d

(* What the worker w of st becomes in t when the requests of S leave it.   *)
Released(st, t, w, S) ==
  /\ t \in HandlerStates
  /\ t.vt = st.vt /\ t.matched = st.matched
  /\ \A v \in Workers : v # w => /\ t.batch[v] = st.batch[v]
                                 /\ t.cache[v] = st.cache[v]
  /\ IsInjective(t.batch[w])
  /\ ToSet(t.batch[w]) = ToSet(st.batch[w]) \ S
  /\ \A p \in PrefixIDs : t.cache[w][p] = P!RemoveRefs(st.cache[w], S)[p]

LEMMA ReleasedNone ==
  ASSUME NEW st \in HandlerStates, NEW w \in Workers,
         IsInjective(st.batch[w])
  PROVE  Released(st, st, w, {})
  <1>1. \A p : Users({}, p) = {}
    BY DEF Users
  <1>2. \A p \in PrefixIDs :
          st.cache[w][p] = P!RemoveRefs(st.cache[w], {})[p]
    <2> SUFFICES ASSUME NEW p \in PrefixIDs
                 PROVE  st.cache[w][p] = P!RemoveRefs(st.cache[w], {})[p]
      OBVIOUS
    <2> DEFINE none == {}
    <2>1. Cardinality(Users(none, p)) = 0
      BY <1>1, FS_EmptySet
    <2> HIDE DEF none
    <2>2. P!RemoveRefs(st.cache[w], none)[p] = st.cache[w][p]
      BY <2>1, RemoveRefsAt
    <2> QED
      BY <2>2 DEF none
  <1> QED
    BY <1>2 DEF Released

LEMMA ReleasedOne ==
  ASSUME NEW st \in HandlerStates, NEW w \in Workers,
         NEW S \in SUBSET Requests, NEW t, Released(st, t, w, S),
         NEW r \in Requests, r \notin S
  PROVE  /\ Released(st, RemoveFromBatch(t, w, r), w, S \cup {r})
         /\ RemoveFromBatch(t, w, r).queue = t.queue
         /\ RemoveFromBatch(t, w, r).gen = t.gen
  <1> DEFINE u == RemoveFromBatch(t, w, r)
             c == st.cache[w]
  <1>1. /\ t \in HandlerStates /\ t.vt = st.vt /\ t.matched = st.matched
        /\ \A v \in Workers : v # w => /\ t.batch[v] = st.batch[v]
                                       /\ t.cache[v] = st.cache[v]
        /\ IsInjective(t.batch[w])
        /\ ToSet(t.batch[w]) = ToSet(st.batch[w]) \ S
        /\ \A p \in PrefixIDs : t.cache[w][p] = P!RemoveRefs(c, S)[p]
    BY DEF Released
  <1>0. RemovedOne(t, u, w, r)
    BY <1>1, RemoveFromBatchEffect
  <1> HIDE DEF u
  <1>2. /\ u \in HandlerStates
        /\ u.queue = t.queue /\ u.vt = t.vt /\ u.gen = t.gen
        /\ u.matched = t.matched
        /\ u.batch[w] = Without(t.batch[w], {r})
        /\ \A v \in Workers : v # w => /\ u.batch[v] = t.batch[v]
                                       /\ u.cache[v] = t.cache[v]
        /\ \A p \in PrefixIDs :
             u.cache[w][p] = IF p = PrefixID[r] THEN Leaves(t.cache[w], p)
                             ELSE t.cache[w][p]
    BY <1>0 DEF RemovedOne
  <1>4. c \in [PrefixIDs -> PrefixState] /\ t.batch[w] \in Seq(Requests)
    BY <1>1 DEF HandlerStates
  <1> HIDE DEF c
  <1>5. /\ IsInjective(u.batch[w])
        /\ ToSet(u.batch[w]) = ToSet(st.batch[w]) \ (S \cup {r})
    <2>1. /\ IsInjective(Without(t.batch[w], {r}))
          /\ ToSet(Without(t.batch[w], {r})) = ToSet(t.batch[w]) \ {r}
      BY <1>1, <1>4, WithoutKeeps
    <2> QED
      BY <1>1, <1>2, <2>1
  <1>6. \A p \in PrefixIDs : u.cache[w][p] = P!RemoveRefs(c, S \cup {r})[p]
    <2> SUFFICES ASSUME NEW p \in PrefixIDs
                 PROVE  u.cache[w][p] = P!RemoveRefs(c, S \cup {r})[p]
      OBVIOUS
    <2>1. P!RemoveRefs(c, S \cup {r})[p]
            = IF p = PrefixID[r] THEN Leaves(P!RemoveRefs(c, S), p)
              ELSE P!RemoveRefs(c, S)[p]
      BY <1>4, RemoveRefsOne
    <2>2. Leaves(P!RemoveRefs(c, S), p) = Leaves(t.cache[w], p)
      BY <1>1 DEF Leaves
    <2> QED
      BY <1>1, <1>2, <2>1, <2>2
  <1>7. Released(st, u, w, S \cup {r})
    BY <1>1, <1>2, <1>5, <1>6 DEF Released, c
  <1> QED
    BY <1>2, <1>7 DEF u

(* RemoveCompleted takes the complete requests out of the batch.           *)
LEMMA CompletedOfBatch ==
  ASSUME NEW st \in HandlerStates, NEW w \in Workers,
         IsInjective(st.batch[w])
  PROVE  /\ CompletedOf(st, w) \in Seq(Requests)
         /\ IsInjective(CompletedOf(st, w))
         /\ ToSet(CompletedOf(st, w))
              = {r \in ToSet(st.batch[w]) : IsComplete(st.gen, r)}
  <1> DEFINE active == {r \in Requests : ~IsComplete(st.gen, r)}
             q == st.batch[w]
  <1>1. q \in Seq(Requests)
    BY DEF HandlerStates
  <1>2. ToSet(q) \subseteq Requests
    BY <1>1 DEF ToSet
  <1>3. ToSet(q) \ active = {r \in ToSet(q) : IsComplete(st.gen, r)}
    BY <1>2
  <1>4. CompletedOf(st, w) = Without(q, active)
    BY DEF CompletedOf
  <1> HIDE DEF active, q
  <1>5. /\ Without(q, active) \in Seq(Requests)
        /\ ToSet(Without(q, active)) = ToSet(q) \ active
        /\ IsInjective(q) => IsInjective(Without(q, active))
    BY <1>1, WithoutKeeps
  <1> QED
    BY <1>3, <1>4, <1>5 DEF q

LeaveStep(w, s, r) == RemoveFromBatch(s, w, r)
Leaving == INSTANCE FoldProofs WITH Step <- LeaveStep

LEMMA LeaveFolds ==
  ASSUME NEW st, NEW w, CompletedOf(st, w) \in Seq(Requests)
  PROVE  Leaving!FoldOf(RemoveCompleted(st, w), w, st, CompletedOf(st, w),
                        Len(CompletedOf(st, w)))
  <1> DEFINE c == CompletedOf(st, w)
             Turns(f) == f = [s \in SUBSET DOMAIN c |->
               IF s = {} THEN st
               ELSE RemoveFromBatch(f[s \ {Max(s)}], w, c[Max(s)])]
  <1>1. Len(c) \in Nat /\ DOMAIN c = 1..Len(c)
    OBVIOUS
  <1>2. \A f : Turns(f) <=> Leaving!Folds(f, w, st, c, Len(c))
    <2>1. \A s, r : RemoveFromBatch(s, w, r) = LeaveStep(w, s, r)
      BY DEF LeaveStep
    <2>2. \A s : Max(s) = Leaving!Greatest(s)
      BY DEF Leaving!Greatest, Max
    <2> HIDE DEF c
    <2>3. ASSUME NEW f
          PROVE  [s \in SUBSET DOMAIN c |->
                    IF s = {} THEN st
                    ELSE RemoveFromBatch(f[s \ {Max(s)}], w, c[Max(s)])]
                 = [s \in SUBSET (1..Len(c)) |->
                    IF s = {} THEN st
                    ELSE LeaveStep(w, f[s \ {Leaving!Greatest(s)}],
                                   c[Leaving!Greatest(s)])]
      BY <1>1, <2>1, <2>2
    <2> QED
      BY <2>3 DEF Leaving!Folds
  <1>3. \A f : Turns(f)
               => \E g : Turns(g) /\ RemoveCompleted(st, w) = g[DOMAIN c]
    BY DEF RemoveCompleted, FoldLeft, MapThenFoldSet
  <1>4. PICK f : Leaving!Folds(f, w, st, c, Len(c))
    BY <1>1, Leaving!FoldExists
  <1> HIDE DEF Turns, c
  <1>5. Leaving!FoldOf(RemoveCompleted(st, w), w, st, c, Len(c))
    BY <1>1, <1>2, <1>3, <1>4 DEF Leaving!FoldOf
  <1> QED
    BY <1>5 DEF c

LEMMA RemoveCompletedReleases ==
  ASSUME NEW st \in HandlerStates, NEW w \in Workers,
         IsInjective(st.batch[w])
  PROVE  /\ Released(st, RemoveCompleted(st, w), w, ToSet(CompletedOf(st, w)))
         /\ RemoveCompleted(st, w).queue = st.queue
         /\ RemoveCompleted(st, w).gen = st.gen
  <1> DEFINE c == CompletedOf(st, w)
             result == RemoveCompleted(st, w)
             R == [n \in 0..Len(c) |->
                     {t \in HandlerStates :
                        /\ Released(st, t, w, Passed(c, n))
                        /\ t.queue = st.queue /\ t.gen = st.gen}]
  <1>1. c \in Seq(Requests) /\ IsInjective(c) /\ Len(c) \in Nat
    BY CompletedOfBatch
  <1>2. Leaving!FoldOf(result, w, st, c, Len(c))
    BY <1>1, LeaveFolds
  <1> HIDE DEF c, result
  <1>3. st \in R[0]
    <2>1. Released(st, st, w, {}) /\ Passed(c, 0) = {}
      BY <1>1, ReleasedNone, PassedTurns
    <2>2. Released(st, st, w, Passed(c, 0))
      BY <2>1
    <2>3. 0 \in 0..Len(c)
      BY <1>1
    <2> QED
      BY <2>2, <2>3
  <1>4. ASSUME NEW n \in 1..Len(c), NEW t \in R[n - 1]
        PROVE  LeaveStep(w, t, c[n]) \in R[n]
    <2> DEFINE S == Passed(c, n - 1)
               r == c[n]
               u == RemoveFromBatch(t, w, r)
    <2>1. Released(st, t, w, S) /\ t.queue = st.queue /\ t.gen = st.gen
      BY <1>1
    <2>2. r \in Requests /\ Passed(c, n) = S \cup {r} /\ r \notin S
      BY <1>1, PassedTurns
    <2>3. S \in SUBSET Requests
      BY <1>1, PassedTurns DEF Passed
    <2> HIDE DEF S, r
    <2>4. /\ Released(st, u, w, S \cup {r})
          /\ u.queue = t.queue /\ u.gen = t.gen
      BY <2>1, <2>2, <2>3, ReleasedOne
    <2>5. u \in HandlerStates
      BY <2>4 DEF Released
    <2> HIDE DEF u
    <2>6. u \in R[n]
      BY <1>1, <2>1, <2>2, <2>4, <2>5
    <2> QED
      BY <2>6 DEF LeaveStep, u, r
  <1> HIDE DEF R
  <1>5. result \in R[Len(c)]
    BY <1>1, <1>2, <1>3, <1>4, Leaving!LoopInvariant
  <1>6. /\ Released(st, result, w, ToSet(c))
        /\ result.queue = st.queue /\ result.gen = st.gen
    BY <1>1, <1>5, PassedTurns DEF R
  <1> QED
    BY <1>6 DEF c, result

(* The victim is one of the requests of the batch with the fewest tokens.  *)
LEMMA VictimLeast ==
  ASSUME NEW st \in HandlerStates, NEW w \in Workers, st.batch[w] # <<>>
  PROVE  /\ Victim(st, w) \in ToSet(st.batch[w])
         /\ \A r \in ToSet(st.batch[w]) : st.gen[Victim(st, w)] <= st.gen[r]
  <1> DEFINE b == st.batch[w]
             I == DOMAIN b
             least(i) == \A j \in I : \/ st.gen[b[i]] < st.gen[b[j]]
                                      \/ st.gen[b[i]] = st.gen[b[j]] /\ i <= j
             counts == {st.gen[b[i]] : i \in I}
  <1>1. b \in Seq(Requests) /\ st.gen \in [Requests -> Nat]
    BY DEF HandlerStates
  <1>2. /\ I # {} /\ I \in SUBSET Nat
        /\ \A i \in I : b[i] \in Requests /\ st.gen[b[i]] \in Nat
    <2> HIDE DEF b
    <2>1. b # <<>> /\ Len(b) \in Nat /\ DOMAIN b = 1..Len(b)
      BY <1>1 DEF b
    <2>2. Len(b) > 0
      BY <1>1, <2>1
    <2>3. I = 1..Len(b) /\ 1 \in I
      BY <2>1, <2>2
    <2>4. \A i \in I : b[i] \in Requests
      BY <1>1
    <2> QED
      BY <1>1, <2>3, <2>4
  <1> HIDE DEF b, I
  <1>3. PICK n \in counts : \A m \in counts : n <= m
    <2>1. counts \in SUBSET Nat /\ counts # {}
      BY <1>2
    <2> HIDE DEF counts
    <2> QED
      BY <2>1, Filling!LeastNatural
  <1> DEFINE same == {i \in I : st.gen[b[i]] = n}
  <1>4. PICK k \in same : \A j \in same : k <= j
    <2>1. same \in SUBSET Nat /\ same # {}
      BY <1>2
    <2> HIDE DEF same
    <2> QED
      BY <2>1, Filling!LeastNatural
  <1>5. k \in I /\ least(k)
    <2> SUFFICES ASSUME NEW j \in I
                 PROVE  \/ st.gen[b[k]] < st.gen[b[j]]
                        \/ st.gen[b[k]] = st.gen[b[j]] /\ k <= j
      OBVIOUS
    <2>1. st.gen[b[k]] = n /\ n <= st.gen[b[j]]
      BY <1>3, <1>4
    <2>2. st.gen[b[j]] = n => k <= j
      BY <1>4
    <2>3. n \in Nat /\ st.gen[b[j]] \in Nat
      BY <1>2, <2>1, <1>4
    <2> QED
      BY <2>1, <2>2, <2>3
  <1>6. Victim(st, w) = b[CHOOSE i \in I : least(i)]
    BY DEF Victim, b, I
  <1>7. PICK i \in I : least(i) /\ Victim(st, w) = b[i]
    <2> HIDE DEF least
    <2> QED
      BY <1>5, <1>6
  <1>8. \A j \in I : st.gen[b[i]] <= st.gen[b[j]]
    BY <1>2, <1>7
  <1> QED
    BY <1>7, <1>8 DEF ToSet, b, I

LEMMA UsedEqual ==
  ASSUME NEW B \in SUBSET Requests, NEW gen, NEW gen2,
         \A r \in B : gen[r] = gen2[r], NEW m, NEW cache, NEW cache2,
         \A p \in PrefixIDs : cache[p] = cache2[p]
  PROVE  UsedTokens(B, gen, m, cache) = UsedTokens(B, gen2, m, cache2)
  <1>1. \A r \in B : TotalTokens(gen)[r] = TotalTokens(gen2)[r]
    BY DEF TotalTokens
  <1>2. TokenSum(B, TotalTokens(gen)) = TokenSum(B, TotalTokens(gen2))
    BY <1>1, SumEqual
  <1>3. [p \in PrefixIDs |-> cache[p].tokens]
          = [p \in PrefixIDs |-> cache2[p].tokens]
    OBVIOUS
  <1> QED
    BY <1>2, <1>3 DEF UsedTokens

(* What the OOM loop makes of st when it evicts the requests of V.         *)
Preempted(st, t, w, V) ==
  /\ V \subseteq ToSet(st.batch[w])
  /\ Released(st, t, w, V)
  /\ IsInjective(t.queue)
  /\ ToSet(t.queue) = ToSet(st.queue) \cup V
  /\ t.gen = [r \in Requests |-> IF r \in V THEN 0 ELSE st.gen[r]]
  /\ \A v \in V, r \in ToSet(st.batch[w]) \ V : st.gen[v] <= st.gen[r]
  /\ V # {} =>
       /\ PagedAttention
       /\ \E last \in V :
            /\ \A v \in V : st.gen[v] <= st.gen[last]
            /\ UsedTokens((ToSet(st.batch[w]) \ V) \cup {last}, st.gen,
                          st.matched, P!RemoveRefs(st.cache[w], V \ {last}))
                 > MemoryTokens

LEMMA PreemptedUses ==
  ASSUME NEW st \in HandlerStates, NEW w \in Workers, NEW t, NEW V,
         Preempted(st, t, w, V)
  PROVE  UsedMemory(t, w)
           = UsedTokens(ToSet(st.batch[w]) \ V, st.gen, st.matched,
                        P!RemoveRefs(st.cache[w], V))
  <1> DEFINE B == ToSet(st.batch[w]) \ V
  <1>1. B \in SUBSET Requests
    BY DEF HandlerStates, ToSet
  <1>2. /\ ToSet(t.batch[w]) = B /\ t.matched = st.matched
        /\ \A p \in PrefixIDs : t.cache[w][p] = P!RemoveRefs(st.cache[w], V)[p]
    BY DEF Preempted, Released
  <1>3. \A r \in B : t.gen[r] = st.gen[r]
    BY <1>1 DEF Preempted
  <1> HIDE DEF B
  <1>4. UsedTokens(B, t.gen, st.matched, t.cache[w])
          = UsedTokens(B, st.gen, st.matched, P!RemoveRefs(st.cache[w], V))
    BY <1>1, <1>2, <1>3, UsedEqual
  <1> QED
    BY <1>2, <1>4 DEF UsedMemory, B

LEMMA PreemptedNone ==
  ASSUME NEW st \in HandlerStates, NEW w \in Workers,
         IsInjective(st.queue), IsInjective(st.batch[w])
  PROVE  Preempted(st, st, w, {})
  <1>1. Released(st, st, w, {})
    BY ReleasedNone
  <1>2. st.gen = [r \in Requests |-> IF r \in {} THEN 0 ELSE st.gen[r]]
    BY DEF HandlerStates
  <1> QED
    BY <1>1, <1>2 DEF Preempted

LEMMA PreemptedOne ==
  ASSUME NEW st \in HandlerStates, NEW w \in Workers, NEW t, NEW V,
         Preempted(st, t, w, V), OutOfMemory(t, w),
         ToSet(st.queue) \cap ToSet(st.batch[w]) = {}
  PROVE  /\ Victim(t, w) \in ToSet(st.batch[w]) \ V
         /\ Preempted(st, Evict(t, w, Victim(t, w)), w,
                      V \cup {Victim(t, w)})
  <1> DEFINE v == Victim(t, w)
             A == ToSet(st.batch[w])
             x == RemoveFromBatch(t, w, v)
             u == Evict(t, w, v)
             W == V \cup {v}
  <1>1. /\ V \subseteq A /\ Released(st, t, w, V)
        /\ IsInjective(t.queue) /\ ToSet(t.queue) = ToSet(st.queue) \cup V
        /\ t.gen = [r \in Requests |-> IF r \in V THEN 0 ELSE st.gen[r]]
        /\ \A y \in V, r \in A \ V : st.gen[y] <= st.gen[r]
    BY DEF Preempted
  <1>2. A \in SUBSET Requests /\ st.gen \in [Requests -> Nat]
    BY DEF HandlerStates, ToSet
  <1>3. t \in HandlerStates /\ ToSet(t.batch[w]) = A \ V
    BY <1>1 DEF Released
  <1>4. /\ PagedAttention /\ t.batch[w] # <<>>
        /\ UsedMemory(t, w) > MemoryTokens
    BY DEF OutOfMemory
  <1>5. /\ v \in ToSet(t.batch[w])
        /\ \A r \in ToSet(t.batch[w]) : t.gen[v] <= t.gen[r]
    BY <1>3, <1>4, VictimLeast
  <1>6. UsedTokens(A \ V, st.gen, st.matched, P!RemoveRefs(st.cache[w], V))
          > MemoryTokens
    BY <1>4, PreemptedUses
  <1> HIDE DEF v, A
  <1>7. v \in A \ V /\ v \in Requests /\ V \in SUBSET Requests
    BY <1>1, <1>2, <1>3, <1>5
  <1>8. /\ Released(st, x, w, W)
        /\ x.queue = t.queue /\ x.gen = t.gen
    BY <1>1, <1>7, ReleasedOne
  <1>9. t.queue \in Seq(Requests) /\ t.gen \in [Requests -> Nat]
    BY <1>3 DEF HandlerStates
  <1> DEFINE queued == Enqueue(policy, t.queue, v)
  <1>10. /\ queued \in Seq(Requests)
         /\ ToSet(queued) = ToSet(t.queue) \cup {v}
         /\ IsInjective(queued)
    <2>1. v \notin ToSet(t.queue)
      BY <1>1, <1>7 DEF A
    <2> QED
      BY <1>1, <1>7, <1>9, <2>1, EnqueueAdds
  <1> HIDE DEF queued, x
  <1>11. x \in HandlerStates
    BY <1>8 DEF Released
  <1>12. u = [x EXCEPT !.gen = [t.gen EXCEPT ![v] = 0], !.queue = queued]
    BY <1>8, <1>11 DEF Evict, queued, x, HandlerStates
  <1> HIDE DEF u
  <1>13. /\ u \in HandlerStates
         /\ u.queue = queued /\ u.gen = [t.gen EXCEPT ![v] = 0]
         /\ u.vt = x.vt /\ u.matched = x.matched
         /\ u.batch = x.batch /\ u.cache = x.cache
    BY <1>9, <1>10, <1>11, <1>12 DEF HandlerStates
  <1>14. Released(st, u, w, W)
    BY <1>8, <1>13 DEF Released
  <1>15. u.gen = [r \in Requests |-> IF r \in W THEN 0 ELSE st.gen[r]]
    BY <1>1, <1>9, <1>13
  <1>16. \A y \in V : st.gen[y] <= st.gen[v]
    BY <1>1, <1>7
  <1>17. \A r \in A \ V : st.gen[v] <= st.gen[r]
    <2>1. \A r \in A \ V : t.gen[r] = st.gen[r]
      BY <1>1, <1>2
    <2> QED
      BY <1>3, <1>5, <1>7, <2>1
  <1>18. (A \ W) \cup {v} = A \ V /\ W \ {v} = V
    BY <1>7
  <1>19. st.gen[v] <= st.gen[v]
    BY <1>2, <1>7
  <1>20. \A y \in W, r \in A \ W : st.gen[y] <= st.gen[r]
    BY <1>1, <1>17
  <1>21. /\ v \in W /\ \A y \in W : st.gen[y] <= st.gen[v]
         /\ UsedTokens((A \ W) \cup {v}, st.gen, st.matched,
                       P!RemoveRefs(st.cache[w], W \ {v})) > MemoryTokens
    BY <1>6, <1>16, <1>18, <1>19
  <1>22. W \subseteq A /\ ToSet(u.queue) = ToSet(st.queue) \cup W
    BY <1>1, <1>7, <1>10, <1>13
  <1> HIDE DEF W
  <1>23. Preempted(st, u, w, W)
    BY <1>4, <1>10, <1>13, <1>14, <1>15, <1>20, <1>21, <1>22
       DEF Preempted, A
  <1> QED
    BY <1>7, <1>23 DEF A, W, v, u

EvictStep(w, s, turn) ==
  IF OutOfMemory(s, w) THEN Evict(s, w, Victim(s, w)) ELSE s
Evicting == INSTANCE FoldProofs WITH Step <- EvictStep

LEMMA EvictFolds ==
  ASSUME NEW st, NEW w, st.batch[w] \in Seq(Requests)
  PROVE  Evicting!FoldOf(EvictLoop(st, w), w, st, st.batch[w],
                         Len(st.batch[w]))
  <1> DEFINE b == st.batch[w]
             Turned(s, turn) == IF OutOfMemory(s, w)
                                THEN Evict(s, w, Victim(s, w)) ELSE s
             Turns(f) == f = [s \in SUBSET DOMAIN b |->
               IF s = {} THEN st ELSE Turned(f[s \ {Max(s)}], b[Max(s)])]
  <1>1. Len(b) \in Nat /\ DOMAIN b = 1..Len(b)
    OBVIOUS
  <1>2. \A f : Turns(f) <=> Evicting!Folds(f, w, st, b, Len(b))
    <2>1. \A s, turn : Turned(s, turn) = EvictStep(w, s, turn)
      BY DEF EvictStep
    <2>2. \A s : Max(s) = Evicting!Greatest(s)
      BY DEF Evicting!Greatest, Max
    <2> HIDE DEF b, Turned
    <2>3. ASSUME NEW f
          PROVE  [s \in SUBSET DOMAIN b |->
                    IF s = {} THEN st
                    ELSE Turned(f[s \ {Max(s)}], b[Max(s)])]
                 = [s \in SUBSET (1..Len(b)) |->
                    IF s = {} THEN st
                    ELSE EvictStep(w, f[s \ {Evicting!Greatest(s)}],
                                   b[Evicting!Greatest(s)])]
      BY <1>1, <2>1, <2>2
    <2> QED
      BY <2>3 DEF Evicting!Folds
  <1>3. \A f : Turns(f) => \E g : Turns(g) /\ EvictLoop(st, w) = g[DOMAIN b]
    BY DEF EvictLoop, FoldLeft, MapThenFoldSet
  <1>4. PICK f : Evicting!Folds(f, w, st, b, Len(b))
    BY <1>1, Evicting!FoldExists
  <1> HIDE DEF Turns, b
  <1>5. Evicting!FoldOf(EvictLoop(st, w), w, st, b, Len(b))
    BY <1>1, <1>2, <1>3, <1>4 DEF Evicting!FoldOf
  <1> QED
    BY <1>5 DEF b

(* As many turns as the batch has members are enough: the loop ends with   *)
(* what remains within the memory, or with nothing left to evict.          *)
LEMMA EvictLoopPreempts ==
  ASSUME NEW st \in HandlerStates, NEW w \in Workers,
         IsInjective(st.queue), IsInjective(st.batch[w]),
         ToSet(st.queue) \cap ToSet(st.batch[w]) = {}
  PROVE  \E V : /\ Preempted(st, EvictLoop(st, w), w, V)
                /\ ~OutOfMemory(EvictLoop(st, w), w)
  <1> DEFINE b == st.batch[w]
             A == ToSet(b)
             result == EvictLoop(st, w)
             Holds(t, n) == \E V : /\ Preempted(st, t, w, V)
                                   /\ Cardinality(V) = n \/ ~OutOfMemory(t, w)
             R == [n \in 0..Len(b) |-> {t \in HandlerStates : Holds(t, n)}]
  <1>1. b \in Seq(Requests) /\ Len(b) \in Nat
    BY DEF HandlerStates
  <1>2. Evicting!FoldOf(result, w, st, b, Len(b))
    BY <1>1, EvictFolds
  <1>3. /\ A \in SUBSET Requests /\ IsFiniteSet(A)
        /\ Cardinality(A) = Len(b)
    BY <1>1, InjectiveLength, MembersOf
  <1> HIDE DEF b, result
  <1>4. st \in R[0]
    <2>1. Preempted(st, st, w, {})
      BY PreemptedNone
    <2>2. Holds(st, 0)
      BY <2>1, FS_EmptySet
    <2>3. 0 \in 0..Len(b)
      BY <1>1
    <2> HIDE DEF Holds
    <2> QED
      BY <2>2, <2>3
  <1>5. ASSUME NEW n \in 1..Len(b), NEW t \in R[n - 1]
        PROVE  EvictStep(w, t, b[n]) \in R[n]
    <2>1. n - 1 \in 0..Len(b) /\ n \in 0..Len(b)
      BY <1>1
    <2>2. t \in HandlerStates /\ Holds(t, n - 1)
      <3> HIDE DEF Holds
      <3> QED
        BY <2>1
    <2>3. PICK V : /\ Preempted(st, t, w, V)
                   /\ Cardinality(V) = n - 1 \/ ~OutOfMemory(t, w)
      BY <2>2
    <2>4. CASE OutOfMemory(t, w)
      <3> DEFINE v == Victim(t, w)
                 u == Evict(t, w, v)
      <3>1. v \in A \ V /\ Preempted(st, u, w, V \cup {v})
        BY <2>3, <2>4, PreemptedOne DEF b
      <3> HIDE DEF v
      <3>2. V \subseteq A
        BY <2>3 DEF Preempted, b
      <3>3. IsFiniteSet(V)
        BY <1>3, <3>2, FS_Subset
      <3>4. Cardinality(V \cup {v}) = Cardinality(V) + 1
        BY <3>1, <3>3, FS_AddElement
      <3>5. Cardinality(V \cup {v}) = n
        BY <2>3, <2>4, <3>4
      <3>6. Holds(u, n)
        BY <3>1, <3>5
      <3>7. u \in HandlerStates
        BY <3>1 DEF Preempted, Released
      <3>8. EvictStep(w, t, b[n]) = u
        BY <2>4 DEF EvictStep, v
      <3> HIDE DEF u, Holds
      <3> QED
        BY <2>1, <3>6, <3>7, <3>8
    <2>5. CASE ~OutOfMemory(t, w)
      <3>1. Holds(t, n)
        BY <2>3, <2>5
      <3>2. EvictStep(w, t, b[n]) = t
        BY <2>5 DEF EvictStep
      <3> HIDE DEF Holds
      <3> QED
        BY <2>1, <2>2, <3>1, <3>2
    <2> QED
      BY <2>4, <2>5
  <1>6. result \in R[Len(b)]
    <2> HIDE DEF R
    <2> QED
      BY <1>1, <1>2, <1>4, <1>5, Evicting!LoopInvariant
  <1>7. Holds(result, Len(b))
    <2> HIDE DEF Holds
    <2> QED
      BY <1>1, <1>6
  <1>8. PICK V : /\ Preempted(st, result, w, V)
                 /\ Cardinality(V) = Len(b) \/ ~OutOfMemory(result, w)
    BY <1>7
  <1>9. ASSUME Cardinality(V) = Len(b) PROVE ~OutOfMemory(result, w)
    <2>1. V \subseteq A /\ ToSet(result.batch[w]) = A \ V
      BY <1>8 DEF Preempted, Released, b
    <2>2. V = A
      BY <1>3, <1>9, <2>1, FS_Subset
    <2>3. result \in HandlerStates
      BY <1>8 DEF Preempted, Released
    <2>4. result.batch[w] \in Seq(Requests) /\ ToSet(result.batch[w]) = {}
      <3>1. result.batch[w] \in Seq(Requests)
        BY <2>3 DEF HandlerStates
      <3> QED
        BY <2>1, <2>2, <3>1
    <2>5. result.batch[w] = <<>>
      BY <2>4, MembersOf
    <2> QED
      BY <2>5 DEF OutOfMemory
  <1> QED
    BY <1>8, <1>9 DEF result

(* Without paging the OOM loop does nothing.                               *)
LEMMA EvictLoopIdle ==
  ASSUME NEW st, NEW w \in Workers, st.batch[w] \in Seq(Requests),
         ~PagedAttention
  PROVE  EvictLoop(st, w) = st
  <1> DEFINE b == st.batch[w]
             result == EvictLoop(st, w)
             R == [n \in 0..Len(b) |-> {st}]
  <1>1. Len(b) \in Nat
    OBVIOUS
  <1>2. Evicting!FoldOf(result, w, st, b, Len(b))
    BY EvictFolds
  <1> HIDE DEF b, result
  <1>3. st \in R[0]
    BY <1>1
  <1>4. \A n \in 1..Len(b) : \A t \in R[n - 1] : EvictStep(w, t, b[n]) \in R[n]
    BY <1>1 DEF EvictStep, OutOfMemory
  <1>5. result \in R[Len(b)]
    <2> HIDE DEF R
    <2> QED
      BY <1>1, <1>2, <1>3, <1>4, Evicting!LoopInvariant
  <1> QED
    BY <1>1, <1>5 DEF result

-----------------------------------------------------------------------------
(* tryDispatchAll: the idle workers are filled one after the other.        *)
LEMMA UsedIdle ==
  ASSUME NEW gen, NEW gen2, NEW m, NEW m2, NEW cache
  PROVE  UsedTokens({}, gen, m, cache) = UsedTokens({}, gen2, m2, cache)
  BY SumEmpty DEF UsedTokens

IdleUse(st, w) == UsedTokens({}, st.gen, st.matched, st.cache[w])

OfferedInOrder(st, t, W, fill) ==
  InOrder(policy, st.queue) =>
    /\ InOrder(policy, t.queue)
    /\ \A w \in W : st.batch[w] = <<>> =>
         Spared(policy, ToSet(t.queue), fill[w], IdleUse(st, w))

LEMMA SparedLess ==
  ASSUME NEW left, NEW less \in SUBSET left, NEW F, NEW used,
         Spared(policy, left, F, used)
  PROVE  Spared(policy, less, F, used)
  BY DEF Spared, ClassInOrder, OvertakenForMemory

(* What st becomes when the workers of W have been offered the queue.      *)
Offered(st, t, W, fill, first) ==
  /\ t \in HandlerStates
  /\ t.gen = st.gen
  /\ IsInjective(t.queue)
  /\ ToSet(t.queue) = ToSet(st.queue) \ UNION {fill[w] : w \in Workers}
  /\ fill \in [Workers -> SUBSET ToSet(st.queue)]
  /\ \A v, w \in Workers : v # w => fill[v] \cap fill[w] = {}
  /\ \A w \in Workers :
       w \notin W \/ st.batch[w] # <<>> =>
         fill[w] = {} /\ t.batch[w] = st.batch[w] /\ t.cache[w] = st.cache[w]
  /\ \A w \in Workers :
       /\ IsInjective(t.batch[w])
       /\ ToSet(t.batch[w]) = ToSet(st.batch[w]) \cup fill[w]
       /\ FirstUsers(first[w], fill[w])
       /\ \A p \in PrefixIDs :
            t.cache[w][p] = P!AddRefs(st.cache[w], fill[w], first[w])[p]
       /\ \A r \in fill[w] : PrefixID[r] # NoPrefix =>
            t.matched[r] = P!PrefixHit(st.cache[w], first[w], r)
  /\ first \in [Workers -> [PrefixIDs -> Requests]]
  /\ \A r \in Requests :
       PrefixID[r] = NoPrefix \/ (\A w \in Workers : r \notin fill[w]) =>
         t.matched[r] = st.matched[r]
  /\ \A w \in W : st.batch[w] = <<>> => P!Fits({}, fill[w], IdleUse(st, w))
  /\ \A w \in W : policy # "wfq" /\ st.batch[w] = <<>> /\ fill[w] = {} =>
       \A r \in ToSet(t.queue) :
         WorstTokens[r] > MemoryTokens - IdleUse(st, w)
  /\ OfferedInOrder(st, t, W, fill)

LEMMA OfferedNone ==
  ASSUME NEW st \in HandlerStates, IsInjective(st.queue), Requests # {},
         \A w \in Workers : IsInjective(st.batch[w])
  PROVE  \E fill, first : Offered(st, st, {}, fill, first)
  <1>1. PICK r \in Requests : TRUE
    OBVIOUS
  <1> DEFINE fill == [w \in Workers |-> {}]
             one == [p \in PrefixIDs |-> r]
             first == [w \in Workers |-> one]
  <1>2. one \in [PrefixIDs -> Requests]
    OBVIOUS
  <1> HIDE DEF one
  <1>3. \A w \in Workers : Filled(st, st, w, {}, one)
    BY <1>2, FilledNone
  <1>4. /\ \A w \in Workers : fill[w] = {} /\ first[w] = one
        /\ fill \in [Workers -> SUBSET ToSet(st.queue)]
        /\ first \in [Workers -> [PrefixIDs -> Requests]]
        /\ UNION {fill[w] : w \in Workers} = {}
    BY <1>2
  <1> HIDE DEF fill, first
  <1>5. \A w \in Workers :
          /\ FirstUsers(first[w], fill[w])
          /\ \A p \in PrefixIDs :
               st.cache[w][p] = P!AddRefs(st.cache[w], fill[w], first[w])[p]
    BY <1>3, <1>4 DEF Filled
  <1>6. OfferedInOrder(st, st, {}, fill)
    BY DEF OfferedInOrder
  <1>7. Offered(st, st, {}, fill, first)
    BY <1>4, <1>5, <1>6 DEF Offered
  <1> QED
    BY <1>7

LEMMA OfferedOne ==
  ASSUME NEW st \in HandlerStates, Requests # {},
         NEW s, NEW W \in SUBSET Workers, NEW fill, NEW first,
         Offered(st, s, W, fill, first),
         NEW w \in Workers, w \notin W, s.batch[w] = <<>>
  PROVE  \E F, f : Offered(st, TryFill(s, w), W \cup {w},
                              [fill EXCEPT ![w] = F], [first EXCEPT ![w] = f])
  <1> DEFINE t == TryFill(s, w)
  <1>1. /\ s \in HandlerStates /\ s.gen = st.gen /\ IsInjective(s.queue)
        /\ ToSet(s.queue) = ToSet(st.queue) \ UNION {fill[v] : v \in Workers}
        /\ fill \in [Workers -> SUBSET ToSet(st.queue)]
        /\ \A v, x \in Workers : v # x => fill[v] \cap fill[x] = {}
        /\ \A v \in Workers :
             v \notin W \/ st.batch[v] # <<>> =>
               fill[v] = {} /\ s.batch[v] = st.batch[v]
                 /\ s.cache[v] = st.cache[v]
        /\ first \in [Workers -> [PrefixIDs -> Requests]]
    BY DEF Offered
  <1>2. /\ \A v \in Workers :
             /\ IsInjective(s.batch[v])
             /\ ToSet(s.batch[v]) = ToSet(st.batch[v]) \cup fill[v]
             /\ FirstUsers(first[v], fill[v])
             /\ \A p \in PrefixIDs :
                  s.cache[v][p] = P!AddRefs(st.cache[v], fill[v], first[v])[p]
             /\ \A r \in fill[v] : PrefixID[r] # NoPrefix =>
                  s.matched[r] = P!PrefixHit(st.cache[v], first[v], r)
        /\ \A r \in Requests :
             PrefixID[r] = NoPrefix \/ (\A v \in Workers : r \notin fill[v]) =>
               s.matched[r] = st.matched[r]
    BY DEF Offered
  <1>3. /\ \A v \in W : st.batch[v] = <<>> => P!Fits({}, fill[v], IdleUse(st, v))
        /\ \A v \in W : policy # "wfq" /\ st.batch[v] = <<>> /\ fill[v] = {} =>
             \A r \in ToSet(s.queue) :
               WorstTokens[r] > MemoryTokens - IdleUse(st, v)
        /\ OfferedInOrder(st, s, W, fill)
    BY DEF Offered
  <1>4. /\ fill[w] = {} /\ st.batch[w] = <<>> /\ s.cache[w] = st.cache[w]
        /\ ToSet(s.batch[w]) = {}
    <2>1. ToSet(<<>>) = {}
      BY DEF ToSet
    <2> QED
      BY <1>1, <2>1
  <1>5. PICK F, f : Admitted(s, t, w, F, f)
    BY <1>1, <1>2, <1>4, TryFillAdmits
  <1>6. /\ F \subseteq ToSet(s.queue) /\ Filled(s, t, w, F, f)
        /\ IsInjective(t.queue) /\ ToSet(t.queue) = ToSet(s.queue) \ F
        /\ P!Fits({}, F, UsedMemory(s, w))
        /\ policy # "wfq" /\ F = {} =>
             \A r \in ToSet(s.queue) :
               WorstTokens[r] > MemoryTokens - UsedMemory(s, w)
        /\ ServedInOrder(s.queue, t.queue, F, UsedMemory(s, w))
    BY <1>4, <1>5 DEF Admitted
  <1>7. UsedMemory(s, w) = IdleUse(st, w)
    <2>1. UsedMemory(s, w) = UsedTokens({}, s.gen, s.matched, st.cache[w])
      BY <1>4 DEF UsedMemory
    <2>2. UsedTokens({}, s.gen, s.matched, st.cache[w])
            = UsedTokens({}, st.gen, st.matched, st.cache[w])
      BY UsedIdle
    <2> QED
      BY <2>1, <2>2 DEF IdleUse
  <1> HIDE DEF t
  <1>8. /\ t \in HandlerStates /\ t.gen = s.gen
        /\ \A v \in Workers : v # w => /\ t.batch[v] = s.batch[v]
                                       /\ t.cache[v] = s.cache[v]
        /\ IsInjective(t.batch[w])
        /\ ToSet(t.batch[w]) = F
        /\ FirstUsers(f, F)
        /\ \A p \in PrefixIDs :
             t.cache[w][p] = P!AddRefs(st.cache[w], F, f)[p]
        /\ \A r \in Requests :
             t.matched[r] = IF r \in F /\ PrefixID[r] # NoPrefix
                            THEN P!PrefixHit(st.cache[w], f, r)
                            ELSE s.matched[r]
    BY <1>4, <1>6 DEF Filled
  <1> DEFINE fill2 == [fill EXCEPT ![w] = F]
             first2 == [first EXCEPT ![w] = f]
  <1>9. /\ fill2[w] = F /\ first2[w] = f
        /\ \A v \in Workers : v # w => fill2[v] = fill[v] /\ first2[v] = first[v]
    BY <1>1
  <1>10. fill2 \in [Workers -> SUBSET ToSet(st.queue)]
    BY <1>1, <1>6
  <1>11. first2 \in [Workers -> [PrefixIDs -> Requests]]
    BY <1>1, <1>8 DEF FirstUsers
  <1> HIDE DEF fill2, first2
  <1>12. /\ ToSet(t.queue) = ToSet(st.queue) \ UNION {fill2[v] : v \in Workers}
         /\ \A v \in Workers : F \cap fill[v] = {}
    <2>1. UNION {fill2[v] : v \in Workers}
            = (UNION {fill[v] : v \in Workers}) \cup F
      BY <1>4, <1>9
    <2> QED
      BY <1>1, <1>6, <2>1
  <1>13. \A v, x \in Workers : v # x => fill2[v] \cap fill2[x] = {}
    BY <1>1, <1>9, <1>12
  <1>14. \A v \in Workers :
           v \notin W \cup {w} \/ st.batch[v] # <<>> =>
             fill2[v] = {} /\ t.batch[v] = st.batch[v]
               /\ t.cache[v] = st.cache[v]
    BY <1>1, <1>4, <1>8, <1>9
  <1>15. \A v \in Workers :
           /\ IsInjective(t.batch[v])
           /\ ToSet(t.batch[v]) = ToSet(st.batch[v]) \cup fill2[v]
           /\ FirstUsers(first2[v], fill2[v])
           /\ \A p \in PrefixIDs :
                t.cache[v][p] = P!AddRefs(st.cache[v], fill2[v], first2[v])[p]
           /\ \A r \in fill2[v] : PrefixID[r] # NoPrefix =>
                t.matched[r] = P!PrefixHit(st.cache[v], first2[v], r)
    <2> SUFFICES ASSUME NEW v \in Workers
          PROVE  /\ IsInjective(t.batch[v])
                 /\ ToSet(t.batch[v]) = ToSet(st.batch[v]) \cup fill2[v]
                 /\ FirstUsers(first2[v], fill2[v])
                 /\ \A p \in PrefixIDs :
                      t.cache[v][p]
                        = P!AddRefs(st.cache[v], fill2[v], first2[v])[p]
                 /\ \A r \in fill2[v] : PrefixID[r] # NoPrefix =>
                      t.matched[r] = P!PrefixHit(st.cache[v], first2[v], r)
      OBVIOUS
    <2>1. \A r \in fill2[v] : r \in Requests
      BY <1>10, MembersOf DEF HandlerStates
    <2>2. CASE v = w
      BY <1>1, <1>4, <1>8, <1>9, <2>1, <2>2
    <2>3. CASE v # w
      <3>1. \A r \in fill[v] : r \in Requests /\ t.matched[r] = s.matched[r]
        BY <1>8, <1>9, <1>12, <2>1, <2>3
      <3> QED
        BY <1>2, <1>8, <1>9, <2>3, <3>1
    <2> QED
      BY <2>2, <2>3
  <1>16. \A r \in Requests :
           PrefixID[r] = NoPrefix \/ (\A v \in Workers : r \notin fill2[v]) =>
             t.matched[r] = st.matched[r]
    <2> SUFFICES ASSUME NEW r \in Requests,
                        \/ PrefixID[r] = NoPrefix
                        \/ \A v \in Workers : r \notin fill2[v]
                 PROVE  t.matched[r] = st.matched[r]
      OBVIOUS
    <2>1. \/ PrefixID[r] = NoPrefix
          \/ r \notin F /\ \A v \in Workers : r \notin fill[v]
      BY <1>4, <1>9
    <2> QED
      BY <1>2, <1>8, <2>1
  <1>17. \A v \in W \cup {w} : st.batch[v] = <<>> =>
           P!Fits({}, fill2[v], IdleUse(st, v))
    BY <1>3, <1>6, <1>7, <1>9
  <1>18. \A v \in W \cup {w} :
           policy # "wfq" /\ st.batch[v] = <<>> /\ fill2[v] = {} =>
             \A r \in ToSet(t.queue) :
               WorstTokens[r] > MemoryTokens - IdleUse(st, v)
    BY <1>3, <1>6, <1>7, <1>9
  <1>20. OfferedInOrder(st, t, W \cup {w}, fill2)
    <2> SUFFICES ASSUME InOrder(policy, st.queue)
                 PROVE  /\ InOrder(policy, t.queue)
                        /\ \A v \in W \cup {w} : st.batch[v] = <<>> =>
                             Spared(policy, ToSet(t.queue), fill2[v],
                                    IdleUse(st, v))
      BY DEF OfferedInOrder
    <2>1. /\ InOrder(policy, s.queue)
          /\ \A v \in W : st.batch[v] = <<>> =>
               Spared(policy, ToSet(s.queue), fill[v], IdleUse(st, v))
      BY <1>3 DEF OfferedInOrder
    <2>2. /\ InOrder(policy, t.queue)
          /\ Spared(policy, ToSet(t.queue), fill2[w], IdleUse(st, w))
      BY <1>6, <1>7, <1>9, <2>1 DEF ServedInOrder
    <2>3. ASSUME NEW v \in W, st.batch[v] = <<>>
          PROVE  Spared(policy, ToSet(t.queue), fill2[v], IdleUse(st, v))
      <3>1. fill2[v] = fill[v]
        BY <1>9
      <3>2. ToSet(t.queue) \in SUBSET ToSet(s.queue)
        BY <1>6
      <3>3. Spared(policy, ToSet(s.queue), fill[v], IdleUse(st, v))
        BY <2>1, <2>3
      <3> QED
        BY <3>1, <3>2, <3>3, SparedLess
    <2> QED
      BY <2>2, <2>3
  <1>19. Offered(st, t, W \cup {w}, fill2, first2)
    BY <1>1, <1>6, <1>8, <1>10, <1>11, <1>12, <1>13, <1>14, <1>15, <1>16,
       <1>17, <1>18, <1>20 DEF Offered
  <1> QED
    BY <1>19 DEF t, fill2, first2

DispatchStep(a, s, w) == IF s.batch[w] = <<>> THEN TryFill(s, w) ELSE s
Dispatching == INSTANCE FoldProofs WITH Step <- DispatchStep

LEMMA DispatchFolds ==
  ASSUME NEW st
  PROVE  Dispatching!FoldOf(DispatchAll(st), {}, st, WorkerOrder,
                            Len(WorkerOrder))
  <1> DEFINE q == WorkerOrder
             Turned(s, w) == IF s.batch[w] = <<>> THEN TryFill(s, w) ELSE s
             Turns(f) == f = [s \in SUBSET DOMAIN q |->
               IF s = {} THEN st ELSE Turned(f[s \ {Max(s)}], q[Max(s)])]
  <1>1. Len(q) \in Nat /\ DOMAIN q = 1..Len(q)
    BY EngineAssumption
  <1>2. \A f : Turns(f) <=> Dispatching!Folds(f, {}, st, q, Len(q))
    <2>1. \A s, w : Turned(s, w) = DispatchStep({}, s, w)
      BY DEF DispatchStep
    <2>2. \A s : Max(s) = Dispatching!Greatest(s)
      BY DEF Dispatching!Greatest, Max
    <2> HIDE DEF q, Turned
    <2>3. ASSUME NEW f
          PROVE  [s \in SUBSET DOMAIN q |->
                    IF s = {} THEN st
                    ELSE Turned(f[s \ {Max(s)}], q[Max(s)])]
                 = [s \in SUBSET (1..Len(q)) |->
                    IF s = {} THEN st
                    ELSE DispatchStep({}, f[s \ {Dispatching!Greatest(s)}],
                                      q[Dispatching!Greatest(s)])]
      BY <1>1, <2>1, <2>2
    <2> QED
      BY <2>3 DEF Dispatching!Folds
  <1>3. \A f : Turns(f) => \E g : Turns(g) /\ DispatchAll(st) = g[DOMAIN q]
    BY DEF DispatchAll, FoldLeft, MapThenFoldSet
  <1>4. PICK f : Dispatching!Folds(f, {}, st, q, Len(q))
    BY <1>1, Dispatching!FoldExists
  <1> HIDE DEF Turns, q
  <1>5. Dispatching!FoldOf(DispatchAll(st), {}, st, q, Len(q))
    BY <1>1, <1>2, <1>3, <1>4 DEF Dispatching!FoldOf
  <1> QED
    BY <1>5 DEF q

LEMMA DispatchAllAdmits ==
  ASSUME NEW st \in HandlerStates, IsInjective(st.queue), Requests # {},
         \A w \in Workers : IsInjective(st.batch[w])
  PROVE  \E fill, first : Offered(st, DispatchAll(st), Workers, fill, first)
  <1> DEFINE q == WorkerOrder
             result == DispatchAll(st)
             Holds(t, n) == \E fill, first :
                              Offered(st, t, Passed(q, n), fill, first)
             R == [n \in 0..Len(q) |-> {t \in HandlerStates : Holds(t, n)}]
  <1>1. /\ q \in Seq(Workers) /\ Len(q) \in Nat /\ IsInjective(q)
        /\ ToSet(q) = Workers
    BY EngineAssumption
  <1>2. Dispatching!FoldOf(result, {}, st, q, Len(q))
    BY DispatchFolds
  <1> HIDE DEF q, result
  <1>3. st \in R[0]
    <2>1. Passed(q, 0) = {}
      BY <1>1, PassedTurns
    <2>2. Holds(st, 0)
      BY <2>1, OfferedNone
    <2>3. 0 \in 0..Len(q)
      BY <1>1
    <2> HIDE DEF Holds
    <2> QED
      BY <2>2, <2>3
  <1>4. ASSUME NEW n \in 1..Len(q), NEW s \in R[n - 1]
        PROVE  DispatchStep({}, s, q[n]) \in R[n]
    <2> DEFINE W == Passed(q, n - 1)
               w == q[n]
    <2>1. n - 1 \in 0..Len(q) /\ n \in 0..Len(q)
      BY <1>1
    <2>2. s \in HandlerStates /\ Holds(s, n - 1)
      <3> HIDE DEF Holds
      <3> QED
        BY <2>1
    <2>3. PICK fill, first : Offered(st, s, W, fill, first)
      BY <2>2
    <2>4. /\ w \in Workers /\ w \notin W /\ Passed(q, n) = W \cup {w}
      BY <1>1, PassedTurns
    <2>5. W \in SUBSET Workers
      BY <1>1, PassedTurns DEF Passed
    <2> HIDE DEF W, w
    <2>6. CASE s.batch[w] = <<>>
      <3> DEFINE t == TryFill(s, w)
      <3>1. \E fill2, first2 : Offered(st, t, W \cup {w}, fill2, first2)
        BY <2>3, <2>4, <2>5, <2>6, OfferedOne
      <3> HIDE DEF t
      <3>2. Holds(t, n) /\ t \in HandlerStates
        <4>1. PICK fill2, first2 :
                Offered(st, t, W \cup {w}, fill2, first2)
          BY <3>1
        <4>2. Offered(st, t, Passed(q, n), fill2, first2)
          BY <2>4, <4>1
        <4>3. t \in HandlerStates
          BY <4>1 DEF Offered
        <4> QED
          BY <4>2, <4>3
      <3>3. DispatchStep({}, s, w) = t
        BY <2>6 DEF DispatchStep, t
      <3> HIDE DEF Holds
      <3> QED
        BY <2>1, <3>2, <3>3 DEF w
    <2>7. CASE s.batch[w] # <<>>
      <3>1. st.batch[w] # <<>>
        BY <2>3, <2>4, <2>7 DEF Offered
      <3>5. OfferedInOrder(st, s, W \cup {w}, fill)
        BY <2>3, <3>1 DEF Offered, OfferedInOrder
      <3>2. Offered(st, s, W \cup {w}, fill, first)
        BY <2>3, <2>4, <3>1, <3>5 DEF Offered
      <3>3. Holds(s, n)
        BY <2>4, <3>2
      <3>4. DispatchStep({}, s, w) = s
        BY <2>7 DEF DispatchStep
      <3> HIDE DEF Holds
      <3> QED
        BY <2>1, <2>2, <3>3, <3>4 DEF w
    <2> QED
      BY <2>6, <2>7
  <1>5. result \in R[Len(q)]
    <2> HIDE DEF R
    <2> QED
      BY <1>1, <1>2, <1>3, <1>4, Dispatching!LoopInvariant
  <1>6. Holds(result, Len(q))
    <2> HIDE DEF Holds
    <2> QED
      BY <1>1, <1>5
  <1> QED
    BY <1>1, <1>6, PassedTurns DEF result

-----------------------------------------------------------------------------
(* The requests are in one place each, and a handler starts from a state   *)
(* of the kind its calls are about.                                        *)
LEMMA OnePlaceEach ==
  ASSUME P!Inv
  PROVE  /\ \A w \in Workers : ToSet(queue) \cap ToSet(batch[w]) = {}
         /\ \A r \in pending : /\ r \notin ToSet(queue)
                               /\ \A w \in Workers : r \notin ToSet(batch[w])
         /\ \A v, w \in Workers : v # w => ToSet(batch[v]) \cap ToSet(batch[w]) = {}
  <1>1. P!ExactlyOnePlace
    BY DEF P!Inv
  <1> QED
    BY <1>1 DEF P!ExactlyOnePlace, P!Placed

LEMMA BeforeState ==
  ASSUME TypeOK
  PROVE  /\ Before \in HandlerStates
         /\ Before.queue = queue /\ Before.vt = virtualTime
         /\ Before.batch = batch /\ Before.gen = generated
         /\ Before.matched = matched /\ Before.cache = prefixCache
  BY DEF TypeOK, Before, HandlerStates

(* The state in which handleArrival calls tryDispatchAll.                  *)
Arrived(r) == [Before EXCEPT !.queue = Enqueue(policy, @, r)]

LEMMA ArrivedState ==
  ASSUME TypeOK, P!Inv, NEW r \in Requests, r \in pending
  PROVE  /\ Arrived(r) \in HandlerStates
         /\ IsInjective(Arrived(r).queue)
         /\ ToSet(Arrived(r).queue) = ToSet(queue) \cup {r}
         /\ Arrived(r).batch = batch /\ Arrived(r).gen = generated
         /\ Arrived(r).matched = matched /\ Arrived(r).cache = prefixCache
  <1> DEFINE q == Enqueue(policy, queue, r)
  <1>1. queue \in Seq(Requests) /\ IsInjective(queue) /\ r \notin ToSet(queue)
    BY OnePlaceEach DEF TypeOK
  <1>2. q \in Seq(Requests) /\ ToSet(q) = ToSet(queue) \cup {r} /\ IsInjective(q)
    BY <1>1, EnqueueAdds
  <1>3. Arrived(r) = [queue |-> q, vt |-> virtualTime, batch |-> batch,
                      gen |-> generated, matched |-> matched,
                      cache |-> prefixCache]
    BY DEF Arrived, Before
  <1> HIDE DEF q
  <1>4. Arrived(r) \in HandlerStates
    BY <1>2, <1>3 DEF HandlerStates, TypeOK
  <1> QED
    BY <1>2, <1>3, <1>4

LEMMA ArrivalDispatches ==
  ASSUME TypeOK, P!Inv, NEW r \in Requests, Arrival(r)
  PROVE  \E t, fill, first :
           /\ Offered(Arrived(r), t, Workers, fill, first)
           /\ Becomes(t)
           /\ steps' = [w \in Workers |->
                          IF batch[w] = <<>> /\ t.batch[w] # <<>>
                          THEN steps[w] + 1 ELSE steps[w]]
  <1> DEFINE st == Arrived(r)
  <1>1. PICK t : /\ t = DispatchAll(st)
                 /\ Becomes(t)
                 /\ steps' = [w \in Workers |->
                                IF batch[w] = <<>> /\ t.batch[w] # <<>>
                                THEN steps[w] + 1 ELSE steps[w]]
    BY DEF Arrival, Arrived
  <1>2. /\ st \in HandlerStates /\ IsInjective(st.queue) /\ st.batch = batch
        /\ \A w \in Workers : IsInjective(batch[w])
    BY ArrivedState DEF Arrival, TypeOK
  <1> HIDE DEF st
  <1>3. \E fill, first : Offered(st, DispatchAll(st), Workers, fill, first)
    BY <1>2, DispatchAllAdmits
  <1> QED
    BY <1>1, <1>3 DEF st

(* Extensionality, for the caches that AddRefs and RemoveRefs describe.    *)
LEMMA CacheEqual ==
  ASSUME NEW c \in [PrefixIDs -> PrefixState],
         NEW cache, NEW F, NEW first,
         \A p \in PrefixIDs : c[p] = P!AddRefs(cache, F, first)[p]
  PROVE  c = P!AddRefs(cache, F, first)
  <1> DEFINE d == P!AddRefs(cache, F, first)
  <1>1. d = [p \in PrefixIDs |-> d[p]]
    BY DEF P!AddRefs
  <1> HIDE DEF d
  <1> QED
    BY <1>1 DEF d

LEMMA CacheEqualLess ==
  ASSUME NEW c \in [PrefixIDs -> PrefixState], NEW cache, NEW S,
         \A p \in PrefixIDs : c[p] = P!RemoveRefs(cache, S)[p]
  PROVE  c = P!RemoveRefs(cache, S)
  <1> DEFINE d == P!RemoveRefs(cache, S)
  <1>1. d = [p \in PrefixIDs |-> d[p]]
    BY DEF P!RemoveRefs
  <1> HIDE DEF d
  <1> QED
    BY <1>1 DEF d

LEMMA ArrivalAdmits ==
  ASSUME TypeOK, P!Inv, NEW r \in Requests, r \in pending,
         NEW t, NEW fill, NEW first,
         Offered(Arrived(r), t, Workers, fill, first), Becomes(t)
  PROVE  P!Admit(P!IdleWorkers, ToSet(queue) \cup {r},
                 [w \in Workers |-> ToSet(batch[w])], prefixCache, generated,
                 fill)
  <1> DEFINE st == Arrived(r)
             kept == [w \in Workers |-> ToSet(batch[w])]
             hit(s) == LET w == CHOOSE v \in Workers : s \in fill[v]
                       IN  P!PrefixHit(prefixCache[w], first[w], s)
             joins(s) == PrefixID[s] # NoPrefix /\ \E w \in Workers : s \in fill[w]
  <1>1. /\ st \in HandlerStates
        /\ ToSet(st.queue) = ToSet(queue) \cup {r}
        /\ st.batch = batch /\ st.gen = generated
        /\ st.matched = matched /\ st.cache = prefixCache
    BY ArrivedState
  <1> HIDE DEF st
  <1>2. /\ queue' = t.queue /\ batch' = t.batch
        /\ matched' = t.matched /\ prefixCache' = t.cache
    BY DEF Becomes
  <1>3. /\ t \in HandlerStates
        /\ ToSet(t.queue) = ToSet(st.queue) \ UNION {fill[w] : w \in Workers}
        /\ \A v, w \in Workers : v # w => fill[v] \cap fill[w] = {}
        /\ \A w \in Workers : st.batch[w] # <<>> => fill[w] = {}
        /\ first \in [Workers -> [PrefixIDs -> Requests]]
    BY DEF Offered, st
  <1>4. /\ \A w \in Workers :
             /\ ToSet(t.batch[w]) = ToSet(st.batch[w]) \cup fill[w]
             /\ FirstUsers(first[w], fill[w])
             /\ \A p \in PrefixIDs :
                  t.cache[w][p] = P!AddRefs(st.cache[w], fill[w], first[w])[p]
             /\ \A s \in fill[w] : PrefixID[s] # NoPrefix =>
                  t.matched[s] = P!PrefixHit(st.cache[w], first[w], s)
        /\ \A s \in Requests :
             PrefixID[s] = NoPrefix \/ (\A w \in Workers : s \notin fill[w]) =>
               t.matched[s] = st.matched[s]
    BY DEF Offered, st
  <1>5. \A w \in Workers : batch[w] = <<>> <=> ToSet(batch[w]) = {}
    BY MembersOf DEF TypeOK
  <1>6. \A w \in Workers : w \notin P!IdleWorkers => fill[w] = {}
    BY <1>1, <1>3, <1>5 DEF P!IdleWorkers
  <1>7. ToSet(queue')
          = P!LeftInQueue(ToSet(queue) \cup {r}, UNION {fill[w] : w \in Workers})
    BY <1>1, <1>2, <1>3 DEF P!LeftInQueue
  <1>8. [w \in Workers |-> ToSet(batch'[w])]
          = [w \in Workers |-> kept[w] \cup fill[w]]
    BY <1>1, <1>2, <1>4
  <1>9. \A w \in P!IdleWorkers :
          P!Fits(kept[w], fill[w],
                 P!UsedTokens(kept[w], generated, matched, prefixCache[w]))
    <2> TAKE w \in P!IdleWorkers
    <2>1. w \in Workers /\ kept[w] = {} /\ batch[w] = <<>>
      BY <1>5 DEF P!IdleWorkers
    <2>2. P!Fits({}, fill[w], IdleUse(st, w))
      BY <1>1, <2>1 DEF Offered, st
    <2>3. IdleUse(st, w)
            = P!UsedTokens({}, generated, matched, prefixCache[w])
      BY <1>1, SameSums DEF IdleUse
    <2> QED
      BY <2>1, <2>2, <2>3
  <1>10. \A w \in Workers, p \in PrefixIDs :
           P!Users(fill[w], p) # {} => first[w][p] \in P!Users(fill[w], p)
    BY <1>4, SameModel DEF FirstUsers
  <1>11. prefixCache' =
           [w \in Workers |-> P!AddRefs(prefixCache[w], fill[w], first[w])]
    <2>1. t.cache \in [Workers -> [PrefixIDs -> PrefixState]]
      BY <1>3 DEF HandlerStates
    <2>2. ASSUME NEW w \in Workers
          PROVE  t.cache[w] = P!AddRefs(prefixCache[w], fill[w], first[w])
      <3>1. t.cache[w] \in [PrefixIDs -> PrefixState]
        BY <2>1
      <3>2. \A p \in PrefixIDs :
              t.cache[w][p] = P!AddRefs(prefixCache[w], fill[w], first[w])[p]
        BY <1>1, <1>4
      <3> QED
        BY <3>1, <3>2, CacheEqual
    <2> QED
      BY <1>2, <2>1, <2>2
  <1>12. ASSUME NEW s \in Requests
         PROVE  t.matched[s] = IF joins(s) THEN hit(s) ELSE matched[s]
    <2>1. CASE joins(s)
      <3> DEFINE w == CHOOSE v \in Workers : s \in fill[v]
      <3>1. w \in Workers /\ s \in fill[w]
        BY <2>1
      <3> HIDE DEF w
      <3>2. t.matched[s] = P!PrefixHit(prefixCache[w], first[w], s)
        BY <1>1, <1>4, <2>1, <3>1
      <3> QED
        BY <2>1, <3>2 DEF w
    <2>2. CASE ~joins(s)
      BY <1>1, <1>4, <2>2
    <2> QED
      BY <2>1, <2>2
  <1>13. matched' = [s \in Requests |-> IF joins(s) THEN hit(s) ELSE matched[s]]
    <2>1. t.matched \in [Requests -> Nat]
      BY <1>3 DEF HandlerStates
    <2> HIDE DEF joins, hit
    <2> QED
      BY <1>2, <1>12, <2>1
  <1> QED
    BY <1>3, <1>6, <1>7, <1>8, <1>9, <1>10, <1>11, <1>13 DEF P!Admit

LEMMA ArrivalImplements ==
  ASSUME TypeOK, P!Inv, NEW r \in Requests, Arrival(r)
  PROVE  P!Arrival(r) /\ TypeOK'
  <1>1. PICK t, fill, first :
          /\ Offered(Arrived(r), t, Workers, fill, first)
          /\ Becomes(t)
          /\ steps' = [w \in Workers |->
                         IF batch[w] = <<>> /\ t.batch[w] # <<>>
                         THEN steps[w] + 1 ELSE steps[w]]
    BY ArrivalDispatches
  <1>2. r \in pending /\ pending' = pending \ {r} /\ UNCHANGED <<done, completed>>
    BY DEF Arrival
  <1>3. /\ queue' = t.queue /\ virtualTime' = t.vt /\ batch' = t.batch
        /\ generated' = t.gen /\ matched' = t.matched
        /\ prefixCache' = t.cache /\ policy' = policy
    BY <1>1 DEF Becomes
  <1>4. /\ ToSet(Arrived(r).queue) = ToSet(queue) \cup {r}
        /\ Arrived(r).batch = batch /\ Arrived(r).gen = generated
    BY <1>2, ArrivedState
  <1>5. /\ t \in HandlerStates /\ t.gen = generated /\ IsInjective(t.queue)
        /\ fill \in [Workers -> SUBSET (ToSet(queue) \cup {r})]
        /\ \A w \in Workers :
             /\ IsInjective(t.batch[w])
             /\ ToSet(t.batch[w]) = ToSet(batch[w]) \cup fill[w]
             /\ batch[w] # <<>> => fill[w] = {}
    BY <1>1, <1>4 DEF Offered
  <1>6. /\ t.queue \in Seq(Requests) /\ t.vt \in [Tiers -> Nat]
        /\ t.batch \in [Workers -> Seq(Requests)]
        /\ t.gen \in [Requests -> Nat] /\ t.matched \in [Requests -> Nat]
        /\ t.cache \in [Workers -> [PrefixIDs -> PrefixState]]
    BY <1>5 DEF HandlerStates
  <1>7. steps' = [w \in Workers |->
                    IF fill[w] # {} THEN steps[w] + 1 ELSE steps[w]]
    <2>1. ASSUME NEW w \in Workers
          PROVE  fill[w] # {} <=> batch[w] = <<>> /\ t.batch[w] # <<>>
      <3>1. batch[w] \in Seq(Requests) /\ t.batch[w] \in Seq(Requests)
        BY <1>6 DEF TypeOK
      <3>2. /\ ToSet(batch[w]) = {} <=> batch[w] = <<>>
            /\ ToSet(t.batch[w]) = {} <=> t.batch[w] = <<>>
        BY <3>1, MembersOf
      <3> QED
        BY <1>5, <3>2
    <2> QED
      BY <1>1, <2>1
  <1>8. P!Admit(P!IdleWorkers, ToSet(queue) \cup {r},
                [w \in Workers |-> ToSet(batch[w])], prefixCache, generated,
                fill)
    BY <1>1, <1>2, ArrivalAdmits
  <1>9. P!ArrivalWith(r, fill)
    BY <1>2, <1>3, <1>5, <1>7, <1>8 DEF P!ArrivalWith
  <1>10. P!Arrival(r)
    BY <1>2, <1>5, <1>9 DEF P!Arrival
  <1>11. steps' \in [Workers -> Nat]
    BY <1>7 DEF TypeOK
  <1>12. TypeOK'
    BY <1>2, <1>3, <1>5, <1>6, <1>11 DEF TypeOK
  <1> QED
    BY <1>10, <1>12

-----------------------------------------------------------------------------
(* handleTokenStepDone, call by call.                                      *)
LEMMA AdvanceEffect ==
  ASSUME TypeOK, NEW w \in Workers
  PROVE  LET st == Advance(Before, w) IN
         /\ st \in HandlerStates
         /\ st.queue = queue /\ st.vt = virtualTime /\ st.batch = batch
         /\ st.matched = matched /\ st.cache = prefixCache
         /\ st.gen = P!Advanced(w)
  <1> DEFINE gen == [r \in Requests |->
                       IF r \in ToSet(batch[w]) THEN generated[r] + 1
                       ELSE generated[r]]
  <1>1. Advance(Before, w) = [queue |-> queue, vt |-> virtualTime,
                              batch |-> batch, gen |-> gen,
                              matched |-> matched, cache |-> prefixCache]
    BY DEF Advance, Before
  <1>2. gen = P!Advanced(w)
    BY DEF P!Advanced
  <1>3. gen \in [Requests -> Nat]
    BY DEF TypeOK
  <1> HIDE DEF gen
  <1>4. Advance(Before, w) \in HandlerStates
    BY <1>1, <1>3 DEF HandlerStates, TypeOK
  <1> QED
    BY <1>1, <1>2, <1>4

(* What the whole step does: S is complete, V is preempted, F is admitted. *)
Stepped(w, t, S, V, F, first) ==
  LET cache == P!RemoveRefs(P!RemoveRefs(prefixCache[w], S), V)
      gen == [r \in Requests |-> IF r \in V THEN 0 ELSE P!Advanced(w)[r]]
  IN
  /\ t \in HandlerStates
  /\ S = P!Finished(w)
  /\ V \subseteq P!Active(w)
  /\ P!Evicted(P!Active(w), V, P!Advanced(w), P!RemoveRefs(prefixCache[w], S))
  /\ F \subseteq ToSet(queue) \cup V
  /\ IsInjective(t.queue)
  /\ ToSet(t.queue) = (ToSet(queue) \cup V) \ F
  /\ IsInjective(t.batch[w])
  /\ ToSet(t.batch[w]) = (P!Active(w) \ V) \cup F
  /\ t.gen = gen
  /\ \A v \in Workers : v # w => /\ t.batch[v] = batch[v]
                                 /\ t.cache[v] = prefixCache[v]
  /\ FirstUsers(first, F)
  /\ t.cache[w] = P!AddRefs(cache, F, first)
  /\ \A r \in Requests :
       t.matched[r] = IF r \in F /\ PrefixID[r] # NoPrefix
                      THEN P!PrefixHit(cache, first, r) ELSE matched[r]
  /\ P!Fits(P!Active(w) \ V, F,
            UsedTokens(P!Active(w) \ V, gen, matched, cache))
  /\ policy # "wfq" /\ P!Active(w) \ V = {} /\ F = {} =>
       \A r \in ToSet(queue) \cup V :
         WorstTokens[r] > MemoryTokens - UsedTokens({}, gen, matched, cache)
  /\ ~PagedAttention =>
       ServedInOrder(queue, t.queue, F,
                     UsedTokens(P!Active(w) \ V, gen, matched, cache))

LEMMA ReleasedCache ==
  ASSUME NEW st, NEW t, NEW w \in Workers, NEW S, Released(st, t, w, S)
  PROVE  t.cache[w] = P!RemoveRefs(st.cache[w], S)
  <1>1. t.cache[w] \in [PrefixIDs -> PrefixState]
    BY DEF Released, HandlerStates
  <1>2. \A p \in PrefixIDs : t.cache[w][p] = P!RemoveRefs(st.cache[w], S)[p]
    BY DEF Released
  <1> QED
    BY <1>1, <1>2, CacheEqualLess

(* The OOM loop evicts as Serving says.                                    *)
LEMMA PreemptedEvicts ==
  ASSUME NEW st \in HandlerStates, NEW w \in Workers, NEW t, NEW V,
         Preempted(st, t, w, V), ~OutOfMemory(t, w), st.matched = matched
  PROVE  P!Evicted(ToSet(st.batch[w]), V, st.gen, st.cache[w])
  <1> DEFINE B == ToSet(st.batch[w])
  <1>1. V # {} => PagedAttention
    BY DEF Preempted
  <1>2. \A v \in V, s \in B \ V : st.gen[v] <= st.gen[s]
    BY DEF Preempted
  <1>3. ASSUME PagedAttention, B \ V # {}
        PROVE  P!UsedTokens(B \ V, st.gen, matched,
                            P!RemoveRefs(st.cache[w], V)) <= MemoryTokens
    <2>1. t \in HandlerStates /\ ToSet(t.batch[w]) = B \ V
      BY DEF Preempted, Released
    <2>2. t.batch[w] \in Seq(Requests)
      BY <2>1 DEF HandlerStates
    <2>3. t.batch[w] # <<>>
      BY <1>3, <2>1, <2>2, MembersOf
    <2>4. ~(UsedMemory(t, w) > MemoryTokens)
      BY <1>3, <2>3 DEF OutOfMemory
    <2>5. UsedMemory(t, w) \in Int /\ MemoryTokens \in Int
      BY <2>1, UsedMemoryType, ModelAssumption
    <2>6. UsedMemory(t, w) = UsedTokens(B \ V, st.gen, st.matched,
                                        P!RemoveRefs(st.cache[w], V))
      BY PreemptedUses
    <2>7. UsedMemory(t, w) <= MemoryTokens
      BY <2>4, <2>5
    <2> QED
      BY <2>6, <2>7, SameSums
  <1>4. V # {} => \E last \in V :
          /\ \A v \in V : st.gen[v] <= st.gen[last]
          /\ P!UsedTokens((B \ V) \cup {last}, st.gen, matched,
                          P!RemoveRefs(st.cache[w], V \ {last})) > MemoryTokens
    BY SameSums DEF Preempted
  <1> QED
    BY <1>1, <1>2, <1>3, <1>4 DEF P!Evicted

LEMMA StepCalls ==
  ASSUME TypeOK, P!Inv, NEW w \in Workers, TokenStepDone(w)
  PROVE  \E t, S, V, F, first :
           /\ Stepped(w, t, S, V, F, first)
           /\ Becomes(t)
           /\ done' = done \cup S
           /\ completed' = completed + Cardinality(S)
           /\ steps' = [steps EXCEPT ![w] =
                          IF t.batch[w] # <<>> THEN @ ELSE @ - 1]
  <1> DEFINE a == Advance(Before, w)
             f == CompletedOf(a, w)
             c == RemoveCompleted(a, w)
             e == EvictLoop(c, w)
             t == TryFill(e, w)
             S == ToSet(f)
  <1>1. /\ steps[w] > 0
        /\ Becomes(t)
        /\ done' = done \cup S
        /\ completed' = completed + Len(f)
        /\ steps' = [steps EXCEPT ![w] =
                       IF t.batch[w] # <<>> THEN @ ELSE @ - 1]
    BY DEF TokenStepDone, RecordCompletion
  <1>2. /\ a \in HandlerStates
        /\ a.queue = queue /\ a.vt = virtualTime /\ a.batch = batch
        /\ a.matched = matched /\ a.cache = prefixCache
        /\ a.gen = P!Advanced(w)
    BY AdvanceEffect
  <1> HIDE DEF a
  <1>3. /\ IsInjective(a.batch[w]) /\ IsInjective(a.queue)
        /\ ToSet(queue) \cap ToSet(batch[w]) = {}
    BY <1>2, OnePlaceEach DEF TypeOK
  <1>4. /\ f \in Seq(Requests) /\ IsInjective(f)
        /\ S = {r \in ToSet(a.batch[w]) : IsComplete(a.gen, r)}
    BY <1>2, <1>3, CompletedOfBatch
  <1>5. /\ Released(a, c, w, S)
        /\ c.queue = a.queue /\ c.gen = a.gen
    BY <1>2, <1>3, RemoveCompletedReleases
  <1> HIDE DEF c, f
  <1>6. Cardinality(S) = Len(f)
    BY <1>4, InjectiveLength
  <1> HIDE DEF S
  <1>7. S = P!Finished(w)
    BY <1>2, <1>4, SameModel DEF P!Finished
  <1>8. /\ c \in HandlerStates /\ IsInjective(c.batch[w])
        /\ ToSet(c.batch[w]) = P!Active(w)
        /\ c.matched = matched
        /\ \A v \in Workers : v # w => /\ c.batch[v] = batch[v]
                                       /\ c.cache[v] = prefixCache[v]
    BY <1>2, <1>5, <1>7 DEF Released, P!Active
  <1>9. c.cache[w] = P!RemoveRefs(prefixCache[w], S)
    BY <1>2, <1>5, ReleasedCache
  <1>10. /\ IsInjective(c.queue) /\ ToSet(c.queue) = ToSet(queue)
         /\ ToSet(c.queue) \cap ToSet(c.batch[w]) = {}
    BY <1>2, <1>3, <1>5, <1>8 DEF P!Active
  <1>11. PICK V : Preempted(c, e, w, V) /\ ~OutOfMemory(e, w)
    BY <1>8, <1>10, EvictLoopPreempts
  <1>29. ~PagedAttention => e = c
    <2>1. c.batch[w] \in Seq(Requests)
      BY <1>8 DEF HandlerStates
    <2> QED
      BY <2>1, EvictLoopIdle
  <1> HIDE DEF e
  <1>12. P!Evicted(P!Active(w), V, P!Advanced(w),
                   P!RemoveRefs(prefixCache[w], S))
    BY <1>2, <1>5, <1>8, <1>9, <1>11, PreemptedEvicts
  <1>13. /\ V \subseteq P!Active(w)
         /\ Released(c, e, w, V)
         /\ IsInjective(e.queue)
         /\ ToSet(e.queue) = ToSet(queue) \cup V
         /\ e.gen = [r \in Requests |-> IF r \in V THEN 0 ELSE P!Advanced(w)[r]]
    BY <1>2, <1>5, <1>8, <1>10, <1>11 DEF Preempted
  <1>14. /\ e \in HandlerStates /\ e.matched = matched
         /\ IsInjective(e.batch[w])
         /\ ToSet(e.batch[w]) = P!Active(w) \ V
         /\ \A v \in Workers : v # w => /\ e.batch[v] = batch[v]
                                        /\ e.cache[v] = prefixCache[v]
    BY <1>8, <1>13 DEF Released
  <1>15. e.cache[w] = P!RemoveRefs(P!RemoveRefs(prefixCache[w], S), V)
    BY <1>9, <1>13, ReleasedCache
  <1>16. ToSet(e.queue) \cap ToSet(e.batch[w]) = {}
    BY <1>8, <1>10, <1>13, <1>14
  <1>17. Requests # {}
    <2>1. steps[w] = IF ToSet(batch[w]) = {} THEN 0 ELSE 1
      BY DEF P!Inv, P!StepPerBusyWorker
    <2>2. ToSet(batch[w]) \in SUBSET Requests
      BY DEF TypeOK, ToSet
    <2> QED
      BY <1>1, <2>1, <2>2
  <1>18. PICK F, first : Admitted(e, t, w, F, first)
    BY <1>13, <1>14, <1>16, <1>17, TryFillAdmits
  <1> HIDE DEF t
  <1>19. Filled(e, t, w, F, first)
    BY <1>18 DEF Admitted
  <1>20. /\ F \subseteq ToSet(queue) \cup V
         /\ IsInjective(t.queue)
         /\ ToSet(t.queue) = (ToSet(queue) \cup V) \ F
    BY <1>13, <1>18 DEF Admitted
  <1> DEFINE cache == P!RemoveRefs(P!RemoveRefs(prefixCache[w], S), V)
             gen == [r \in Requests |-> IF r \in V THEN 0 ELSE P!Advanced(w)[r]]
  <1>21. UsedMemory(e, w) = UsedTokens(P!Active(w) \ V, gen, matched, cache)
    BY <1>13, <1>14, <1>15 DEF UsedMemory
  <1>22. /\ P!Fits(P!Active(w) \ V, F, UsedMemory(e, w))
         /\ policy # "wfq" /\ P!Active(w) \ V = {} /\ F = {} =>
              \A r \in ToSet(queue) \cup V :
                WorstTokens[r] > MemoryTokens - UsedMemory(e, w)
    BY <1>13, <1>14, <1>18 DEF Admitted
  <1>23. t \in HandlerStates /\ t.gen = gen
    BY <1>13, <1>19 DEF Filled
  <1>24. /\ IsInjective(t.batch[w])
         /\ ToSet(t.batch[w]) = (P!Active(w) \ V) \cup F
         /\ FirstUsers(first, F)
         /\ \A v \in Workers : v # w => /\ t.batch[v] = batch[v]
                                        /\ t.cache[v] = prefixCache[v]
    BY <1>14, <1>19 DEF Filled
  <1>25. t.cache[w] = P!AddRefs(cache, F, first)
    <2> HIDE DEF cache
    <2>1. \A p \in PrefixIDs : t.cache[w][p] = P!AddRefs(cache, F, first)[p]
      BY <1>15, <1>19 DEF Filled, cache
    <2>2. t.cache[w] \in [PrefixIDs -> PrefixState]
      BY <1>23 DEF HandlerStates
    <2> QED
      BY <2>1, <2>2, CacheEqual
  <1>26. \A r \in Requests :
           t.matched[r] = IF r \in F /\ PrefixID[r] # NoPrefix
                          THEN P!PrefixHit(cache, first, r) ELSE matched[r]
    BY <1>14, <1>15, <1>19 DEF Filled
  <1>27. /\ P!Fits(P!Active(w) \ V, F,
                   UsedTokens(P!Active(w) \ V, gen, matched, cache))
         /\ policy # "wfq" /\ P!Active(w) \ V = {} /\ F = {} =>
              \A r \in ToSet(queue) \cup V :
                WorstTokens[r]
                  > MemoryTokens - UsedTokens({}, gen, matched, cache)
    BY <1>21, <1>22
  <1>30. ~PagedAttention =>
           ServedInOrder(queue, t.queue, F,
                         UsedTokens(P!Active(w) \ V, gen, matched, cache))
    <2>1. ServedInOrder(e.queue, t.queue, F, UsedMemory(e, w))
      BY <1>18 DEF Admitted
    <2>2. ~PagedAttention => e.queue = queue
      BY <1>2, <1>5, <1>29
    <2> QED
      BY <1>21, <2>1, <2>2
  <1>28. Stepped(w, t, S, V, F, first)
    BY <1>7, <1>12, <1>13, <1>20, <1>23, <1>24, <1>25, <1>26, <1>27, <1>30
       DEF Stepped
  <1> HIDE DEF cache, gen
  <1> QED
    BY <1>1, <1>6, <1>28

LEMMA StepAdmits ==
  ASSUME TypeOK, NEW w \in Workers, NEW t, NEW S, NEW V, NEW F, NEW first,
         Stepped(w, t, S, V, F, first), Becomes(t)
  PROVE  LET gen == P!Restarted(P!Advanced(w), V) IN
         /\ generated' = gen
         /\ P!Admit({w}, ToSet(queue) \cup V,
                    [[v \in Workers |-> ToSet(batch[v])]
                       EXCEPT ![w] = P!Active(w) \ V],
                    [prefixCache EXCEPT ![w] =
                       P!RemoveRefs(P!RemoveRefs(prefixCache[w], S), V)],
                    gen, [v \in Workers |-> IF v = w THEN F ELSE {}])
  <1> DEFINE gen == P!Restarted(P!Advanced(w), V)
             sets == [v \in Workers |-> ToSet(batch[v])]
             kept == [sets EXCEPT ![w] = P!Active(w) \ V]
             c == P!RemoveRefs(P!RemoveRefs(prefixCache[w], S), V)
             cache == [prefixCache EXCEPT ![w] = c]
             fill == [v \in Workers |-> IF v = w THEN F ELSE {}]
             firsts == [v \in Workers |-> first]
             hit(s) == LET v == CHOOSE v \in Workers : s \in fill[v]
                       IN  P!PrefixHit(cache[v], firsts[v], s)
             joins(s) == PrefixID[s] # NoPrefix /\ \E v \in Workers : s \in fill[v]
  <1>1. /\ queue' = t.queue /\ batch' = t.batch /\ generated' = t.gen
        /\ matched' = t.matched /\ prefixCache' = t.cache
    BY DEF Becomes
  <1>2. generated' = gen
    BY <1>1 DEF Stepped, P!Restarted
  <1>3. /\ t \in HandlerStates
        /\ F \subseteq ToSet(queue) \cup V
        /\ ToSet(t.queue) = (ToSet(queue) \cup V) \ F
        /\ ToSet(t.batch[w]) = (P!Active(w) \ V) \cup F
        /\ \A v \in Workers : v # w => /\ t.batch[v] = batch[v]
                                       /\ t.cache[v] = prefixCache[v]
        /\ FirstUsers(first, F)
        /\ t.cache[w] = P!AddRefs(c, F, first)
        /\ \A r \in Requests :
             t.matched[r] = IF r \in F /\ PrefixID[r] # NoPrefix
                            THEN P!PrefixHit(c, first, r) ELSE matched[r]
    BY DEF Stepped
  <1>4. P!Fits(P!Active(w) \ V, F,
               P!UsedTokens(P!Active(w) \ V, gen, matched, c))
    BY SameSums DEF Stepped, P!Restarted
  <1>5. /\ t.batch \in [Workers -> Seq(Requests)]
        /\ t.cache \in [Workers -> [PrefixIDs -> PrefixState]]
        /\ t.matched \in [Requests -> Nat]
    BY <1>3 DEF HandlerStates
  <1>6. prefixCache \in [Workers -> [PrefixIDs -> PrefixState]]
    BY DEF TypeOK
  <1> HIDE DEF c, gen
  <1>7. /\ kept[w] = P!Active(w) \ V /\ cache[w] = c /\ fill[w] = F
        /\ \A v \in Workers : v # w => /\ kept[v] = ToSet(batch[v])
                                       /\ cache[v] = prefixCache[v]
                                       /\ fill[v] = {}
    BY <1>6
  <1>8. UNION {fill[v] : v \in Workers} = F
    OBVIOUS
  <1>9. \A v \in Workers : v \notin {w} => fill[v] = {}
    OBVIOUS
  <1>10. \A v, x \in Workers : v # x => fill[v] \cap fill[x] = {}
    OBVIOUS
  <1>11. kept = [v \in Workers |-> kept[v]]
    OBVIOUS
  <1> HIDE DEF kept, cache, fill
  <1>12. ToSet(queue')
           = P!LeftInQueue(ToSet(queue) \cup V, UNION {fill[v] : v \in Workers})
    BY <1>1, <1>3, <1>8 DEF P!LeftInQueue
  <1>13. [v \in Workers |-> ToSet(batch'[v])]
           = [v \in Workers |-> kept[v] \cup fill[v]]
    <2>1. \A v \in Workers : ToSet(batch'[v]) = kept[v] \cup fill[v]
      BY <1>1, <1>3, <1>7
    <2> QED
      BY <2>1
  <1>14. \A v \in {w} :
           P!Fits(kept[v], fill[v],
                  P!UsedTokens(kept[v], gen, matched, cache[v]))
    BY <1>4, <1>7
  <1>15. /\ firsts \in [Workers -> [PrefixIDs -> Requests]]
         /\ \A v \in Workers, p \in PrefixIDs :
              P!Users(fill[v], p) # {} => firsts[v][p] \in P!Users(fill[v], p)
    <2>1. \A p : Users({}, p) = {}
      BY DEF Users
    <2> QED
      BY <1>3, <1>7, <2>1, SameModel DEF FirstUsers
  <1>16. \A v \in Workers : firsts[v] = first
    OBVIOUS
  <1> HIDE DEF firsts
  <1>17. prefixCache' =
           [v \in Workers |-> P!AddRefs(cache[v], fill[v], firsts[v])]
    <2>1. ASSUME NEW v \in Workers
          PROVE  t.cache[v] = P!AddRefs(cache[v], fill[v], firsts[v])
      <3>1. CASE v = w
        BY <1>3, <1>7, <1>16, <3>1
      <3>2. CASE v # w
        <4> DEFINE none == {}
        <4>1. t.cache[v] = cache[v] /\ t.cache[v] \in [PrefixIDs -> PrefixState]
          BY <1>3, <1>5, <1>7, <3>2
        <4>2. \A p \in PrefixIDs : Cardinality(Users(none, p)) = 0
          BY FS_EmptySet DEF Users
        <4> HIDE DEF none
        <4> DEFINE d == cache[v]
                   f == firsts[v]
        <4> HIDE DEF d, f
        <4>3. ASSUME NEW p \in PrefixIDs
              PROVE  P!AddRefs(d, none, f)[p] = d[p]
          BY <4>2, AddRefsAt
        <4>4. \A p \in PrefixIDs :
                t.cache[v][p] = P!AddRefs(cache[v], none, firsts[v])[p]
          BY <4>1, <4>3 DEF d, f
        <4>5. t.cache[v] = P!AddRefs(cache[v], none, firsts[v])
          BY <4>1, <4>4, CacheEqual
        <4> QED
          BY <1>7, <3>2, <4>5 DEF none
      <3> QED
        BY <3>1, <3>2
    <2> QED
      BY <1>1, <1>5, <2>1
  <1>18. ASSUME NEW s \in Requests
         PROVE  t.matched[s] = IF joins(s) THEN hit(s) ELSE matched[s]
    <2>1. \A v \in Workers : s \in fill[v] <=> v = w /\ s \in F
      BY <1>7
    <2>2. CASE joins(s)
      <3> DEFINE v == CHOOSE v \in Workers : s \in fill[v]
      <3>1. v \in Workers /\ s \in fill[v]
        BY <2>2
      <3> HIDE DEF v
      <3>2. v = w /\ s \in F
        BY <2>1, <3>1
      <3>3. t.matched[s] = P!PrefixHit(cache[v], firsts[v], s)
        BY <1>3, <1>7, <1>16, <2>2, <3>2
      <3> QED
        BY <2>2, <3>3 DEF v
    <2>3. CASE ~joins(s)
      BY <1>3, <2>1, <2>3
    <2> QED
      BY <2>2, <2>3
  <1>19. matched' = [s \in Requests |-> IF joins(s) THEN hit(s) ELSE matched[s]]
    <2> HIDE DEF joins, hit
    <2> QED
      BY <1>1, <1>5, <1>18
  <1>20. P!Admit({w}, ToSet(queue) \cup V, kept, cache, gen, fill)
    BY <1>9, <1>10, <1>12, <1>13, <1>14, <1>15, <1>17, <1>19 DEF P!Admit
  <1> QED
    BY <1>2, <1>20 DEF kept, cache, fill, gen, c

LEMMA StepImplements ==
  ASSUME TypeOK, P!Inv, NEW w \in Workers, TokenStepDone(w)
  PROVE  P!TokenStepDone(w) /\ TypeOK'
  <1>1. PICK t, S, V, F, first :
          /\ Stepped(w, t, S, V, F, first)
          /\ Becomes(t)
          /\ done' = done \cup S
          /\ completed' = completed + Cardinality(S)
          /\ steps' = [steps EXCEPT ![w] =
                         IF t.batch[w] # <<>> THEN @ ELSE @ - 1]
    BY StepCalls
  <1>2. /\ queue' = t.queue /\ virtualTime' = t.vt /\ batch' = t.batch
        /\ generated' = t.gen /\ matched' = t.matched
        /\ prefixCache' = t.cache /\ policy' = policy
    BY <1>1 DEF Becomes
  <1>3. /\ t \in HandlerStates
        /\ S = P!Finished(w)
        /\ V \subseteq P!Active(w)
        /\ P!Evicted(P!Active(w), V, P!Advanced(w),
                     P!RemoveRefs(prefixCache[w], S))
        /\ F \subseteq ToSet(queue) \cup V
        /\ IsInjective(t.queue)
        /\ IsInjective(t.batch[w])
        /\ ToSet(t.batch[w]) = (P!Active(w) \ V) \cup F
        /\ \A v \in Workers : v # w => t.batch[v] = batch[v]
    BY <1>1 DEF Stepped
  <1>4. /\ t.queue \in Seq(Requests) /\ t.vt \in [Tiers -> Nat]
        /\ t.batch \in [Workers -> Seq(Requests)]
        /\ t.gen \in [Requests -> Nat] /\ t.matched \in [Requests -> Nat]
        /\ t.cache \in [Workers -> [PrefixIDs -> PrefixState]]
    BY <1>3 DEF HandlerStates
  <1>5. t.batch[w] # <<>> <=> (P!Active(w) \ V) \cup F # {}
    <2>1. t.batch[w] \in Seq(Requests)
      BY <1>4
    <2>2. ToSet(t.batch[w]) = {} <=> t.batch[w] = <<>>
      BY <2>1, MembersOf
    <2> QED
      BY <1>3, <2>2
  <1>6. steps[w] > 0 /\ UNCHANGED pending
    BY DEF TokenStepDone
  <1>7. /\ generated' = P!Restarted(P!Advanced(w), V)
        /\ P!Admit({w}, ToSet(queue) \cup V,
                   [[v \in Workers |-> ToSet(batch[v])]
                      EXCEPT ![w] = P!Active(w) \ V],
                   [prefixCache EXCEPT ![w] =
                      P!RemoveRefs(P!RemoveRefs(prefixCache[w], S), V)],
                   P!Restarted(P!Advanced(w), V),
                   [v \in Workers |-> IF v = w THEN F ELSE {}])
    BY <1>1, StepAdmits
  <1>8. steps' = [steps EXCEPT ![w] =
                    IF (P!Active(w) \ V) \cup F # {} THEN @ ELSE @ - 1]
    BY <1>1, <1>5
  <1>9. completed' = completed + P!Cardinality(P!Finished(w))
    BY <1>1, <1>3, SameModel
  <1>10. P!StepWith(w, V, F)
    BY <1>1, <1>3, <1>6, <1>7, <1>8, <1>9 DEF P!StepWith
  <1>11. P!TokenStepDone(w)
    BY <1>3, <1>6, <1>10 DEF P!TokenStepDone
  <1>12. steps' \in [Workers -> Nat]
    BY <1>6, <1>8 DEF TypeOK
  <1>13. done' \in SUBSET Requests /\ completed' \in Nat
    <2>1. S \in SUBSET Requests
      BY <1>3 DEF P!Finished, TypeOK, ToSet
    <2>2. Cardinality(S) \in Nat
      BY <2>1, ModelAssumption, FS_Subset, FS_CardinalityType
    <2> QED
      BY <1>1, <2>1, <2>2 DEF TypeOK
  <1>14. TypeOK'
    BY <1>2, <1>3, <1>4, <1>6, <1>12, <1>13 DEF TypeOK
  <1> QED
    BY <1>11, <1>14

-----------------------------------------------------------------------------
(* Both invariants together are inductive: the steps of the handlers are   *)
(* steps of Serving only where requests are in one place each.             *)
LEMMA InitBoth == Init => TypeOK /\ P!Init
  <1> SUFFICES ASSUME Init
               PROVE  TypeOK /\ P!Init
    OBVIOUS
  <1>1. ToSet(<<>>) = {} /\ IsInjective(<<>>) /\ <<>> \in Seq(Requests)
    BY DEF ToSet, IsInjective
  <1>2. TypeOK
    BY <1>1, EngineAssumption DEF Init, TypeOK, EmptyCache, NoEntry, PrefixState
  <1>3. P!Init
    BY <1>1, SameModel DEF Init, P!Init
  <1> QED
    BY <1>2, <1>3

LEMMA NextBoth ==
  TypeOK /\ P!Inv /\ [Next]_vars => TypeOK' /\ P!Inv' /\ [P!Next]_(P!vars)
  <1> SUFFICES ASSUME TypeOK, P!Inv, [Next]_vars
               PROVE  TypeOK' /\ P!Inv' /\ [P!Next]_(P!vars)
    OBVIOUS
  <1>1. TypeOK' /\ [P!Next]_(P!vars)
    <2>1. CASE \E r \in Requests : Arrival(r)
      BY <2>1, ArrivalImplements DEF P!Next
    <2>2. CASE \E w \in Workers : TokenStepDone(w)
      BY <2>2, StepImplements DEF P!Next
    <2>3. CASE UNCHANGED vars
      BY <2>3 DEF vars, P!vars, TypeOK
    <2> QED
      BY <2>1, <2>2, <2>3 DEF Next
  <1>2. P!Inv'
    BY <1>1, P!NextInv, SameAssumption
  <1> QED
    BY <1>1, <1>2

LEMMA BothAlways == Spec => [](TypeOK /\ P!Inv)
  <1>1. Init => TypeOK /\ P!Inv
    BY InitBoth, P!InitInv, SameAssumption
  <1>2. (TypeOK /\ P!Inv) /\ [Next]_vars => (TypeOK /\ P!Inv)'
    BY NextBoth
  <1> QED
    BY <1>1, <1>2, PTL DEF Spec

(* What the handlers keep in the scheduler, the workers and the event      *)
(* queue has its type: in particular no queue and no batch holds a request *)
(* twice, which the loops over them rely on.                               *)
THEOREM EngineTypes == Spec => []TypeOK
  BY BothAlways, PTL

(* The handlers of internal/engine do what Serving promises.               *)
THEOREM EngineServes == Spec => P!Spec
  <1>1. Init => P!Init
    BY InitBoth
  <1>2. TypeOK /\ P!Inv /\ [Next]_vars => [P!Next]_(P!vars)
    BY NextBoth
  <1> QED
    BY <1>1, <1>2, BothAlways, PTL DEF Spec, P!Spec

-----------------------------------------------------------------------------
(* Abstract and P are the same specification: P instantiates the module    *)
(* that extends Serving by its proofs.                                     *)
LEMMA SameOperators ==
  /\ \A S : Abstract!Cardinality(S) = P!Cardinality(S)
  /\ \A S, p : Abstract!Users(S, p) = P!Users(S, p)
  /\ Abstract!NoEntry = P!NoEntry /\ Abstract!EmptyCache = P!EmptyCache
  /\ \A gen, r : Abstract!IsComplete(gen, r) <=> P!IsComplete(gen, r)
  /\ \A B, gen, m, cache :
       Abstract!UsedTokens(B, gen, m, cache) = P!UsedTokens(B, gen, m, cache)
  /\ \A B, F, used : Abstract!Fits(B, F, used) <=> P!Fits(B, F, used)
  /\ \A cache, S : Abstract!RemoveRefs(cache, S) = P!RemoveRefs(cache, S)
  /\ \A cache, F, first :
       Abstract!AddRefs(cache, F, first) = P!AddRefs(cache, F, first)
  /\ \A cache, first, r :
       Abstract!PrefixHit(cache, first, r) = P!PrefixHit(cache, first, r)
  <1>1. \A S : Abstract!Cardinality(S) = P!Cardinality(S)
    BY DEF P!Cardinality, Abstract!Cardinality
  <1>2. \A S, p : Abstract!Users(S, p) = P!Users(S, p)
    BY DEF P!Users, Abstract!Users
  <1>3. Abstract!NoEntry = P!NoEntry
    BY DEF P!NoEntry, Abstract!NoEntry
  <1>4. Abstract!EmptyCache = P!EmptyCache
    BY <1>3 DEF P!EmptyCache, Abstract!EmptyCache
  <1>5. \A gen, r : Abstract!IsComplete(gen, r) <=> P!IsComplete(gen, r)
    BY DEF P!IsComplete, Abstract!IsComplete
  <1>6. /\ Abstract!WorstTokens = P!WorstTokens
        /\ \A gen : Abstract!TotalTokens(gen) = P!TotalTokens(gen)
    BY DEF P!WorstTokens, Abstract!WorstTokens,
           P!TotalTokens, Abstract!TotalTokens
  <1>7. \A S, f : Abstract!Slots(S, f) = P!Slots(S, f)
    BY DEF P!Slots, Abstract!Slots
  <1>8. \A S, f : Abstract!TokenSum(S, f) = P!TokenSum(S, f)
    BY <1>1, <1>7 DEF P!TokenSum, Abstract!TokenSum
  <1>9. \A B, gen, m, cache :
          Abstract!UsedTokens(B, gen, m, cache) = P!UsedTokens(B, gen, m, cache)
    BY <1>6, <1>8 DEF P!UsedTokens, Abstract!UsedTokens
  <1>10. \A B, F, used : Abstract!Fits(B, F, used) <=> P!Fits(B, F, used)
    BY <1>1, <1>6, <1>8 DEF P!Fits, Abstract!Fits
  <1>11. \A cache, S : Abstract!RemoveRefs(cache, S) = P!RemoveRefs(cache, S)
    BY <1>1, <1>2, <1>3 DEF P!RemoveRefs, Abstract!RemoveRefs
  <1>12. \A cache, F, first :
           Abstract!AddRefs(cache, F, first) = P!AddRefs(cache, F, first)
    BY <1>1, <1>2, <1>3 DEF P!AddRefs, Abstract!AddRefs
  <1>13. \A cache, first, r :
           Abstract!PrefixHit(cache, first, r) = P!PrefixHit(cache, first, r)
    BY <1>3 DEF P!PrefixHit, Abstract!PrefixHit
  <1> QED
    BY <1>1, <1>2, <1>3, <1>4, <1>5, <1>9, <1>10, <1>11, <1>12, <1>13

LEMMA SameActions ==
  /\ P!Init <=> Abstract!Init
  /\ P!Next <=> Abstract!Next
  /\ P!vars = Abstract!vars
  <1>1. P!Init <=> Abstract!Init
    BY SameOperators DEF P!Init, Abstract!Init
  <1>2. P!vars = Abstract!vars
    BY DEF P!vars, Abstract!vars
  <1>3. ASSUME NEW W, NEW q, NEW kept, NEW cache, NEW gen, NEW fill
        PROVE  P!Admit(W, q, kept, cache, gen, fill)
                 <=> Abstract!Admit(W, q, kept, cache, gen, fill)
    <2> DEFINE place(r) == CHOOSE v \in Workers : r \in fill[v]
               joins(r) == PrefixID[r] # NoPrefix
                             /\ \E w \in Workers : r \in fill[w]
               hits(first) ==
                 [r \in Requests |->
                    IF joins(r)
                    THEN P!PrefixHit(cache[place(r)], first[place(r)], r)
                    ELSE matched[r]]
               hitsA(first) ==
                 [r \in Requests |->
                    IF joins(r)
                    THEN Abstract!PrefixHit(cache[place(r)], first[place(r)], r)
                    ELSE matched[r]]
               caches(first) ==
                 [w \in Workers |-> P!AddRefs(cache[w], fill[w], first[w])]
               cachesA(first) ==
                 [w \in Workers |->
                    Abstract!AddRefs(cache[w], fill[w], first[w])]
               users(first) == \A w \in Workers, p \in PrefixIDs :
                 P!Users(fill[w], p) # {} => first[w][p] \in P!Users(fill[w], p)
               usersA(first) == \A w \in Workers, p \in PrefixIDs :
                 Abstract!Users(fill[w], p) # {}
                   => first[w][p] \in Abstract!Users(fill[w], p)
               places(left) ==
                 /\ \A w \in Workers : w \notin W => fill[w] = {}
                 /\ \A v, w \in Workers : v # w => fill[v] \cap fill[w] = {}
                 /\ ToSet(queue)' = left
                 /\ [w \in Workers |-> ToSet(batch[w])]'
                      = [w \in Workers |-> kept[w] \cup fill[w]]
               fits == \A w \in W :
                 P!Fits(kept[w], fill[w],
                        P!UsedTokens(kept[w], gen, matched, cache[w]))
               fitsA == \A w \in W :
                 Abstract!Fits(kept[w], fill[w],
                   Abstract!UsedTokens(kept[w], gen, matched, cache[w]))
               entries == \E first \in [Workers -> [PrefixIDs -> Requests]] :
                 users(first) /\ prefixCache' = caches(first)
                              /\ matched' = hits(first)
               entriesA == \E first \in [Workers -> [PrefixIDs -> Requests]] :
                 usersA(first) /\ prefixCache' = cachesA(first)
                               /\ matched' = hitsA(first)
               all == UNION {fill[w] : w \in Workers}
    <2>1. P!Admit(W, q, kept, cache, gen, fill)
            <=> places(P!LeftInQueue(q, all)) /\ fits /\ entries
      BY DEF P!Admit
    <2>2. Abstract!Admit(W, q, kept, cache, gen, fill)
            <=> places(Abstract!LeftInQueue(q, all)) /\ fitsA /\ entriesA
      BY DEF Abstract!Admit
    <2>3. P!LeftInQueue(q, all) = Abstract!LeftInQueue(q, all)
      BY DEF P!LeftInQueue, Abstract!LeftInQueue
    <2>4. fits <=> fitsA
      BY SameOperators
    <2>5. \A first : users(first) <=> usersA(first)
      BY SameOperators
    <2>6. \A first : caches(first) = cachesA(first)
      BY SameOperators
    <2>7. \A first : hits(first) = hitsA(first)
      <3> HIDE DEF place, joins
      <3> QED
        BY SameOperators
    <2> HIDE DEF places, fits, fitsA, users, usersA, caches, cachesA, hits,
                 hitsA, all
    <2>8. entries <=> entriesA
      BY <2>5, <2>6, <2>7
    <2> QED
      BY <2>1, <2>2, <2>3, <2>4, <2>8
  <1>4. P!IdleWorkers = Abstract!IdleWorkers
    BY DEF P!IdleWorkers, Abstract!IdleWorkers
  <1>5. \A r, fill : P!ArrivalWith(r, fill) <=> Abstract!ArrivalWith(r, fill)
    BY <1>3, <1>4 DEF P!ArrivalWith, Abstract!ArrivalWith
  <1>6. \A r \in Requests : P!Arrival(r) <=> Abstract!Arrival(r)
    BY <1>5 DEF P!Arrival, Abstract!Arrival
  <1>7. \A gen, V : P!Restarted(gen, V) = Abstract!Restarted(gen, V)
    BY DEF P!Restarted, Abstract!Restarted
  <1>8. ASSUME NEW B, NEW V, NEW gen, NEW cache
        PROVE  P!Evicted(B, V, gen, cache) <=> Abstract!Evicted(B, V, gen, cache)
    <2>1. \A S, T : P!UsedTokens(S, gen, matched, P!RemoveRefs(cache, T))
                = Abstract!UsedTokens(S, gen, matched,
                                      Abstract!RemoveRefs(cache, T))
      BY SameOperators
    <2> DEFINE used(S, T) ==
                 P!UsedTokens(S, gen, matched, P!RemoveRefs(cache, T))
               usedA(S, T) ==
                 Abstract!UsedTokens(S, gen, matched,
                                     Abstract!RemoveRefs(cache, T))
               evicts(left, last(_)) ==
                 IF ~PagedAttention THEN V = {}
                 ELSE /\ \A v \in V, s \in B \ V : gen[v] <= gen[s]
                      /\ B \ V # {} => left <= MemoryTokens
                      /\ V # {} => \E v \in V :
                           /\ \A x \in V : gen[x] <= gen[v]
                           /\ last(v) > MemoryTokens
    <2>2. P!Evicted(B, V, gen, cache)
            <=> evicts(used(B \ V, V),
                       LAMBDA v : used((B \ V) \cup {v}, V \ {v}))
      BY DEF P!Evicted
    <2>3. Abstract!Evicted(B, V, gen, cache)
            <=> evicts(usedA(B \ V, V),
                       LAMBDA v : usedA((B \ V) \cup {v}, V \ {v}))
      BY DEF Abstract!Evicted
    <2>4. \A S, T : used(S, T) = usedA(S, T)
      BY <2>1
    <2> HIDE DEF used, usedA
    <2> QED
      BY <2>2, <2>3, <2>4
  <1>9. \A w : P!Advanced(w) = Abstract!Advanced(w)
    BY DEF P!Advanced, Abstract!Advanced
  <1>10. \A w : P!Finished(w) = Abstract!Finished(w)
    BY <1>9, SameOperators DEF P!Finished, Abstract!Finished
  <1>11. \A w : P!Active(w) = Abstract!Active(w)
    BY <1>10 DEF P!Active, Abstract!Active
  <1>12. ASSUME NEW w, NEW V, NEW F
         PROVE  P!StepWith(w, V, F) <=> Abstract!StepWith(w, V, F)
    <2> DEFINE released == P!RemoveRefs(prefixCache[w], P!Finished(w))
               gen == P!Restarted(P!Advanced(w), V)
               kept == [[v \in Workers |-> ToSet(batch[v])]
                          EXCEPT ![w] = P!Active(w) \ V]
               cache == [prefixCache EXCEPT ![w] = P!RemoveRefs(released, V)]
               fill == [v \in Workers |-> IF v = w THEN F ELSE {}]
    <2>1. /\ released = Abstract!RemoveRefs(prefixCache[w], Abstract!Finished(w))
          /\ P!RemoveRefs(released, V) = Abstract!RemoveRefs(released, V)
      BY <1>10, SameOperators
    <2>2. gen = Abstract!Restarted(Abstract!Advanced(w), V)
      BY <1>7, <1>9
    <2>3. P!Evicted(P!Active(w), V, P!Advanced(w), released)
            <=> Abstract!Evicted(Abstract!Active(w), V, Abstract!Advanced(w),
                                 released)
      BY <1>8, <1>9, <1>11
    <2>4. P!Admit({w}, ToSet(queue) \cup V, kept, cache, gen, fill)
            <=> Abstract!Admit({w}, ToSet(queue) \cup V, kept, cache, gen, fill)
      BY <1>3
    <2>5. /\ P!Finished(w) = Abstract!Finished(w)
          /\ P!Active(w) = Abstract!Active(w)
          /\ P!Cardinality(P!Finished(w))
               = Abstract!Cardinality(Abstract!Finished(w))
      BY <1>10, <1>11, SameOperators
    <2> DEFINE rest(active, finished, n) ==
                 /\ steps' = [steps EXCEPT ![w] =
                                IF (active \ V) \cup F # {} THEN @ ELSE @ - 1]
                 /\ done' = done \cup finished
                 /\ completed' = completed + n
                 /\ UNCHANGED pending
    <2>6. P!StepWith(w, V, F) <=>
            /\ generated' = gen
            /\ P!Evicted(P!Active(w), V, P!Advanced(w), released)
            /\ P!Admit({w}, ToSet(queue) \cup V, kept, cache, gen, fill)
            /\ rest(P!Active(w), P!Finished(w), P!Cardinality(P!Finished(w)))
      BY DEF P!StepWith
    <2>7. Abstract!StepWith(w, V, F) <=>
            /\ generated' = Abstract!Restarted(Abstract!Advanced(w), V)
            /\ Abstract!Evicted(Abstract!Active(w), V, Abstract!Advanced(w),
                 Abstract!RemoveRefs(prefixCache[w], Abstract!Finished(w)))
            /\ Abstract!Admit({w}, ToSet(queue) \cup V,
                 [[v \in Workers |-> ToSet(batch[v])]
                    EXCEPT ![w] = Abstract!Active(w) \ V],
                 [prefixCache EXCEPT ![w] = Abstract!RemoveRefs(
                    Abstract!RemoveRefs(prefixCache[w], Abstract!Finished(w)),
                    V)],
                 Abstract!Restarted(Abstract!Advanced(w), V), fill)
            /\ rest(Abstract!Active(w), Abstract!Finished(w),
                    Abstract!Cardinality(Abstract!Finished(w)))
      BY DEF Abstract!StepWith
    <2> HIDE DEF rest, fill
    <2> QED
      BY <2>1, <2>2, <2>3, <2>4, <2>5, <2>6, <2>7
  <1>13. \A w \in Workers : P!TokenStepDone(w) <=> Abstract!TokenStepDone(w)
    BY <1>11, <1>12 DEF P!TokenStepDone, Abstract!TokenStepDone
  <1>14. P!Next <=> Abstract!Next
    BY <1>6, <1>13 DEF P!Next, Abstract!Next
  <1> QED
    BY <1>1, <1>2, <1>14

(* The handlers of internal/engine, with the loops over queue and batch    *)
(* and the five policies, do what Serving promises: every step is one that *)
(* the abstract scheduler may take, for every workload and every cluster.  *)
THEOREM EngineImplementsServing == Spec => ImplementsServing
  <1>1. Init => Abstract!Init
    BY InitBoth, SameActions
  <1>2. TypeOK /\ P!Inv /\ [Next]_vars => [Abstract!Next]_(Abstract!vars)
    BY NextBoth, SameActions DEF P!vars, Abstract!vars
  <1> QED
    BY <1>1, <1>2, BothAlways, PTL DEF Spec, ImplementsServing, Abstract!Spec

-----------------------------------------------------------------------------
(* An idle worker has no cached prefix, so all of its memory is free.      *)
LEMMA NothingCached ==
  ASSUME NEW gen, NEW m, NEW cache, \A p \in PrefixIDs : cache[p] = NoEntry
  PROVE  UsedTokens({}, gen, m, cache) = 0
  <1> DEFINE none == {}
             held == [p \in PrefixIDs |-> cache[p].tokens]
  <1>1. \A f : Slots(none, f) = {}
    BY DEF Slots
  <1>2. \A p \in PrefixIDs : held[p] = 0
    BY DEF NoEntry
  <1> HIDE DEF held
  <1>3. Slots(PrefixIDs, held) = {}
    <2>1. \A p \in PrefixIDs : {p} \X (1..held[p]) = {}
      BY <1>2
    <2> QED
      BY <2>1 DEF Slots
  <1>4. Cardinality({}) = 0
    BY FS_EmptySet
  <1> HIDE DEF none
  <1>5. (\A f : TokenSum(none, f) = 0) /\ TokenSum(PrefixIDs, held) = 0
    BY <1>1, <1>3, <1>4 DEF TokenSum
  <1>6. UsedTokens(none, gen, m, cache) = 0
    BY <1>5 DEF UsedTokens, held
  <1> QED
    BY <1>6 DEF none

LEMMA NothingCounted ==
  ASSUME NEW cache,
         \A p \in PrefixIDs :
           /\ cache[p].refs = Cardinality(Users({}, p))
           /\ cache[p].refs = 0 => cache[p] = NoEntry
  PROVE  \A p \in PrefixIDs : cache[p] = NoEntry
  <1>1. \A p : Users({}, p) = {}
    BY DEF Users
  <1> QED
    BY <1>1, FS_EmptySet

LEMMA IdleCache ==
  ASSUME P!PrefixRefsExact, NEW w \in Workers, batch[w] = <<>>
  PROVE  \A p \in PrefixIDs : prefixCache[w][p] = NoEntry
  <1>1. ToSet(batch[w]) = {}
    BY DEF ToSet
  <1>2. \A p \in PrefixIDs :
          /\ prefixCache[w][p].refs = Cardinality(Users({}, p))
          /\ prefixCache[w][p].refs = 0 => prefixCache[w][p] = NoEntry
    BY <1>1, SameModel DEF P!PrefixRefsExact
  <1> QED
    BY <1>2, NothingCounted

LEMMA ArrivalConserves ==
  ASSUME TypeOK, P!Inv, NEW r \in Requests, Arrival(r)
  PROVE  WorkConserving'
  <1>1. PICK t, fill, first :
          /\ Offered(Arrived(r), t, Workers, fill, first)
          /\ Becomes(t)
    BY ArrivalDispatches
  <1>2. batch' = t.batch /\ queue' = t.queue /\ policy' = policy
    BY <1>1 DEF Becomes
  <1>3. Arrived(r).batch = batch /\ Arrived(r).cache = prefixCache
    BY ArrivedState DEF Arrival
  <1> SUFFICES ASSUME policy # "wfq", NEW w \in Workers, t.batch[w] = <<>>,
                      NEW s \in ToSet(t.queue)
               PROVE  WorstTokens[s] > MemoryTokens
    BY <1>2 DEF WorkConserving
  <1>4. ToSet(batch[w]) = {} /\ fill[w] = {}
    <2>1. ToSet(t.batch[w]) = {}
      BY DEF ToSet
    <2>2. ToSet(t.batch[w]) = ToSet(batch[w]) \cup fill[w]
      BY <1>1, <1>3 DEF Offered
    <2> QED
      BY <2>1, <2>2
  <1>5. batch[w] = <<>>
    <2>1. batch[w] \in Seq(Requests)
      BY DEF TypeOK
    <2> QED
      BY <1>4, <2>1, MembersOf
  <1>6. WorstTokens[s] > MemoryTokens - IdleUse(Arrived(r), w)
    BY <1>1, <1>3, <1>4, <1>5 DEF Offered
  <1>7. \A p \in PrefixIDs : prefixCache[w][p] = NoEntry
    BY <1>5, IdleCache DEF P!Inv
  <1>8. IdleUse(Arrived(r), w) = 0
    BY <1>3, <1>7, NothingCached DEF IdleUse
  <1> QED
    BY <1>6, <1>8, ModelAssumption

(* A step leaves its worker idle only if nothing that waits, or that the    *)
(* step evicted, fits the worker.                                          *)
LEMMA IdleAfterStep ==
  ASSUME P!Inv', policy # "wfq", NEW w \in Workers,
         NEW t, NEW S, NEW V, NEW F, NEW first,
         Stepped(w, t, S, V, F, first), Becomes(t), t.batch[w] = <<>>
  PROVE  /\ P!Active(w) \ V = {} /\ F = {}
         /\ \A r \in ToSet(queue) \cup V : WorstTokens[r] > MemoryTokens
  <1> DEFINE cache == P!RemoveRefs(P!RemoveRefs(prefixCache[w], S), V)
             gen == [r \in Requests |-> IF r \in V THEN 0 ELSE P!Advanced(w)[r]]
  <1>1. /\ ToSet(t.batch[w]) = (P!Active(w) \ V) \cup F
        /\ t.cache[w] = P!AddRefs(cache, F, first)
        /\ policy # "wfq" /\ P!Active(w) \ V = {} /\ F = {} =>
             \A r \in ToSet(queue) \cup V :
               WorstTokens[r]
                 > MemoryTokens - UsedTokens({}, gen, matched, cache)
    BY DEF Stepped
  <1>2. batch' = t.batch /\ prefixCache' = t.cache
    BY DEF Becomes
  <1> HIDE DEF cache, gen
  <1>3. P!Active(w) \ V = {} /\ F = {}
    <2>1. ToSet(t.batch[w]) = {}
      BY DEF ToSet
    <2> QED
      BY <1>1, <2>1
  <1>4. \A p \in PrefixIDs : t.cache[w][p] = NoEntry
    <2>1. P!PrefixRefsExact' /\ batch'[w] = <<>>
      BY <1>2 DEF P!Inv
    <2>2. ToSet(batch'[w]) = {}
      BY <2>1 DEF ToSet
    <2>3. \A p \in PrefixIDs :
            /\ t.cache[w][p].refs = Cardinality(Users({}, p))
            /\ t.cache[w][p].refs = 0 => t.cache[w][p] = NoEntry
      BY <1>2, <2>1, <2>2, SameModel DEF P!PrefixRefsExact
    <2> QED
      BY <2>3, NothingCounted
  <1>5. \A p \in PrefixIDs : cache[p] = NoEntry
    <2> DEFINE none == {}
    <2>1. \A p : Cardinality(Users(none, p)) = 0
      BY FS_EmptySet DEF Users
    <2> HIDE DEF none
    <2>2. \A p \in PrefixIDs : P!AddRefs(cache, none, first)[p] = cache[p]
      BY <2>1, AddRefsAt
    <2> QED
      BY <1>1, <1>3, <1>4, <2>2 DEF none
  <1>6. UsedTokens({}, gen, matched, cache) = 0
    BY <1>5, NothingCached
  <1> QED
    BY <1>1, <1>3, <1>6, ModelAssumption

LEMMA StepConserves ==
  ASSUME TypeOK, P!Inv, P!Inv', WorkConserving,
         NEW w \in Workers, TokenStepDone(w)
  PROVE  WorkConserving'
  <1>1. PICK t, S, V, F, first :
          Stepped(w, t, S, V, F, first) /\ Becomes(t)
    BY StepCalls
  <1>2. batch' = t.batch /\ queue' = t.queue /\ policy' = policy
    BY <1>1 DEF Becomes
  <1>3. /\ P!Evicted(P!Active(w), V, P!Advanced(w),
                     P!RemoveRefs(prefixCache[w], S))
        /\ ToSet(t.queue) = (ToSet(queue) \cup V) \ F
        /\ \A v \in Workers : v # w => t.batch[v] = batch[v]
    BY <1>1 DEF Stepped
  <1> SUFFICES ASSUME ~PagedAttention, policy # "wfq",
                      NEW v \in Workers, t.batch[v] = <<>>,
                      NEW s \in ToSet(t.queue)
               PROVE  WorstTokens[s] > MemoryTokens
    BY <1>2 DEF WorkConserving
  <1>4. V = {} /\ s \in ToSet(queue)
    BY <1>3 DEF P!Evicted
  <1>5. CASE v # w
    BY <1>3, <1>4, <1>5 DEF WorkConserving
  <1>6. CASE v = w
    BY <1>1, <1>4, <1>6, IdleAfterStep
  <1> QED
    BY <1>5, <1>6

(* Without paging no worker sits idle while a request that would fit it    *)
(* waits, though the queue is looked at only on an arrival and at the end  *)
(* of a worker's own step: a request that fits nowhere when it arrives     *)
(* cannot come to fit a worker that has been idle since.                   *)
THEOREM NoIdleWaste == Spec => []WorkConserving
  <1> DEFINE Ind == (TypeOK /\ P!Inv) /\ WorkConserving
  <1>1. Init => WorkConserving
    BY DEF Init, WorkConserving, ToSet
  <1>2. (TypeOK /\ P!Inv) /\ (TypeOK /\ P!Inv)' /\ WorkConserving /\ [Next]_vars
          => WorkConserving'
    <2> SUFFICES ASSUME TypeOK, P!Inv, P!Inv', WorkConserving, [Next]_vars
                 PROVE  WorkConserving'
      OBVIOUS
    <2>1. CASE \E r \in Requests : Arrival(r)
      BY <2>1, ArrivalConserves
    <2>2. CASE \E w \in Workers : TokenStepDone(w)
      BY <2>2, StepConserves
    <2>3. CASE UNCHANGED vars
      BY <2>3 DEF vars, WorkConserving
    <2> QED
      BY <2>1, <2>2, <2>3 DEF Next
  <1> QED
    BY <1>1, <1>2, BothAlways, PTL DEF Spec

-----------------------------------------------------------------------------
(* What ServingProofs shows of Serving, of the handlers themselves: no     *)
(* request is lost or held twice, a worker with a batch has one step ahead *)
(* of it, and so on (see the comments at the definitions).                 *)
THEOREM HandlersKeepPromises ==
  Spec => [](/\ P!ExactlyOnePlace /\ P!StepPerBusyWorker
             /\ P!CompletedOnce /\ P!BatchWithinLimit
             /\ P!TokenAccounting /\ P!PrefixRefsExact
             /\ P!PagedMemoryBound)
  <1>1. P!Inv => /\ P!ExactlyOnePlace /\ P!StepPerBusyWorker
                 /\ P!CompletedOnce /\ P!BatchWithinLimit
                 /\ P!TokenAccounting /\ P!PrefixRefsExact
                 /\ P!PagedMemoryBound
    BY DEF P!Inv
  <1> QED
    BY <1>1, BothAlways, PTL

(* No preemption goes on for ever in the handlers either: see              *)
(* ProgressSurvives in Serving.                                            *)
THEOREM HandlersProgress == Spec => P!ProgressSurvives
  BY EngineServes, P!ProgressMade, SameAssumption, PTL

-----------------------------------------------------------------------------
(* Order of service.  The queue is kept in the order of the policy because *)
(* requests are enqueued as they arrive, and only in FormBatch is one      *)
(* taken from the middle; without paging nothing comes back to it.         *)
OrderInv ==
  /\ ~PagedAttention => InOrder(policy, queue)
  /\ \A r \in Requests \ pending, s \in pending : ArrivalMs[r] <= ArrivalMs[s]
  /\ (\A r \in Requests : PrefixID[r] = NoPrefix)
       => \A r \in Requests : matched[r] = 0

LEMMA ArrivedInOrder ==
  ASSUME TypeOK, P!Inv, OrderInv, NEW r \in Requests, Arrival(r),
         ~PagedAttention
  PROVE  InOrder(policy, Arrived(r).queue)
  <1>1. Arrived(r).queue = Enqueue(policy, queue, r)
    BY DEF Arrived, Before
  <1>2. queue \in Seq(Requests) /\ InOrder(policy, queue)
    BY DEF TypeOK, OrderInv
  <1>3. ASSUME NEW s \in ToSet(queue)
        PROVE  ArrivalMs[s] <= ArrivalMs[r]
    <2>1. s \in Requests \ pending
      BY <1>2, <1>3, MembersOf, OnePlaceEach
    <2> QED
      BY <2>1 DEF OrderInv, Arrival
  <1> QED
    BY <1>1, <1>2, <1>3, EnqueueInOrder

LEMMA ArrivalOrdered ==
  ASSUME TypeOK, P!Inv, OrderInv, NEW r \in Requests, Arrival(r)
  PROVE  OrderInv'
  <1>1. PICK t, fill, first :
          Offered(Arrived(r), t, Workers, fill, first) /\ Becomes(t)
    BY ArrivalDispatches
  <1>2. queue' = t.queue /\ matched' = t.matched /\ policy' = policy
    BY <1>1 DEF Becomes
  <1>3. ~PagedAttention => InOrder(policy', queue')
    BY <1>1, <1>2, ArrivedInOrder DEF Offered, OfferedInOrder
  <1>4. \A x \in Requests \ pending', s \in pending' :
          ArrivalMs[x] <= ArrivalMs[s]
    BY DEF Arrival, OrderInv
  <1>5. ASSUME \A x \in Requests : PrefixID[x] = NoPrefix,
               NEW x \in Requests
        PROVE  matched'[x] = 0
    <2>1. Arrived(r).matched[x] = 0
      BY <1>5, ArrivedState DEF OrderInv, Arrival
    <2>2. t.matched[x] = Arrived(r).matched[x]
      BY <1>1, <1>5 DEF Offered
    <2> QED
      BY <1>2, <2>1, <2>2
  <1> QED
    BY <1>3, <1>4, <1>5 DEF OrderInv

LEMMA StepOrdered ==
  ASSUME TypeOK, P!Inv, OrderInv, NEW w \in Workers, TokenStepDone(w)
  PROVE  OrderInv'
  <1>1. PICK t, S, V, F, first :
          Stepped(w, t, S, V, F, first) /\ Becomes(t)
    BY StepCalls
  <1>2. /\ queue' = t.queue /\ matched' = t.matched /\ policy' = policy
        /\ pending' = pending
    BY <1>1 DEF Becomes, TokenStepDone
  <1>3. ~PagedAttention => InOrder(policy, t.queue)
    BY <1>1 DEF Stepped, ServedInOrder, OrderInv
  <1>4. \A r \in Requests : PrefixID[r] = NoPrefix => t.matched[r] = matched[r]
    BY <1>1 DEF Stepped
  <1> QED
    BY <1>2, <1>3, <1>4 DEF OrderInv

LEMMA OrderAlways == Spec => []OrderInv
  <1>1. Init => OrderInv
    BY DEF Init, OrderInv, InOrder
  <1>2. (TypeOK /\ P!Inv) /\ OrderInv /\ [Next]_vars => OrderInv'
    <2> SUFFICES ASSUME TypeOK, P!Inv, OrderInv, [Next]_vars
                 PROVE  OrderInv'
      OBVIOUS
    <2>1. CASE \E r \in Requests : Arrival(r)
      BY <2>1, ArrivalOrdered
    <2>2. CASE \E w \in Workers : TokenStepDone(w)
      BY <2>2, StepOrdered
    <2>3. CASE UNCHANGED vars
      BY <2>3 DEF vars, OrderInv
    <2> QED
      BY <2>1, <2>2, <2>3 DEF Next
  <1> QED
    BY <1>1, <1>2, BothAlways, PTL DEF Spec

(* The requests of G go from the queue to the workers.                     *)
LEMMA ClassKept ==
  ASSUME ClassInArrivalOrder, OrderInv', NEW G \in SUBSET Requests,
         Waiting = Waiting' \cup G, G \cap pending' = {},
         ~PagedAttention => ClassInOrder(ToSet(queue'), G)
  PROVE  ClassInArrivalOrder'
  <1> SUFFICES ASSUME ~PagedAttention, NEW r \in Requests, NEW s \in Requests,
                      SameClass(r, s), ArrivalMs[r] < ArrivalMs[s],
                      r \in Waiting'
               PROVE  s \in Waiting'
    BY DEF ClassInArrivalOrder
  <1>1. s \in Waiting
    BY DEF ClassInArrivalOrder
  <1>2. ASSUME s \in G PROVE FALSE
    <2>1. CASE r \in ToSet(queue')
      <3>1. Alike(r, s)
        BY DEF SameClass, Alike
      <3> QED
        BY <1>2, <2>1, <3>1 DEF ClassInOrder
    <2>2. CASE r \in pending'
      <3>1. s \in Requests \ pending'
        BY <1>2
      <3>2. ArrivalMs[s] <= ArrivalMs[r]
        BY <2>2, <3>1 DEF OrderInv
      <3>3. ArrivalMs[s] \in Int /\ ArrivalMs[r] \in Int
        BY PolicyAssumption
      <3> QED
        BY <3>2, <3>3
    <2> QED
      BY <2>1, <2>2 DEF Waiting
  <1> QED
    BY <1>1, <1>2

LEMMA ArrivalKeepsClass ==
  ASSUME TypeOK, P!Inv, OrderInv, ClassInArrivalOrder,
         NEW r \in Requests, Arrival(r)
  PROVE  ClassInArrivalOrder'
  <1>1. PICK t, fill, first :
          Offered(Arrived(r), t, Workers, fill, first) /\ Becomes(t)
    BY ArrivalDispatches
  <1> DEFINE G == UNION {fill[w] : w \in Workers}
  <1>2. /\ queue' = t.queue /\ pending' = pending \ {r} /\ r \in pending
    BY <1>1 DEF Becomes, Arrival
  <1>3. /\ ToSet(Arrived(r).queue) = ToSet(queue) \cup {r}
        /\ Arrived(r).batch = batch
    BY <1>2, ArrivedState
  <1>4. /\ ToSet(t.queue) = (ToSet(queue) \cup {r}) \ G
        /\ G \subseteq ToSet(queue) \cup {r}
        /\ \A w \in Workers : batch[w] # <<>> => fill[w] = {}
    BY <1>1, <1>3 DEF Offered
  <1>5. ToSet(queue) \in SUBSET Requests /\ ToSet(queue) \cap pending = {}
    BY MembersOf, OnePlaceEach DEF TypeOK
  <1>6. ~PagedAttention => ClassInOrder(ToSet(queue'), G)
    <2> SUFFICES ASSUME ~PagedAttention, NEW w \in Workers
                 PROVE  ClassInOrder(ToSet(queue'), fill[w])
      BY DEF ClassInOrder
    <2>1. CASE batch[w] = <<>>
      <3>1. Spared(policy, ToSet(t.queue), fill[w], IdleUse(Arrived(r), w))
        BY <1>1, <1>3, <2>1, ArrivedInOrder DEF Offered, OfferedInOrder
      <3> QED
        BY <1>2, <3>1 DEF Spared
    <2>2. CASE batch[w] # <<>>
      BY <1>4, <2>2 DEF ClassInOrder
    <2> QED
      BY <2>1, <2>2
  <1> HIDE DEF G
  <1>7. /\ G \in SUBSET Requests /\ G \cap pending' = {}
        /\ Waiting = Waiting' \cup G
    BY <1>2, <1>4, <1>5 DEF Waiting
  <1> QED
    BY <1>6, <1>7, ArrivalOrdered, ClassKept

LEMMA StepKeepsClass ==
  ASSUME TypeOK, P!Inv, OrderInv, ClassInArrivalOrder,
         NEW w \in Workers, TokenStepDone(w)
  PROVE  ClassInArrivalOrder'
  <1>1. PICK t, S, V, F, first :
          Stepped(w, t, S, V, F, first) /\ Becomes(t)
    BY StepCalls
  <1>2. queue' = t.queue /\ pending' = pending
    BY <1>1 DEF Becomes, TokenStepDone
  <1>3. /\ ~PagedAttention => V = {}
        /\ F \subseteq ToSet(queue) \cup V
        /\ ToSet(t.queue) = (ToSet(queue) \cup V) \ F
    BY <1>1 DEF Stepped, P!Evicted
  <1>4. ToSet(queue) \in SUBSET Requests /\ ToSet(queue) \cap pending = {}
    BY MembersOf, OnePlaceEach DEF TypeOK
  <1>5. CASE PagedAttention
    BY <1>5 DEF ClassInArrivalOrder
  <1>6. CASE ~PagedAttention
    <2>1. ClassInOrder(ToSet(queue'), F)
      BY <1>1, <1>2, <1>6 DEF Stepped, ServedInOrder, OrderInv, Spared
    <2>2. /\ F \in SUBSET Requests /\ F \cap pending' = {}
          /\ Waiting = Waiting' \cup F
      BY <1>2, <1>3, <1>4, <1>6 DEF Waiting
    <2> QED
      BY <2>1, <2>2, StepOrdered, ClassKept
  <1> QED
    BY <1>5, <1>6

(* Requests of one tier and one size are served in the order of their      *)
(* arrival: no worker's FormBatch, whatever the policy, hands out a        *)
(* request while an earlier one like it waits, and an arrival dispatched   *)
(* to several idle workers at once does not change that.                   *)
THEOREM NoClassOvertaken == Spec => []ClassInArrivalOrder
  <1>1. Init => ClassInArrivalOrder
    BY DEF Init, ClassInArrivalOrder, Waiting
  <1>2. (TypeOK /\ P!Inv) /\ OrderInv /\ ClassInArrivalOrder /\ [Next]_vars
          => ClassInArrivalOrder'
    <2> SUFFICES ASSUME TypeOK, P!Inv, OrderInv, ClassInArrivalOrder,
                        [Next]_vars
                 PROVE  ClassInArrivalOrder'
      OBVIOUS
    <2>1. CASE \E r \in Requests : Arrival(r)
      BY <2>1, ArrivalKeepsClass
    <2>2. CASE \E w \in Workers : TokenStepDone(w)
      BY <2>2, StepKeepsClass
    <2>3. CASE UNCHANGED vars
      BY <2>3 DEF vars, ClassInArrivalOrder, Waiting
    <2> QED
      BY <2>1, <2>2, <2>3 DEF Next
  <1> QED
    BY <1>1, <1>2, BothAlways, OrderAlways, PTL DEF Spec

-----------------------------------------------------------------------------
(* Overtaking.  What a worker set aside when it chose those of F is what   *)
(* its requests hold, if no request has a prefix.                          *)
LEMMA RankedAlike ==
  ASSUME TypeOK, NEW r, NEW s
  PROVE  RankedBefore(r, s) <=> Outranks(policy, r, s)
  BY DEF TypeOK, PolicyNames, RankedBefore, Outranks, Ahead, SortedPolicies

LEMMA MemoryAlone ==
  ASSUME TypeOK, NEW left \in SUBSET Requests, NEW F \in SUBSET Requests,
         NEW used \in Int, Spared(policy, left, F, used), NEW r \in left,
         {s \in F : ~RankedBefore(r, s)} # F
  PROVE  used + TokenSum({s \in F : ~RankedBefore(r, s)} \cup {r}, WorstTokens)
           > MemoryTokens
  <1> DEFINE D == {s \in F : ~RankedBefore(r, s)}
  <1>1. PICK s \in F : RankedBefore(r, s)
    OBVIOUS
  <1>2. \A x : RankedBefore(r, x) <=> Outranks(policy, r, x)
    BY RankedAlike
  <1>3. PICK C \in SUBSET F :
          /\ \A x \in C : ~Outranks(policy, r, x)
          /\ used + TokenSum(C \cup {r}, WorstTokens) > MemoryTokens
    BY <1>1, <1>2 DEF Spared, OvertakenForMemory, Misfit
  <1>4. C \cup {r} \in SUBSET (D \cup {r}) /\ D \cup {r} \in SUBSET Requests
    BY <1>2, <1>3
  <1>5. /\ TokenSum(C \cup {r}, WorstTokens) \in Nat
        /\ TokenSum(D \cup {r}, WorstTokens) \in Nat
    <2>1. C \cup {r} \in SUBSET Requests
      BY <1>4
    <2> QED
      BY <1>4, <2>1, SumOfRequests, WorstType
  <1>6. TokenSum(C \cup {r}, WorstTokens) <= TokenSum(D \cup {r}, WorstTokens)
    BY <1>4, SumSubset
  <1> HIDE DEF D
  <1>7. used + TokenSum(D \cup {r}, WorstTokens) > MemoryTokens
    BY <1>3, <1>5, <1>6, ModelAssumption
  <1> QED
    BY <1>7 DEF D

(* Without prefixes nothing is cached and nothing is matched.              *)
LEMMA NoPrefixes ==
  ASSUME \A r \in Requests : PrefixID[r] = NoPrefix,
         P!PrefixRefsExact, TypeOK, NEW w \in Workers, NEW p \in PrefixIDs
  PROVE  prefixCache[w][p] = NoEntry
  <1>1. ToSet(batch[w]) \in SUBSET Requests /\ p # NoPrefix
    BY ModelAssumption, MembersOf DEF TypeOK
  <1>2. Users(ToSet(batch[w]), p) = {}
    BY <1>1 DEF Users
  <1>3. /\ prefixCache[w][p].refs = Cardinality(Users(ToSet(batch[w]), p))
        /\ prefixCache[w][p].refs = 0 => prefixCache[w][p] = NoEntry
    BY SameModel DEF P!PrefixRefsExact
  <1> QED
    BY <1>2, <1>3, FS_EmptySet

LEMMA PlainUse ==
  ASSUME NEW B \in SUBSET Requests, NEW gen \in [Requests -> Nat], NEW m,
         NEW cache, \A r \in Requests : m[r] = 0,
         \A p \in PrefixIDs : cache[p] = NoEntry
  PROVE  UsedTokens(B, gen, m, cache) = TokenSum(B, TotalTokens(gen))
  <1> DEFINE held == [p \in PrefixIDs |-> cache[p].tokens]
  <1>1. \A p \in PrefixIDs : held[p] = 0
    BY DEF NoEntry
  <1> HIDE DEF held
  <1>2. TokenSum(PrefixIDs, held) = 0
    BY <1>1, SumZero
  <1>3. TokenSum(B, m) = 0
    BY SumZero
  <1>4. TotalTokens(gen) \in [Requests -> Nat]
    BY ModelAssumption DEF TotalTokens
  <1>5. TokenSum(B, TotalTokens(gen)) \in Nat
    BY <1>4, SumOfRequests
  <1> QED
    BY <1>2, <1>3, <1>5 DEF UsedTokens, held

(* What OvertakenOnlyForMemory says of the worker w.                       *)
OvertakenAt(w) ==
  LET joined == ToSet(batch'[w]) \ ToSet(batch[w])
      stayed == ToSet(batch'[w]) \ joined
      ahead(r) == {s \in joined : ~RankedBefore(r, s)}
  IN \A r \in ToSet(queue') : ahead(r) # joined =>
       TokenSum(stayed, TotalTokens(generated'))
         + TokenSum(ahead(r) \cup {r}, WorstTokens) > MemoryTokens

LEMMA NobodyJoins ==
  ASSUME NEW w \in Workers, ToSet(batch'[w]) \subseteq ToSet(batch[w])
  PROVE  OvertakenAt(w)
  <1> DEFINE joined == ToSet(batch'[w]) \ ToSet(batch[w])
  <1>1. joined = {}
    OBVIOUS
  <1> HIDE DEF joined
  <1>2. \A r : {s \in joined : ~RankedBefore(r, s)} = joined
    BY <1>1
  <1> QED
    BY <1>2 DEF OvertakenAt, joined

LEMMA SomeJoin ==
  ASSUME TypeOK, NEW w \in Workers, NEW A, NEW F \in SUBSET Requests,
         A \subseteq ToSet(batch[w]), F \cap ToSet(batch[w]) = {},
         ToSet(batch'[w]) = A \cup F, ToSet(queue') \in SUBSET Requests,
         TokenSum(A, TotalTokens(generated')) \in Nat,
         Spared(policy, ToSet(queue'), F, TokenSum(A, TotalTokens(generated')))
  PROVE  OvertakenAt(w)
  <1> DEFINE joined == ToSet(batch'[w]) \ ToSet(batch[w])
             stayed == ToSet(batch'[w]) \ joined
  <1>1. joined = F /\ stayed = A
    OBVIOUS
  <1> HIDE DEF joined, stayed
  <1> DEFINE used == TokenSum(A, TotalTokens(generated'))
             left == ToSet(queue')
  <1> HIDE DEF used, left
  <1>2. used \in Int /\ left \in SUBSET Requests /\ Spared(policy, left, F, used)
    BY DEF used, left
  <1>3. \A r \in left : {s \in F : ~RankedBefore(r, s)} # F =>
          used + TokenSum({s \in F : ~RankedBefore(r, s)} \cup {r}, WorstTokens)
            > MemoryTokens
    BY <1>2, MemoryAlone
  <1>4. \A r \in left : {s \in joined : ~RankedBefore(r, s)} # joined =>
          TokenSum(stayed, TotalTokens(generated'))
            + TokenSum({s \in joined : ~RankedBefore(r, s)} \cup {r}, WorstTokens)
            > MemoryTokens
    BY <1>1, <1>3 DEF used
  <1> QED
    BY <1>4 DEF OvertakenAt, joined, stayed, left

LEMMA ArrivalOvertakes ==
  ASSUME TypeOK, P!Inv, OrderInv, NEW r \in Requests, Arrival(r),
         ~PagedAttention, \A x \in Requests : PrefixID[x] = NoPrefix,
         NEW w \in Workers
  PROVE  OvertakenAt(w)
  <1>1. PICK t, fill, first :
          Offered(Arrived(r), t, Workers, fill, first) /\ Becomes(t)
    BY ArrivalDispatches
  <1>2. queue' = t.queue /\ batch' = t.batch /\ generated' = t.gen
    BY <1>1 DEF Becomes
  <1>3. /\ Arrived(r) \in HandlerStates
        /\ ToSet(Arrived(r).queue) = ToSet(queue) \cup {r}
        /\ Arrived(r).batch = batch /\ Arrived(r).gen = generated
        /\ Arrived(r).matched = matched /\ Arrived(r).cache = prefixCache
    BY ArrivedState DEF Arrival
  <1>4. /\ ToSet(t.batch[w]) = ToSet(batch[w]) \cup fill[w]
        /\ batch[w] # <<>> => fill[w] = {}
        /\ fill[w] \subseteq ToSet(queue) \cup {r}
        /\ ToSet(t.queue) \subseteq ToSet(queue) \cup {r}
    BY <1>1, <1>3 DEF Offered
  <1>5. ToSet(queue) \in SUBSET Requests
    BY MembersOf DEF TypeOK
  <1>6. CASE batch[w] # <<>>
    BY <1>2, <1>4, <1>6, NobodyJoins
  <1>7. CASE batch[w] = <<>>
    <2> DEFINE none == {}
    <2>1. ToSet(batch[w]) = none
      BY <1>7 DEF ToSet
    <2>2. TokenSum(none, TotalTokens(generated')) = 0
      BY SumEmpty
    <2>3. IdleUse(Arrived(r), w) = 0
      <3>1. \A p \in PrefixIDs : prefixCache[w][p] = NoEntry
        BY NoPrefixes DEF P!Inv
      <3> QED
        BY <1>3, <3>1, NothingCached DEF IdleUse
    <2>4. Spared(policy, ToSet(t.queue), fill[w], IdleUse(Arrived(r), w))
      BY <1>1, <1>3, <1>7, ArrivedInOrder DEF Offered, OfferedInOrder
    <2> HIDE DEF none
    <2>5. fill[w] \cap ToSet(batch[w]) = {} /\ none \subseteq ToSet(batch[w])
      BY <2>1 DEF none
    <2>6. ToSet(batch'[w]) = none \cup fill[w]
      BY <1>2, <1>4, <2>1
    <2>7. fill[w] \in SUBSET Requests /\ ToSet(queue') \in SUBSET Requests
      BY <1>2, <1>4, <1>5
    <2>8. Spared(policy, ToSet(queue'), fill[w],
                 TokenSum(none, TotalTokens(generated')))
      BY <1>2, <2>2, <2>3, <2>4
    <2> QED
      BY <2>2, <2>5, <2>6, <2>7, <2>8, SomeJoin
  <1> QED
    BY <1>6, <1>7

LEMMA StepOvertakes ==
  ASSUME TypeOK, P!Inv, P!Inv', TypeOK', OrderInv,
         NEW w \in Workers, TokenStepDone(w),
         ~PagedAttention, \A x \in Requests : PrefixID[x] = NoPrefix,
         NEW v \in Workers
  PROVE  OvertakenAt(v)
  <1>1. PICK t, S, V, F, first :
          Stepped(w, t, S, V, F, first) /\ Becomes(t)
    BY StepCalls
  <1>2. /\ queue' = t.queue /\ batch' = t.batch /\ generated' = t.gen
        /\ prefixCache' = t.cache
    BY <1>1 DEF Becomes
  <1> DEFINE A == P!Active(w)
             cache == P!RemoveRefs(P!RemoveRefs(prefixCache[w], S), V)
             gen == [r \in Requests |-> IF r \in V THEN 0 ELSE P!Advanced(w)[r]]
  <1>3. /\ V = {}
        /\ F \subseteq ToSet(queue) \cup V
        /\ ToSet(t.queue) = (ToSet(queue) \cup V) \ F
        /\ ToSet(t.batch[w]) = (A \ V) \cup F
        /\ t.gen = gen
        /\ \A x \in Workers : x # w => t.batch[x] = batch[x]
        /\ t.cache[w] = P!AddRefs(cache, F, first)
    BY <1>1 DEF Stepped, P!Evicted
  <1>4. ServedInOrder(queue, t.queue, F, UsedTokens(A \ V, gen, matched, cache))
    BY <1>1 DEF Stepped
  <1>5. /\ A \subseteq ToSet(batch[w]) /\ ToSet(batch[w]) \in SUBSET Requests
        /\ ToSet(queue) \in SUBSET Requests
        /\ ToSet(queue) \cap ToSet(batch[w]) = {}
    BY MembersOf, OnePlaceEach DEF TypeOK, P!Active
  <1> HIDE DEF A, cache, gen
  <1>6. CASE v # w
    BY <1>2, <1>3, <1>6, NobodyJoins
  <1>7. CASE v = w
    <2>1. generated' = gen /\ gen \in [Requests -> Nat]
      BY <1>2, <1>3 DEF TypeOK
    <2>2. \A p \in PrefixIDs : cache[p] = NoEntry
      <3> SUFFICES ASSUME NEW p \in PrefixIDs PROVE cache[p] = NoEntry
        OBVIOUS
      <3>1. prefixCache'[w][p] = NoEntry
        <4>1. /\ prefixCache'[w][p].refs
                   = Cardinality(Users(ToSet(batch'[w]), p))
              /\ prefixCache'[w][p].refs = 0 => prefixCache'[w][p] = NoEntry
          BY SameModel DEF P!Inv, P!PrefixRefsExact
        <4>2. ToSet(batch'[w]) \in SUBSET Requests /\ p # NoPrefix
          BY <1>2, <1>3, <1>5, ModelAssumption
        <4>3. Users(ToSet(batch'[w]), p) = {}
          BY <4>2 DEF Users
        <4> QED
          BY <4>1, <4>3, FS_EmptySet
      <3>2. Cardinality(Users(F, p)) = 0
        <4>1. Users(F, p) = {}
          BY <1>3, <1>5, ModelAssumption DEF Users
        <4> QED
          BY <4>1, FS_EmptySet
      <3>3. P!AddRefs(cache, F, first)[p] = cache[p]
        BY <3>2, AddRefsAt
      <3> QED
        BY <1>2, <1>3, <3>1, <3>3
    <2>3. A \ V = A /\ A \in SUBSET Requests
      BY <1>3, <1>5
    <2>4. UsedTokens(A, gen, matched, cache)
            = TokenSum(A, TotalTokens(generated'))
      <3>1. \A r \in Requests : matched[r] = 0
        BY DEF OrderInv
      <3> QED
        BY <2>1, <2>2, <2>3, <3>1, PlainUse
    <2>5. Spared(policy, ToSet(queue'), F,
                 TokenSum(A, TotalTokens(generated')))
      BY <1>2, <1>4, <2>3, <2>4 DEF ServedInOrder, OrderInv
    <2>6. TokenSum(A, TotalTokens(generated')) \in Nat
      <3>1. TotalTokens(gen) \in [Requests -> Nat]
        BY <2>1, ModelAssumption DEF TotalTokens
      <3> QED
        BY <2>1, <2>3, <3>1, SumOfRequests
    <2>7. /\ F \in SUBSET Requests /\ F \cap ToSet(batch[w]) = {}
          /\ ToSet(queue') \in SUBSET Requests
          /\ ToSet(batch'[w]) = A \cup F
      BY <1>2, <1>3, <1>5, <2>3
    <2> QED
      BY <1>5, <1>7, <2>5, <2>6, <2>7, SomeJoin
  <1> QED
    BY <1>6, <1>7

(* A request that the policy ranks behind another overtakes it only for    *)
(* want of memory: the greedy scan of every FormBatch passes a request     *)
(* over when it does not fit and for no other reason, and the queue it     *)
(* scans is in the order of the policy, whichever handler filled it.       *)
THEOREM OnlyMemoryOvertakes == Spec => OvertakenOnlyForMemory
  <1>1. (TypeOK /\ P!Inv) /\ (TypeOK /\ P!Inv)' /\ OrderInv /\ [Next]_vars
          => [~PagedAttention /\ (\A r \in Requests : PrefixID[r] = NoPrefix) =>
                \A w \in Workers :
                  LET joined == ToSet(batch'[w]) \ ToSet(batch[w])
                      stayed == ToSet(batch'[w]) \ joined
                      ahead(r) == {s \in joined : ~RankedBefore(r, s)}
                  IN \A r \in ToSet(queue') : ahead(r) # joined =>
                       TokenSum(stayed, TotalTokens(generated'))
                         + TokenSum(ahead(r) \cup {r}, WorstTokens)
                         > MemoryTokens]_vars
    <2>1. ASSUME TypeOK, P!Inv, TypeOK', P!Inv', OrderInv, Next,
                 ~PagedAttention, \A r \in Requests : PrefixID[r] = NoPrefix,
                 NEW w \in Workers
          PROVE  OvertakenAt(w)
      <3>1. CASE \E r \in Requests : Arrival(r)
        BY <2>1, <3>1, ArrivalOvertakes
      <3>2. CASE \E v \in Workers : TokenStepDone(v)
        BY <2>1, <3>2, StepOvertakes
      <3> QED
        BY <2>1, <3>1, <3>2 DEF Next
    <2> QED
      BY <2>1 DEF OvertakenAt
  <1> QED
    BY <1>1, BothAlways, OrderAlways, PTL DEF Spec, OvertakenOnlyForMemory
=============================================================================
