--------------------------- MODULE ServingProofs ---------------------------
(***************************************************************************)
(* The invariants of Serving, proved for every number of workers and       *)
(* requests, every size of them and every prefix.                          *)
(***************************************************************************)
EXTENDS Serving, ModelProofs

-----------------------------------------------------------------------------
(* The prefix caches and the matched tokens keep their types.              *)
LEMMA RemoveRefsType ==
  ASSUME NEW cache \in [PrefixIDs -> PrefixState], NEW S \in SUBSET Requests
  PROVE  RemoveRefs(cache, S) \in [PrefixIDs -> PrefixState]
  <1> SUFFICES ASSUME NEW p \in PrefixIDs
               PROVE  RemoveRefs(cache, S)[p] \in PrefixState
    BY DEF RemoveRefs
  <1> DEFINE n == Cardinality(Users(S, p))
  <1>1. n \in Nat
    BY UsersFinite
  <1>2. RemoveRefs(cache, S)[p] =
          IF n = 0 THEN cache[p]
          ELSE IF cache[p].refs <= n THEN NoEntry
          ELSE [tokens |-> cache[p].tokens, refs |-> cache[p].refs - n]
    BY DEF RemoveRefs
  <1> HIDE DEF n
  <1> QED
    BY <1>1, <1>2 DEF PrefixState, NoEntry

LEMMA AddRefsType ==
  ASSUME NEW cache \in [PrefixIDs -> PrefixState], NEW F \in SUBSET Requests,
         NEW first \in [PrefixIDs -> Requests]
  PROVE  AddRefs(cache, F, first) \in [PrefixIDs -> PrefixState]
  <1> SUFFICES ASSUME NEW p \in PrefixIDs
               PROVE  AddRefs(cache, F, first)[p] \in PrefixState
    BY DEF AddRefs
  <1> DEFINE n == Cardinality(Users(F, p))
  <1>1. n \in Nat
    BY UsersFinite
  <1>2. ContextTokens[first[p]] \in Nat
    BY ModelAssumption
  <1>3. AddRefs(cache, F, first)[p] =
          IF n = 0 THEN cache[p]
          ELSE IF cache[p] # NoEntry
               THEN [tokens |-> cache[p].tokens, refs |-> cache[p].refs + n]
          ELSE [tokens |-> ContextTokens[first[p]], refs |-> n]
    BY DEF AddRefs
  <1> HIDE DEF n
  <1> QED
    BY <1>1, <1>2, <1>3 DEF PrefixState

LEMMA PrefixHitType ==
  ASSUME NEW cache \in [PrefixIDs -> PrefixState],
         NEW first \in [PrefixIDs -> Requests],
         NEW r \in Requests, PrefixID[r] # NoPrefix
  PROVE  PrefixHit(cache, first, r) \in Nat
  BY ModelAssumption DEF PrefixHit, PrefixState

(* What Admit does to the variables it changes.                            *)
LEMMA AdmitType ==
  ASSUME matched \in [Requests -> Nat],
         NEW W, NEW q \in SUBSET Requests,
         NEW kept \in [Workers -> SUBSET Requests],
         NEW cache \in [Workers -> [PrefixIDs -> PrefixState]],
         NEW gen, NEW fill \in [Workers -> SUBSET Requests],
         Admit(W, q, kept, cache, gen, fill)
  PROVE  /\ queue' \in SUBSET Requests
         /\ batch' \in [Workers -> SUBSET Requests]
         /\ prefixCache' \in [Workers -> [PrefixIDs -> PrefixState]]
         /\ matched' \in [Requests -> Nat]
  <1>1. PICK first \in [Workers -> [PrefixIDs -> Requests]] :
          /\ prefixCache' =
               [w \in Workers |-> AddRefs(cache[w], fill[w], first[w])]
          /\ matched' =
               [r \in Requests |->
                  IF PrefixID[r] # NoPrefix /\ \E w \in Workers : r \in fill[w]
                  THEN LET w == CHOOSE v \in Workers : r \in fill[v]
                       IN  PrefixHit(cache[w], first[w], r)
                  ELSE matched[r]]
    BY DEF Admit
  <1>2. queue' \in SUBSET Requests /\ batch' \in [Workers -> SUBSET Requests]
    BY DEF Admit, LeftInQueue
  <1>3. prefixCache' \in [Workers -> [PrefixIDs -> PrefixState]]
    BY <1>1, AddRefsType
  <1>4. ASSUME NEW r \in Requests, PrefixID[r] # NoPrefix,
               \E w \in Workers : r \in fill[w]
        PROVE  LET w == CHOOSE v \in Workers : r \in fill[v]
               IN  PrefixHit(cache[w], first[w], r) \in Nat
    BY <1>4, PrefixHitType
  <1>5. matched' \in [Requests -> Nat]
    BY <1>1, <1>4
  <1> QED
    BY <1>2, <1>3, <1>5

-----------------------------------------------------------------------------
(* The parts of a step, and what it does to the variables one by one.      *)
LEMMA StepParts ==
  ASSUME TypeOK, NEW w \in Workers
  PROVE  /\ Finished(w) \subseteq batch[w]
         /\ Active(w) \subseteq batch[w]
         /\ Finished(w) \cap Active(w) = {}
         /\ Finished(w) \cup Active(w) = batch[w]
         /\ batch[w] \subseteq Requests
         /\ Advanced(w) \in [Requests -> Nat]
  BY DEF TypeOK, Finished, Active, Advanced

LEMMA StepFill ==
  ASSUME NEW w \in Workers, NEW F
  PROVE  UNION {[v \in Workers |-> IF v = w THEN F ELSE {}][x] : x \in Workers}
           = F
  OBVIOUS

LEMMA StepEffect ==
  ASSUME TypeOK, NEW w \in Workers, NEW victims \in SUBSET Active(w),
         NEW F \in SUBSET (queue \cup victims), StepWith(w, victims, F)
  PROVE  /\ queue' = (queue \cup victims) \ F
         /\ batch' = [batch EXCEPT ![w] = (Active(w) \ victims) \cup F]
         /\ generated' = [r \in Requests |->
                            IF r \in victims THEN 0 ELSE Advanced(w)[r]]
         /\ steps' = [steps EXCEPT ![w] =
                        IF (Active(w) \ victims) \cup F # {} THEN @ ELSE @ - 1]
         /\ done' = done \cup Finished(w)
         /\ completed' = completed + Cardinality(Finished(w))
         /\ pending' = pending
  <1> DEFINE fill == [v \in Workers |-> IF v = w THEN F ELSE {}]
             released == RemoveRefs(prefixCache[w], Finished(w))
             gen == Restarted(Advanced(w), victims)
             kept == [batch EXCEPT ![w] = Active(w) \ victims]
             cache == [prefixCache EXCEPT ![w] = RemoveRefs(released, victims)]
  <1>1. Admit({w}, queue \cup victims, kept, cache, gen, fill)
    BY DEF StepWith
  <1>2. queue' = (queue \cup victims) \ F
    <2>1. queue' = (queue \cup victims) \ UNION {fill[x] : x \in Workers}
      BY <1>1 DEF Admit, LeftInQueue
    <2>2. UNION {fill[x] : x \in Workers} = F
      BY StepFill
    <2> QED
      BY <2>1, <2>2
  <1>3. batch' = [batch EXCEPT ![w] = (Active(w) \ victims) \cup F]
    <2>1. batch' = [x \in Workers |-> kept[x] \cup fill[x]]
      BY <1>1 DEF Admit
    <2>2. batch \in [Workers -> SUBSET Requests]
      BY DEF TypeOK
    <2> QED
      BY <2>1, <2>2
  <1> QED
    BY <1>2, <1>3 DEF StepWith, Restarted

LEMMA StepType ==
  ASSUME TypeOK, NEW w \in Workers, TokenStepDone(w)
  PROVE  TypeOK'
  <1>0. PICK victims \in SUBSET Active(w) :
          \E F \in SUBSET (queue \cup victims) : StepWith(w, victims, F)
    BY DEF TokenStepDone
  <1>1. PICK F \in SUBSET (queue \cup victims) : StepWith(w, victims, F)
    BY <1>0
  <1>2. steps[w] > 0
    BY DEF TokenStepDone
  <1> DEFINE fill == [v \in Workers |-> IF v = w THEN F ELSE {}]
             released == RemoveRefs(prefixCache[w], Finished(w))
             gen == Restarted(Advanced(w), victims)
             kept == [batch EXCEPT ![w] = Active(w) \ victims]
             cache == [prefixCache EXCEPT ![w] = RemoveRefs(released, victims)]
  <1>3. victims \in SUBSET Requests /\ Finished(w) \in SUBSET Requests
        /\ F \in SUBSET Requests
    BY StepParts DEF TypeOK
  <1>4. cache \in [Workers -> [PrefixIDs -> PrefixState]]
    <2>1. released \in [PrefixIDs -> PrefixState]
      BY <1>3, RemoveRefsType DEF TypeOK
    <2>2. RemoveRefs(released, victims) \in [PrefixIDs -> PrefixState]
      BY <1>3, <2>1, RemoveRefsType
    <2> QED
      BY <2>2 DEF TypeOK
  <1>5. kept \in [Workers -> SUBSET Requests]
        /\ fill \in [Workers -> SUBSET Requests]
    BY <1>3, StepParts DEF TypeOK
  <1>6. Admit({w}, queue \cup victims, kept, cache, gen, fill)
    BY <1>1 DEF StepWith
  <1>7. prefixCache' \in [Workers -> [PrefixIDs -> PrefixState]]
        /\ matched' \in [Requests -> Nat]
        /\ queue' \in SUBSET Requests
        /\ batch' \in [Workers -> SUBSET Requests]
    <2>1. queue \cup victims \in SUBSET Requests /\ matched \in [Requests -> Nat]
      BY <1>3 DEF TypeOK
    <2> HIDE DEF kept, cache, gen, fill
    <2> QED
      BY <1>4, <1>5, <1>6, <2>1, AdmitType
  <1>8. Cardinality(Finished(w)) \in Nat
    BY <1>3, ModelAssumption, FS_Subset, FS_CardinalityType
  <1>9. /\ generated' = [r \in Requests |->
                           IF r \in victims THEN 0 ELSE Advanced(w)[r]]
        /\ steps' = [steps EXCEPT ![w] =
                       IF (Active(w) \ victims) \cup F # {} THEN @ ELSE @ - 1]
        /\ done' = done \cup Finished(w)
        /\ completed' = completed + Cardinality(Finished(w))
        /\ pending' = pending
    <2> HIDE DEF fill, released, gen, kept, cache
    <2> QED
      BY <1>1, StepEffect
  <1>10. generated' \in [Requests -> Nat]
    BY <1>9, StepParts
  <1>11. steps' \in [Workers -> Nat]
    BY <1>2, <1>9 DEF TypeOK
  <1>12. done' \subseteq Requests /\ completed' \in Nat /\ pending' \subseteq Requests
    BY <1>3, <1>8, <1>9 DEF TypeOK
  <1> QED
    BY <1>7, <1>10, <1>11, <1>12 DEF TypeOK

LEMMA ArrivalType ==
  ASSUME TypeOK, NEW r \in Requests, Arrival(r)
  PROVE  TypeOK'
  <1>1. PICK fill \in [Workers -> SUBSET (queue \cup {r})] : ArrivalWith(r, fill)
    BY DEF Arrival
  <1>2. fill \in [Workers -> SUBSET Requests] /\ queue \cup {r} \in SUBSET Requests
    BY <1>1 DEF TypeOK
  <1>3. /\ Admit(IdleWorkers, queue \cup {r}, batch, prefixCache, generated, fill)
        /\ pending' = pending \ {r}
        /\ steps' = [w \in Workers |->
                       IF fill[w] # {} THEN steps[w] + 1 ELSE steps[w]]
        /\ UNCHANGED <<generated, done, completed>>
    BY <1>1 DEF ArrivalWith
  <1>4. /\ queue' \in SUBSET Requests
        /\ batch' \in [Workers -> SUBSET Requests]
        /\ prefixCache' \in [Workers -> [PrefixIDs -> PrefixState]]
        /\ matched' \in [Requests -> Nat]
    BY <1>2, <1>3, AdmitType DEF TypeOK
  <1> QED
    BY <1>3, <1>4 DEF TypeOK

(* Every variable keeps its type; in particular no reference count and no  *)
(* counter of outstanding step events ever falls below zero.               *)
THEOREM TypeCorrect == Spec => []TypeOK
  <1>1. Init => TypeOK
    BY DEF Init, TypeOK, EmptyCache, NoEntry, PrefixState
  <1>2. TypeOK /\ [Next]_vars => TypeOK'
    <2> SUFFICES ASSUME TypeOK, [Next]_vars PROVE TypeOK'
      OBVIOUS
    <2>1. ASSUME NEW r \in Requests, Arrival(r) PROVE TypeOK'
      BY <2>1, ArrivalType
    <2>2. ASSUME NEW w \in Workers, TokenStepDone(w) PROVE TypeOK'
      BY <2>2, StepType
    <2>3. CASE UNCHANGED vars
      BY <2>3 DEF vars, TypeOK
    <2> QED
      BY <2>1, <2>2, <2>3 DEF Next
  <1> QED
    BY <1>1, <1>2, PTL DEF Spec

-----------------------------------------------------------------------------
(* Which place a request is in, and how many events a worker has.          *)
LEMMA ArrivalEffect ==
  ASSUME TypeOK, NEW r \in Requests,
         NEW fill \in [Workers -> SUBSET (queue \cup {r})], ArrivalWith(r, fill)
  PROVE  /\ pending' = pending \ {r}
         /\ queue' = (queue \cup {r}) \ UNION {fill[w] : w \in Workers}
         /\ batch' = [w \in Workers |-> batch[w] \cup fill[w]]
         /\ \A w \in Workers : batch[w] # {} => fill[w] = {}
         /\ \A v, w \in Workers : v # w => fill[v] \cap fill[w] = {}
         /\ steps' = [w \in Workers |->
                        IF fill[w] # {} THEN steps[w] + 1 ELSE steps[w]]
         /\ UNCHANGED <<generated, done, completed>>
  BY DEF ArrivalWith, Admit, LeftInQueue, IdleWorkers

LEMMA StepCases ==
  ASSUME TypeOK, NEW w \in Workers, TokenStepDone(w)
  PROVE  \E victims \in SUBSET Active(w) :
           \E F \in SUBSET (queue \cup victims) :
             /\ StepWith(w, victims, F)
             /\ queue' = (queue \cup victims) \ F
             /\ batch' = [batch EXCEPT ![w] = (Active(w) \ victims) \cup F]
             /\ generated' = [r \in Requests |->
                                IF r \in victims THEN 0 ELSE Advanced(w)[r]]
             /\ steps' = [steps EXCEPT ![w] =
                            IF (Active(w) \ victims) \cup F # {}
                            THEN @ ELSE @ - 1]
             /\ done' = done \cup Finished(w)
             /\ completed' = completed + Cardinality(Finished(w))
             /\ pending' = pending
             /\ steps[w] > 0
  <1>1. PICK victims \in SUBSET Active(w) :
          \E F \in SUBSET (queue \cup victims) : StepWith(w, victims, F)
    BY DEF TokenStepDone
  <1>2. PICK F \in SUBSET (queue \cup victims) : StepWith(w, victims, F)
    BY <1>1
  <1>3. steps[w] > 0
    BY DEF TokenStepDone
  <1> QED
    BY <1>2, <1>3, StepEffect

LEMMA ArrivalPlaces ==
  ASSUME TypeOK, ExactlyOnePlace, NEW r \in Requests, Arrival(r)
  PROVE  ExactlyOnePlace'
  <1>1. PICK fill \in [Workers -> SUBSET (queue \cup {r})] : ArrivalWith(r, fill)
    BY DEF Arrival
  <1>2. r \in pending
    BY DEF Arrival
  <1> DEFINE Filled == UNION {fill[w] : w \in Workers}
  <1>3. /\ pending' = pending \ {r}
        /\ queue' = (queue \cup {r}) \ Filled
        /\ batch' = [w \in Workers |-> batch[w] \cup fill[w]]
        /\ \A v, w \in Workers : v # w => fill[v] \cap fill[w] = {}
        /\ done' = done
    BY <1>1, ArrivalEffect
  <1>4. batch \in [Workers -> SUBSET Requests]
    BY DEF TypeOK
  <1>5. Placed' = Placed \cup Filled
    BY <1>3, <1>4 DEF Placed
  <1>6. Filled \subseteq queue \cup {r}
    BY <1>1
  <1>7. \A v, w \in Workers : v # w => batch'[v] \cap batch'[w] = {}
    <2> SUFFICES ASSUME NEW v \in Workers, NEW w \in Workers, v # w,
                        NEW x \in batch'[v] \cap batch'[w]
                 PROVE  FALSE
      OBVIOUS
    <2>1. x \in batch[v] \/ x \in fill[v]
      BY <1>3
    <2>2. x \in batch[w] \/ x \in fill[w]
      BY <1>3
    <2>3. x \in batch[v] \/ x \in batch[w] => x \in Placed
      BY DEF Placed
    <2>4. x \in fill[v] \/ x \in fill[w] => x \in queue \cup {r}
      BY <1>1
    <2>5. Placed \cap (queue \cup {r}) = {}
      BY <1>2 DEF ExactlyOnePlace
    <2>6. batch[v] \cap batch[w] = {} /\ fill[v] \cap fill[w] = {}
      BY <1>3 DEF ExactlyOnePlace
    <2> QED
      BY <2>1, <2>2, <2>3, <2>4, <2>5, <2>6
  <1> HIDE DEF Filled
  <1> QED
    BY <1>2, <1>3, <1>5, <1>6, <1>7 DEF ExactlyOnePlace

LEMMA StepPlaces ==
  ASSUME TypeOK, ExactlyOnePlace, NEW w \in Workers, TokenStepDone(w)
  PROVE  ExactlyOnePlace'
  <1>1. PICK victims \in SUBSET Active(w) :
          \E F \in SUBSET (queue \cup victims) :
            /\ queue' = (queue \cup victims) \ F
            /\ batch' = [batch EXCEPT ![w] = (Active(w) \ victims) \cup F]
            /\ done' = done \cup Finished(w)
            /\ pending' = pending
    BY StepCases
  <1>2. PICK F \in SUBSET (queue \cup victims) :
          /\ queue' = (queue \cup victims) \ F
          /\ batch' = [batch EXCEPT ![w] = (Active(w) \ victims) \cup F]
          /\ done' = done \cup Finished(w)
          /\ pending' = pending
    BY <1>1
  <1> DEFINE Others == UNION {batch[v] : v \in Workers \ {w}}
             Stay == (Active(w) \ victims) \cup F
  <1>3. batch \in [Workers -> SUBSET Requests]
    BY DEF TypeOK
  <1>4. /\ Finished(w) \cap Active(w) = {}
        /\ Finished(w) \cup Active(w) = batch[w]
    BY StepParts
  <1>5. Placed = Others \cup batch[w]
    BY DEF Placed
  <1>6. Others \cap batch[w] = {}
    BY DEF ExactlyOnePlace
  <1>7. Placed' = Others \cup Stay
    <2>1. \A v \in Workers : batch'[v] = IF v = w THEN Stay ELSE batch[v]
      BY <1>2, <1>3
    <2> HIDE DEF Stay
    <2> QED
      BY <2>1 DEF Placed
  <1>8. \A v, u \in Workers : v # u => batch'[v] \cap batch'[u] = {}
    <2>1. \A v \in Workers : batch'[v] = IF v = w THEN Stay ELSE batch[v]
      BY <1>2, <1>3
    <2>2. \A v \in Workers : v # w => batch[v] \subseteq Others
      OBVIOUS
    <2>3. queue \cap Placed = {}
      BY DEF ExactlyOnePlace
    <2>4. Stay \subseteq batch[w] \cup queue
      BY <1>2, <1>4
    <2>5. Stay \cap Others = {}
      <3> HIDE DEF Stay, Others
      <3> QED
        BY <1>5, <1>6, <2>3, <2>4
    <2>6. \A v, u \in Workers : v # u => batch[v] \cap batch[u] = {}
      BY DEF ExactlyOnePlace
    <2> HIDE DEF Stay, Others
    <2> QED
      BY <2>1, <2>2, <2>5, <2>6
  <1>9. /\ Requests = pending \cup queue \cup Placed \cup done
        /\ pending \cap (queue \cup Placed \cup done) = {}
        /\ queue \cap (Placed \cup done) = {}
        /\ Placed \cap done = {}
    BY DEF ExactlyOnePlace
  <1> DEFINE A == Active(w)
             D == Finished(w)
  <1> HIDE DEF Others, A, D
  <1>10. Requests = pending' \cup queue' \cup Placed' \cup done'
    BY <1>2, <1>4, <1>5, <1>7, <1>9 DEF A, D
  <1>11. pending' \cap (queue' \cup Placed' \cup done') = {}
    BY <1>2, <1>4, <1>5, <1>7, <1>9 DEF A, D
  <1>12. queue' \cap (Placed' \cup done') = {}
    BY <1>2, <1>4, <1>5, <1>6, <1>7, <1>9 DEF A, D
  <1>13. Placed' \cap done' = {}
    BY <1>2, <1>4, <1>5, <1>6, <1>7, <1>9 DEF A, D
  <1> QED
    BY <1>8, <1>10, <1>11, <1>12, <1>13 DEF ExactlyOnePlace

LEMMA ArrivalSteps ==
  ASSUME TypeOK, StepPerBusyWorker, NEW r \in Requests, Arrival(r)
  PROVE  StepPerBusyWorker'
  <1>1. PICK fill \in [Workers -> SUBSET (queue \cup {r})] : ArrivalWith(r, fill)
    BY DEF Arrival
  <1>2. /\ batch' = [w \in Workers |-> batch[w] \cup fill[w]]
        /\ \A w \in Workers : batch[w] # {} => fill[w] = {}
        /\ steps' = [w \in Workers |->
                       IF fill[w] # {} THEN steps[w] + 1 ELSE steps[w]]
    BY <1>1, ArrivalEffect
  <1> SUFFICES ASSUME NEW w \in Workers
               PROVE  steps'[w] = IF batch'[w] = {} THEN 0 ELSE 1
    BY DEF StepPerBusyWorker
  <1>3. steps[w] = IF batch[w] = {} THEN 0 ELSE 1
    BY DEF StepPerBusyWorker
  <1>4. CASE fill[w] = {}
    BY <1>2, <1>3, <1>4
  <1>5. CASE fill[w] # {}
    BY <1>2, <1>3, <1>5
  <1> QED
    BY <1>4, <1>5

LEMMA StepSteps ==
  ASSUME TypeOK, StepPerBusyWorker, NEW w \in Workers, TokenStepDone(w)
  PROVE  StepPerBusyWorker'
  <1>1. PICK victims \in SUBSET Active(w) :
          \E F \in SUBSET (queue \cup victims) :
            /\ batch' = [batch EXCEPT ![w] = (Active(w) \ victims) \cup F]
            /\ steps' = [steps EXCEPT ![w] =
                           IF (Active(w) \ victims) \cup F # {}
                           THEN @ ELSE @ - 1]
            /\ steps[w] > 0
    BY StepCases
  <1>2. PICK F \in SUBSET (queue \cup victims) :
          /\ batch' = [batch EXCEPT ![w] = (Active(w) \ victims) \cup F]
          /\ steps' = [steps EXCEPT ![w] =
                         IF (Active(w) \ victims) \cup F # {}
                         THEN @ ELSE @ - 1]
          /\ steps[w] > 0
    BY <1>1
  <1>3. steps[w] = 1
    BY <1>2 DEF StepPerBusyWorker
  <1>4. batch \in [Workers -> SUBSET Requests] /\ steps \in [Workers -> Nat]
    BY DEF TypeOK
  <1> QED
    BY <1>2, <1>3, <1>4 DEF StepPerBusyWorker

(* The requests of a batch that finish were not completed before.          *)
LEMMA StepCounts ==
  ASSUME TypeOK, ExactlyOnePlace, CompletedOnce,
         NEW w \in Workers, TokenStepDone(w)
  PROVE  CompletedOnce'
  <1>1. done' = done \cup Finished(w)
        /\ completed' = completed + Cardinality(Finished(w))
    BY StepCases
  <1>2. Finished(w) \subseteq Placed
    BY StepParts DEF Placed
  <1>3. done \cap Finished(w) = {}
    BY <1>2 DEF ExactlyOnePlace
  <1>4. IsFiniteSet(done) /\ IsFiniteSet(Finished(w))
    <2>1. done \subseteq Requests
      BY DEF TypeOK
    <2>2. Finished(w) \subseteq Requests
      BY StepParts
    <2> QED
      BY <2>1, <2>2, ModelAssumption, FS_Subset
  <1>5. Cardinality(done \cup Finished(w))
          = Cardinality(done) + Cardinality(Finished(w))
    <2>1. Cardinality(done \cup Finished(w))
            = Cardinality(done) + Cardinality(Finished(w))
                - Cardinality(done \cap Finished(w))
      BY <1>4, FS_Union
    <2>2. Cardinality(done \cap Finished(w)) = 0
      BY <1>3, FS_EmptySet
    <2>3. Cardinality(done) \in Nat /\ Cardinality(Finished(w)) \in Nat
      BY <1>4, FS_CardinalityType
    <2> QED
      BY <2>1, <2>2, <2>3
  <1> QED
    BY <1>1, <1>5 DEF CompletedOnce

(* Topping up a batch respects its limit.                                  *)
LEMMA LimitKept ==
  ASSUME NEW B \in SUBSET Requests, NEW F \in SUBSET Requests,
         NEW used, Fits(B, F, used), Cardinality(B) <= MaxBatchSize
  PROVE  Cardinality(B \cup F) <= MaxBatchSize
  <1>1. IsFiniteSet(B) /\ IsFiniteSet(F)
    BY ModelAssumption, FS_Subset
  <1>2. /\ Cardinality(B) \in Nat /\ Cardinality(F) \in Nat
        /\ Cardinality(B \cap F) \in Nat
        /\ Cardinality(B \cup F)
             = Cardinality(B) + Cardinality(F) - Cardinality(B \cap F)
    BY <1>1, FS_Union, FS_CardinalityType, FS_Intersection
  <1>3. CASE F = {}
    <2>1. B \cup F = B
      BY <1>3
    <2> QED
      BY <2>1
  <1>4. CASE F # {}
    BY <1>2, <1>4, ModelAssumption DEF Fits
  <1> QED
    BY <1>3, <1>4

LEMMA ArrivalLimit ==
  ASSUME TypeOK, BatchWithinLimit, NEW r \in Requests, Arrival(r)
  PROVE  BatchWithinLimit'
  <1>1. PICK fill \in [Workers -> SUBSET (queue \cup {r})] : ArrivalWith(r, fill)
    BY DEF Arrival
  <1>2. /\ batch' = [w \in Workers |-> batch[w] \cup fill[w]]
        /\ \A w \in Workers : batch[w] # {} => fill[w] = {}
    BY <1>1, ArrivalEffect
  <1> SUFFICES ASSUME NEW w \in Workers
               PROVE  Cardinality(batch'[w]) <= MaxBatchSize
    BY DEF BatchWithinLimit
  <1>3. batch[w] \in SUBSET Requests /\ fill[w] \in SUBSET Requests
    BY DEF TypeOK
  <1>4. Cardinality(batch[w]) <= MaxBatchSize
    BY DEF BatchWithinLimit
  <1>5. CASE batch[w] # {}
    <2>1. batch'[w] = batch[w]
      BY <1>2, <1>5
    <2> QED
      BY <1>4, <2>1
  <1>6. CASE batch[w] = {}
    <2> DEFINE used == UsedTokens(batch[w], generated, matched, prefixCache[w])
    <2>1. Fits(batch[w], fill[w], used)
      BY <1>1, <1>6 DEF ArrivalWith, Admit, IdleWorkers
    <2> HIDE DEF used
    <2>2. Cardinality(batch[w] \cup fill[w]) <= MaxBatchSize
      BY <1>3, <1>4, <2>1, LimitKept
    <2> QED
      BY <1>2, <2>2
  <1> QED
    BY <1>5, <1>6

LEMMA StepLimit ==
  ASSUME TypeOK, BatchWithinLimit, NEW w \in Workers, TokenStepDone(w)
  PROVE  BatchWithinLimit'
  <1>1. PICK victims \in SUBSET Active(w) :
          \E F \in SUBSET (queue \cup victims) :
            /\ StepWith(w, victims, F)
            /\ batch' = [batch EXCEPT ![w] = (Active(w) \ victims) \cup F]
    BY StepCases
  <1>2. PICK F \in SUBSET (queue \cup victims) :
          /\ StepWith(w, victims, F)
          /\ batch' = [batch EXCEPT ![w] = (Active(w) \ victims) \cup F]
    BY <1>1
  <1> DEFINE B == Active(w) \ victims
  <1>3. B \in SUBSET Requests /\ F \in SUBSET Requests /\ B \subseteq batch[w]
        /\ batch[w] \in SUBSET Requests
    <2>1. Active(w) \subseteq batch[w] /\ batch[w] \subseteq Requests
      BY StepParts
    <2> QED
      BY <2>1 DEF TypeOK
  <1>4. \E used : Fits(B, F, used)
    <2>1. \E used : Fits([batch EXCEPT ![w] = B][w],
                         [v \in Workers |-> IF v = w THEN F ELSE {}][w], used)
      BY <1>2 DEF StepWith, Admit
    <2>2. [batch EXCEPT ![w] = B][w] = B
          /\ [v \in Workers |-> IF v = w THEN F ELSE {}][w] = F
      BY DEF TypeOK
    <2> QED
      BY <2>1, <2>2
  <1>5. Cardinality(B) <= MaxBatchSize
    <2>1. Cardinality(batch[w]) <= MaxBatchSize
      BY DEF BatchWithinLimit
    <2>2. IsFiniteSet(batch[w])
      BY <1>3, ModelAssumption, FS_Subset
    <2>3. Cardinality(B) <= Cardinality(batch[w])
          /\ Cardinality(B) \in Nat /\ Cardinality(batch[w]) \in Nat
      BY <1>3, <2>2, FS_Subset, FS_CardinalityType
    <2> QED
      BY <2>1, <2>3, ModelAssumption
  <1>6. Cardinality(B \cup F) <= MaxBatchSize
    BY <1>3, <1>4, <1>5, LimitKept
  <1> HIDE DEF B
  <1> QED
    BY <1>2, <1>6 DEF BatchWithinLimit, TypeOK, B

(* Tokens are earned one by one and lost only on the way to the queue.     *)
LEMMA ArrivalTokens ==
  ASSUME TypeOK, TokenAccounting, NEW r \in Requests, Arrival(r)
  PROVE  TokenAccounting'
  <1>1. PICK fill \in [Workers -> SUBSET (queue \cup {r})] : ArrivalWith(r, fill)
    BY DEF Arrival
  <1>2. r \in pending
    BY DEF Arrival
  <1>3. /\ pending' = pending \ {r}
        /\ queue' = (queue \cup {r}) \ UNION {fill[w] : w \in Workers}
        /\ batch' = [w \in Workers |-> batch[w] \cup fill[w]]
        /\ UNCHANGED <<generated, done>>
    BY <1>1, ArrivalEffect
  <1>4. pending' \cup queue' \subseteq pending \cup queue
    BY <1>2, <1>3
  <1>5. Placed' \subseteq Placed \cup queue \cup {r}
    BY <1>3 DEF Placed
  <1> SUFFICES ASSUME NEW s \in Requests
               PROVE  /\ s \in pending' \cup queue' => generated'[s] = 0
                      /\ s \in Placed' => generated'[s] < TokensWanted(s)
                      /\ s \in done' => generated'[s] = TokensWanted(s)
    BY DEF TokenAccounting
  <1>6. /\ s \in pending \cup queue => generated[s] = 0
        /\ s \in Placed => generated[s] < TokensWanted(s)
        /\ s \in done => generated[s] = TokensWanted(s)
    BY DEF TokenAccounting
  <1>7. 0 < TokensWanted(s)
    BY ModelAssumption DEF TokensWanted
  <1> QED
    BY <1>2, <1>3, <1>4, <1>5, <1>6, <1>7

LEMMA StepTokens ==
  ASSUME TypeOK, ExactlyOnePlace, TokenAccounting,
         NEW w \in Workers, TokenStepDone(w)
  PROVE  TokenAccounting'
  <1>1. PICK victims \in SUBSET Active(w) :
          \E F \in SUBSET (queue \cup victims) :
            /\ queue' = (queue \cup victims) \ F
            /\ batch' = [batch EXCEPT ![w] = (Active(w) \ victims) \cup F]
            /\ generated' = [r \in Requests |->
                               IF r \in victims THEN 0 ELSE Advanced(w)[r]]
            /\ done' = done \cup Finished(w)
            /\ pending' = pending
    BY StepCases
  <1>2. PICK F \in SUBSET (queue \cup victims) :
          /\ queue' = (queue \cup victims) \ F
          /\ batch' = [batch EXCEPT ![w] = (Active(w) \ victims) \cup F]
          /\ generated' = [r \in Requests |->
                             IF r \in victims THEN 0 ELSE Advanced(w)[r]]
          /\ done' = done \cup Finished(w)
          /\ pending' = pending
    BY <1>1
  <1> SUFFICES ASSUME NEW s \in Requests
               PROVE  /\ s \in pending' \cup queue' => generated'[s] = 0
                      /\ s \in Placed' => generated'[s] < TokensWanted(s)
                      /\ s \in done' => generated'[s] = TokensWanted(s)
    BY DEF TokenAccounting
  <1>3. /\ s \in pending \cup queue => generated[s] = 0
        /\ s \in Placed => generated[s] < TokensWanted(s)
        /\ s \in done => generated[s] = TokensWanted(s)
    BY DEF TokenAccounting
  <1>4. /\ TokensWanted(s) = IF OutputTokens[s] = 0 THEN 1 ELSE OutputTokens[s]
        /\ OutputTokens[s] \in Nat
        /\ generated[s] \in Nat
    BY ModelAssumption DEF TokensWanted, TypeOK
  <1>5. generated'[s] = IF s \in victims THEN 0
                        ELSE IF s \in batch[w] THEN generated[s] + 1
                        ELSE generated[s]
    BY <1>2 DEF Advanced
  <1>6. s \in Placed' => s \in Active(w) \ victims \/ s \in F
                         \/ (s \in Placed /\ s \notin batch[w])
    <2> SUFFICES ASSUME NEW v \in Workers, s \in batch'[v]
                 PROVE  s \in Active(w) \ victims \/ s \in F
                          \/ (s \in Placed /\ s \notin batch[w])
      BY DEF Placed
    <2>1. CASE v = w
      BY <1>2, <2>1 DEF TypeOK
    <2>2. CASE v # w
      <3>1. s \in batch[v]
        BY <1>2, <2>2 DEF TypeOK
      <3> QED
        BY <2>2, <3>1 DEF ExactlyOnePlace, Placed
    <2> QED
      BY <2>1, <2>2
  <1>7. /\ pending \cap Placed = {} /\ queue \cap Placed = {}
        /\ done \cap Placed = {}
    BY DEF ExactlyOnePlace
  <1>8. /\ batch[w] \subseteq Placed
        /\ Finished(w) \cup Active(w) = batch[w]
        /\ Finished(w) \cap Active(w) = {}
    BY StepParts DEF Placed
  <1>9. s \in batch[w] =>
          (s \in Finished(w) <=> generated[s] + 1 >= OutputTokens[s])
    BY DEF Finished, IsComplete, Advanced
  <1>10. CASE s \in victims
    BY <1>2, <1>4, <1>5, <1>7, <1>8, <1>10
  <1>11. CASE s \in batch[w] /\ s \notin victims
    <2>1. generated'[s] = generated[s] + 1 /\ generated[s] < TokensWanted(s)
      BY <1>3, <1>5, <1>8, <1>11
    <2>2. s \notin pending' \cup queue'
      BY <1>2, <1>7, <1>8, <1>11
    <2>3. s \in Placed' => s \notin Finished(w)
      BY <1>6, <1>7, <1>8, <1>11
    <2>4. s \in done' => s \in Finished(w)
      BY <1>2, <1>7, <1>8, <1>11
    <2> QED
      BY <1>4, <1>9, <1>11, <2>1, <2>2, <2>3, <2>4
  <1>12. CASE s \notin batch[w]
    <2>1. s \notin victims /\ s \notin Finished(w) /\ s \notin Active(w)
      BY <1>8, <1>12
    <2>2. generated'[s] = generated[s]
      BY <1>5, <1>12, <2>1
    <2>3. s \in Placed' => s \in queue \/ s \in Placed
      BY <1>6, <2>1
    <2> QED
      BY <1>2, <1>3, <1>4, <2>1, <2>2, <2>3
  <1> QED
    BY <1>10, <1>11, <1>12

-----------------------------------------------------------------------------
(* A prefix cache that counts the requests of B that share each prefix.    *)
Counts(cache, B) ==
  \A p \in PrefixIDs :
    /\ cache[p].refs = Cardinality(Users(B, p))
    /\ cache[p].refs = 0 => cache[p] = NoEntry

LEMMA RemoveRefsCounts ==
  ASSUME NEW cache \in [PrefixIDs -> PrefixState],
         NEW B \in SUBSET Requests, NEW S \in SUBSET B, Counts(cache, B)
  PROVE  Counts(RemoveRefs(cache, S), B \ S)
  <1> SUFFICES ASSUME NEW p \in PrefixIDs
               PROVE  LET e == RemoveRefs(cache, S)[p] IN
                      /\ e.refs = Cardinality(Users(B \ S, p))
                      /\ e.refs = 0 => e = NoEntry
    BY DEF Counts
  <1> DEFINE n == Cardinality(Users(S, p))
             m == Cardinality(Users(B, p))
             k == Cardinality(Users(B \ S, p))
             e == RemoveRefs(cache, S)[p]
  <1>1. e = IF n = 0 THEN cache[p]
            ELSE IF cache[p].refs <= n THEN NoEntry
            ELSE [tokens |-> cache[p].tokens, refs |-> cache[p].refs - n]
    BY DEF RemoveRefs
  <1>2. n \in Nat /\ m \in Nat /\ k \in Nat
    BY UsersFinite
  <1>3. m = n + k
    <2>1. IsFiniteSet(Users(B, p)) /\ IsFiniteSet(Users(S, p))
      BY UsersFinite
    <2>2. Users(B \ S, p) = Users(B, p) \ Users(S, p)
      BY DEF Users
    <2>3. Users(B, p) \cap Users(S, p) = Users(S, p)
      BY DEF Users
    <2>4. k = m - n
      BY <2>1, <2>2, <2>3, FS_Difference
    <2> QED
      BY <1>2, <2>4
  <1>4. cache[p].refs = m /\ (m = 0 => cache[p] = NoEntry)
    BY DEF Counts
  <1>5. cache[p] \in PrefixState
    OBVIOUS
  <1> HIDE DEF n, m, k, e
  <1>6. e.refs = k /\ (e.refs = 0 => e = NoEntry)
    BY <1>1, <1>2, <1>3, <1>4, <1>5 DEF PrefixState, NoEntry
  <1> QED
    BY <1>6 DEF e, k

LEMMA AddRefsCounts ==
  ASSUME NEW cache \in [PrefixIDs -> PrefixState],
         NEW B \in SUBSET Requests, NEW F \in SUBSET Requests, B \cap F = {},
         NEW first \in [PrefixIDs -> Requests], Counts(cache, B)
  PROVE  Counts(AddRefs(cache, F, first), B \cup F)
  <1> SUFFICES ASSUME NEW p \in PrefixIDs
               PROVE  LET e == AddRefs(cache, F, first)[p] IN
                      /\ e.refs = Cardinality(Users(B \cup F, p))
                      /\ e.refs = 0 => e = NoEntry
    BY DEF Counts
  <1> DEFINE n == Cardinality(Users(F, p))
             m == Cardinality(Users(B, p))
             k == Cardinality(Users(B \cup F, p))
             e == AddRefs(cache, F, first)[p]
  <1>1. e = IF n = 0 THEN cache[p]
            ELSE IF cache[p] # NoEntry
                 THEN [tokens |-> cache[p].tokens, refs |-> cache[p].refs + n]
            ELSE [tokens |-> ContextTokens[first[p]], refs |-> n]
    BY DEF AddRefs
  <1>2. n \in Nat /\ m \in Nat /\ k \in Nat
    BY UsersFinite
  <1>3. k = m + n
    <2>1. IsFiniteSet(Users(B, p)) /\ IsFiniteSet(Users(F, p))
      BY UsersFinite
    <2>2. Users(B \cup F, p) = Users(B, p) \cup Users(F, p)
      BY DEF Users
    <2>3. Users(B, p) \cap Users(F, p) = {}
      BY DEF Users
    <2>4. k = m + n - Cardinality({})
      BY <2>1, <2>2, <2>3, FS_Union
    <2> QED
      BY <1>2, <2>4, FS_EmptySet
  <1>4. cache[p].refs = m /\ (m = 0 => cache[p] = NoEntry)
    BY DEF Counts
  <1>5. cache[p] \in PrefixState
    OBVIOUS
  <1> HIDE DEF n, m, k, e
  <1>6. e.refs = k /\ (e.refs = 0 => e = NoEntry)
    BY <1>1, <1>2, <1>3, <1>4, <1>5 DEF PrefixState, NoEntry
  <1> QED
    BY <1>6 DEF e, k

(* What Admit leaves in the prefix caches.                                 *)
LEMMA AdmitCounts ==
  ASSUME NEW W, NEW q, NEW kept \in [Workers -> SUBSET Requests],
         NEW cache \in [Workers -> [PrefixIDs -> PrefixState]],
         NEW gen, NEW fill \in [Workers -> SUBSET Requests],
         \A w \in Workers : kept[w] \cap fill[w] = {},
         \A w \in Workers : Counts(cache[w], kept[w]),
         Admit(W, q, kept, cache, gen, fill)
  PROVE  PrefixRefsExact'
  <1>1. PICK first \in [Workers -> [PrefixIDs -> Requests]] :
          prefixCache' =
            [w \in Workers |-> AddRefs(cache[w], fill[w], first[w])]
    BY DEF Admit
  <1>2. batch' = [w \in Workers |-> kept[w] \cup fill[w]]
    BY DEF Admit
  <1>3. ASSUME NEW w \in Workers
        PROVE  Counts(AddRefs(cache[w], fill[w], first[w]), kept[w] \cup fill[w])
    BY AddRefsCounts
  <1> QED
    BY <1>1, <1>2, <1>3 DEF PrefixRefsExact, Counts

LEMMA ArrivalRefs ==
  ASSUME TypeOK, ExactlyOnePlace, PrefixRefsExact,
         NEW r \in Requests, Arrival(r)
  PROVE  PrefixRefsExact'
  <1>1. PICK fill \in [Workers -> SUBSET (queue \cup {r})] : ArrivalWith(r, fill)
    BY DEF Arrival
  <1>2. r \in pending
    BY DEF Arrival
  <1>3. Admit(IdleWorkers, queue \cup {r}, batch, prefixCache, generated, fill)
    BY <1>1 DEF ArrivalWith
  <1>4. /\ batch \in [Workers -> SUBSET Requests]
        /\ prefixCache \in [Workers -> [PrefixIDs -> PrefixState]]
        /\ fill \in [Workers -> SUBSET Requests]
    BY <1>1 DEF TypeOK
  <1>5. \A w \in Workers : batch[w] \cap fill[w] = {}
    BY <1>1, <1>2 DEF ExactlyOnePlace, Placed
  <1>6. \A w \in Workers : Counts(prefixCache[w], batch[w])
    BY DEF PrefixRefsExact, Counts
  <1> QED
    BY <1>3, <1>4, <1>5, <1>6, AdmitCounts

LEMMA StepRefs ==
  ASSUME TypeOK, ExactlyOnePlace, PrefixRefsExact,
         NEW w \in Workers, TokenStepDone(w)
  PROVE  PrefixRefsExact'
  <1>1. PICK victims \in SUBSET Active(w) :
          \E F \in SUBSET (queue \cup victims) : StepWith(w, victims, F)
    BY DEF TokenStepDone
  <1>2. PICK F \in SUBSET (queue \cup victims) : StepWith(w, victims, F)
    BY <1>1
  <1> DEFINE fill == [v \in Workers |-> IF v = w THEN F ELSE {}]
             released == RemoveRefs(prefixCache[w], Finished(w))
             gen == Restarted(Advanced(w), victims)
             kept == [batch EXCEPT ![w] = Active(w) \ victims]
             cache == [prefixCache EXCEPT ![w] = RemoveRefs(released, victims)]
  <1>3. Admit({w}, queue \cup victims, kept, cache, gen, fill)
    BY <1>2 DEF StepWith
  <1>4. /\ Finished(w) \subseteq batch[w]
        /\ Active(w) = batch[w] \ Finished(w)
        /\ batch[w] \in SUBSET Requests
        /\ queue \subseteq Requests
    BY StepParts DEF Active, TypeOK
  <1>5. released \in [PrefixIDs -> PrefixState] /\ Counts(released, Active(w))
    <2>1. prefixCache[w] \in [PrefixIDs -> PrefixState]
      BY DEF TypeOK
    <2>2. Counts(prefixCache[w], batch[w])
      BY DEF PrefixRefsExact, Counts
    <2>3. released \in [PrefixIDs -> PrefixState]
      BY <1>4, <2>1, RemoveRefsType
    <2>4. Counts(released, batch[w] \ Finished(w))
      BY <1>4, <2>1, <2>2, RemoveRefsCounts
    <2> QED
      BY <1>4, <2>3, <2>4
  <1>6. /\ RemoveRefs(released, victims) \in [PrefixIDs -> PrefixState]
        /\ Counts(RemoveRefs(released, victims), Active(w) \ victims)
    <2> HIDE DEF released
    <2>1. Active(w) \in SUBSET Requests /\ victims \in SUBSET Requests
      BY <1>4
    <2> QED
      BY <1>5, <2>1, RemoveRefsType, RemoveRefsCounts
  <1> HIDE DEF released
  <1>7. /\ kept \in [Workers -> SUBSET Requests]
        /\ cache \in [Workers -> [PrefixIDs -> PrefixState]]
        /\ fill \in [Workers -> SUBSET Requests]
    BY <1>4, <1>6 DEF TypeOK
  <1>8. \A v \in Workers : kept[v] \cap fill[v] = {}
    <2>1. (Active(w) \ victims) \cap F = {}
      BY <1>4 DEF ExactlyOnePlace, Placed
    <2> QED
      BY <2>1 DEF TypeOK
  <1>9. \A v \in Workers : Counts(cache[v], kept[v])
    <2>1. ASSUME NEW v \in Workers, v # w PROVE Counts(prefixCache[v], batch[v])
      BY DEF PrefixRefsExact, Counts
    <2>2. /\ cache[w] = RemoveRefs(released, victims)
          /\ kept[w] = Active(w) \ victims
          /\ \A v \in Workers : v # w =>
               cache[v] = prefixCache[v] /\ kept[v] = batch[v]
      BY DEF TypeOK
    <2> HIDE DEF cache, kept
    <2> QED
      BY <1>6, <2>1, <2>2
  <1> HIDE DEF kept, cache, gen, fill
  <1> QED
    BY <1>3, <1>7, <1>8, <1>9, AdmitCounts

-----------------------------------------------------------------------------
(* A batch that fits its worker still does when F is added to it: B keeps  *)
(* what it holds, and a request of F holds no more than its worst case.    *)
LEMMA TopUpFits ==
  ASSUME NEW B \in SUBSET Requests, NEW F \in SUBSET Requests, B \cap F = {},
         NEW gen \in [Requests -> Nat], NEW old \in [Requests -> Nat],
         NEW new \in [Requests -> Nat], \A r \in B : new[r] = old[r],
         \A r \in F : gen[r] = 0,
         NEW cache \in [PrefixIDs -> PrefixState],
         Fits(B, F, UsedTokens(B, gen, old, cache)),
         B # {} => UsedTokens(B, gen, old, cache) <= MemoryTokens
  PROVE  TokenSum(B \cup F, TotalTokens(gen)) - TokenSum(B \cup F, new)
           <= MemoryTokens
  <1> DEFINE total == TotalTokens(gen)
             prefixes == [p \in PrefixIDs |-> cache[p].tokens]
  <1>1. IsFiniteSet(B) /\ IsFiniteSet(F) /\ IsFiniteSet(PrefixIDs)
    BY ModelAssumption, FS_Subset
  <1>2. /\ total \in [Requests -> Nat]
        /\ WorstTokens \in [Requests -> Nat]
        /\ prefixes \in [PrefixIDs -> Nat]
        /\ MemoryTokens \in Nat
    BY ModelAssumption DEF TotalTokens, WorstTokens, PrefixState
  <1>3. UsedTokens(B, gen, old, cache) =
          TokenSum(B, total) - TokenSum(B, old) + TokenSum(PrefixIDs, prefixes)
    BY DEF UsedTokens
  <1>4. TokenSum(B, new) = TokenSum(B, old)
    BY SumEqual
  <1>5. TokenSum(F, total) <= TokenSum(F, WorstTokens)
    <2>1. \A r \in F : total[r] \in Nat /\ WorstTokens[r] \in Nat
                       /\ total[r] <= WorstTokens[r]
      BY ModelAssumption DEF TotalTokens, WorstTokens
    <2> HIDE DEF total
    <2> QED
      BY <1>1, <2>1, SumMonotone
  <1> HIDE DEF total, prefixes
  <1>6. /\ TokenSum(B, total) \in Nat /\ TokenSum(F, total) \in Nat
        /\ TokenSum(B, old) \in Nat /\ TokenSum(F, new) \in Nat
        /\ TokenSum(B, new) \in Nat
        /\ TokenSum(F, WorstTokens) \in Nat
        /\ TokenSum(PrefixIDs, prefixes) \in Nat
    BY <1>1, <1>2, SumType
  <1>7. /\ TokenSum(B \cup F, total) = TokenSum(B, total) + TokenSum(F, total)
        /\ TokenSum(B \cup F, new) = TokenSum(B, new) + TokenSum(F, new)
    BY <1>1, <1>2, SumUnion
  <1>8. B = {} => TokenSum(B, total) = 0 /\ TokenSum(B, new) = 0
    BY SumEmpty
  <1>9. F = {} => TokenSum(F, total) = 0
    BY SumEmpty
  <1>10. F # {} => UsedTokens(B, gen, old, cache) + TokenSum(F, WorstTokens)
                     <= MemoryTokens
    BY DEF Fits
  <1>11. TokenSum(B, total) + TokenSum(F, total)
           - (TokenSum(B, new) + TokenSum(F, new)) <= MemoryTokens
    BY <1>2, <1>3, <1>4, <1>5, <1>6, <1>8, <1>9, <1>10
  <1>12. TokenSum(B \cup F, total) - TokenSum(B \cup F, new) <= MemoryTokens
    BY <1>6, <1>7, <1>11
  <1>13. total = TotalTokens(gen)
    BY DEF total
  <1> QED
    BY <1>12, <1>13

(* Admit sets the matched prefix of the requests it admits and no other.   *)
LEMMA AdmitMatched ==
  ASSUME NEW W, NEW q, NEW kept, NEW cache, NEW gen, NEW fill,
         Admit(W, q, kept, cache, gen, fill), NEW r \in Requests,
         \A w \in Workers : r \notin fill[w], matched \in [Requests -> Nat]
  PROVE  matched'[r] = matched[r]
  BY DEF Admit

(* Memory, when an arrival or the end of a step gives a worker requests.   *)
LEMMA ArrivalMemory ==
  ASSUME TypeOK, TypeOK', ExactlyOnePlace, TokenAccounting, PagedMemoryBound,
         NEW r \in Requests, Arrival(r)
  PROVE  PagedMemoryBound'
  <1> SUFFICES ASSUME PagedAttention, NEW w \in Workers
               PROVE  OwnTokens(batch[w])' <= MemoryTokens
    BY DEF PagedMemoryBound
  <1>1. PICK fill \in [Workers -> SUBSET (queue \cup {r})] : ArrivalWith(r, fill)
    BY DEF Arrival
  <1>2. r \in pending
    BY DEF Arrival
  <1>3. /\ Admit(IdleWorkers, queue \cup {r}, batch, prefixCache, generated, fill)
        /\ batch' = [v \in Workers |-> batch[v] \cup fill[v]]
        /\ batch[w] # {} => fill[w] = {}
        /\ generated' = generated
    <2>1. Admit(IdleWorkers, queue \cup {r}, batch, prefixCache, generated, fill)
      BY <1>1 DEF ArrivalWith
    <2> QED
      BY <1>1, <2>1, ArrivalEffect
  <1>4. /\ batch[w] \in SUBSET Requests /\ fill[w] \in SUBSET Requests
        /\ generated \in [Requests -> Nat]
        /\ matched \in [Requests -> Nat] /\ matched' \in [Requests -> Nat]
        /\ prefixCache[w] \in [PrefixIDs -> PrefixState]
    BY <1>1 DEF TypeOK
  <1>5. CASE batch[w] # {}
    <2>1. batch'[w] = batch[w]
      BY <1>3, <1>5
    <2>2. \A s \in batch[w] : matched'[s] = matched[s]
      <3> SUFFICES ASSUME NEW s \in batch[w] PROVE matched'[s] = matched[s]
        OBVIOUS
      <3>1. \A v \in Workers : s \notin fill[v]
        BY <1>1, <1>2 DEF ExactlyOnePlace, Placed
      <3> QED
        BY <1>3, <1>4, <3>1, AdmitMatched
    <2>3. OwnTokens(batch[w]) <= MemoryTokens
      BY DEF PagedMemoryBound
    <2>4. TokenSum(batch[w], TotalTokens(generated'))
            - TokenSum(batch[w], matched') <= MemoryTokens
      <3>1. TokenSum(batch[w], matched') = TokenSum(batch[w], matched)
        BY <2>2, SumEqual
      <3> QED
        BY <1>3, <2>3, <3>1 DEF OwnTokens
    <2> QED
      BY <2>1, <2>4 DEF OwnTokens
  <1>6. CASE batch[w] = {}
    <2> DEFINE used == UsedTokens(batch[w], generated, matched, prefixCache[w])
    <2>1. Fits(batch[w], fill[w], used)
      BY <1>3, <1>6 DEF Admit, IdleWorkers
    <2>2. \A s \in fill[w] : generated[s] = 0
      BY <1>1, <1>2, <1>4 DEF TokenAccounting
    <2>3. TokenSum(batch[w] \cup fill[w], TotalTokens(generated))
            - TokenSum(batch[w] \cup fill[w], matched') <= MemoryTokens
      BY <1>4, <1>6, <2>1, <2>2, TopUpFits
    <2>4. batch'[w] = batch[w] \cup fill[w] /\ generated' = generated
      BY <1>3
    <2> QED
      BY <2>3, <2>4 DEF OwnTokens
  <1> QED
    BY <1>5, <1>6

LEMMA StepMemory ==
  ASSUME TypeOK, TypeOK', ExactlyOnePlace, TokenAccounting, PagedMemoryBound,
         NEW w \in Workers, TokenStepDone(w)
  PROVE  PagedMemoryBound'
  <1> SUFFICES ASSUME PagedAttention, NEW v \in Workers
               PROVE  OwnTokens(batch[v])' <= MemoryTokens
    BY DEF PagedMemoryBound
  <1>1. PICK victims \in SUBSET Active(w) :
          \E F \in SUBSET (queue \cup victims) : StepWith(w, victims, F)
    BY DEF TokenStepDone
  <1>2. PICK F \in SUBSET (queue \cup victims) : StepWith(w, victims, F)
    BY <1>1
  <1> DEFINE fill == [x \in Workers |-> IF x = w THEN F ELSE {}]
             released == RemoveRefs(prefixCache[w], Finished(w))
             after == RemoveRefs(released, victims)
             gen == Restarted(Advanced(w), victims)
             kept == [batch EXCEPT ![w] = Active(w) \ victims]
             cache == [prefixCache EXCEPT ![w] = after]
             B == Active(w) \ victims
  <1>3. /\ Admit({w}, queue \cup victims, kept, cache, gen, fill)
        /\ Evicted(Active(w), victims, Advanced(w), released)
        /\ generated' = gen
    BY <1>2 DEF StepWith
  <1>4. /\ Active(w) \subseteq batch[w] /\ Finished(w) \subseteq batch[w]
        /\ batch[w] \subseteq Requests
        /\ Advanced(w) \in [Requests -> Nat]
    BY StepParts
  <1>5. /\ batch \in [Workers -> SUBSET Requests]
        /\ prefixCache \in [Workers -> [PrefixIDs -> PrefixState]]
        /\ matched \in [Requests -> Nat] /\ matched' \in [Requests -> Nat]
        /\ generated \in [Requests -> Nat] /\ generated' \in [Requests -> Nat]
        /\ queue \subseteq Requests
    BY DEF TypeOK
  <1>6. batch' = [batch EXCEPT ![w] = B \cup F]
    BY <1>2, StepEffect
  <1>7. /\ B \in SUBSET Requests /\ F \in SUBSET Requests
        /\ B \cap F = {} /\ B \subseteq Placed
    BY <1>4, <1>5 DEF ExactlyOnePlace, Placed
  <1>8. ASSUME NEW s \in Placed, s \notin victims
        PROVE  matched'[s] = matched[s]
    <2>1. s \in Requests
      BY <1>5 DEF Placed
    <2>2. \A x \in Workers : s \notin fill[x]
      BY <1>8 DEF ExactlyOnePlace
    <2> HIDE DEF fill, kept, cache, gen
    <2> QED
      BY <1>3, <1>5, <2>1, <2>2, AdmitMatched
  <1>9. CASE v # w
    <2>1. batch'[v] = batch[v]
      BY <1>5, <1>6, <1>9
    <2>2. \A s \in batch[v] : s \in Placed /\ s \notin batch[w] /\ s \in Requests
      BY <1>5, <1>9 DEF ExactlyOnePlace, Placed
    <2>3. \A s \in batch[v] : matched'[s] = matched[s]
      <3> HIDE DEF fill, kept, cache, gen, B
      <3> QED
        BY <1>4, <1>8, <2>2
    <2>4. \A s \in batch[v] : generated'[s] = generated[s]
      BY <1>3, <1>4, <2>2 DEF Restarted, Advanced
    <2>5. OwnTokens(batch[v]) <= MemoryTokens
      BY DEF PagedMemoryBound
    <2>6. TokenSum(batch[v], TotalTokens(generated'))
            = TokenSum(batch[v], TotalTokens(generated))
      <3>1. \A s \in batch[v] :
              TotalTokens(generated')[s] = TotalTokens(generated)[s]
        BY <2>2, <2>4 DEF TotalTokens
      <3> QED
        BY <3>1, SumEqual
    <2>7. TokenSum(batch[v], matched') = TokenSum(batch[v], matched)
      BY <2>3, SumEqual
    <2> HIDE DEF fill, kept, cache, gen, B
    <2> QED
      BY <2>1, <2>5, <2>6, <2>7 DEF OwnTokens
  <1>10. CASE v = w
    <2>1. after \in [PrefixIDs -> PrefixState]
      <3>1. released \in [PrefixIDs -> PrefixState]
        BY <1>4, <1>5, RemoveRefsType
      <3> HIDE DEF released
      <3>2. victims \in SUBSET Requests
        BY <1>4
      <3> QED
        BY <3>1, <3>2, RemoveRefsType
    <2>2. Fits(B, F, UsedTokens(B, gen, matched, after))
      <3>1. kept[w] = B /\ cache[w] = after /\ fill[w] = F
        BY <1>5
      <3>2. Fits(kept[w], fill[w], UsedTokens(kept[w], gen, matched, cache[w]))
        BY <1>3 DEF Admit
      <3> QED
        BY <3>1, <3>2
    <2>3. B # {} => UsedTokens(B, gen, matched, after) <= MemoryTokens
      <3>1. B # {} =>
              UsedTokens(B, Advanced(w), matched, after) <= MemoryTokens
        BY <1>3 DEF Evicted
      <3>2. TokenSum(B, TotalTokens(gen)) = TokenSum(B, TotalTokens(Advanced(w)))
        <4>1. \A s \in B :
                TotalTokens(gen)[s] = TotalTokens(Advanced(w))[s]
          BY <1>7 DEF TotalTokens, Restarted
        <4> QED
          BY <4>1, SumEqual
      <3> HIDE DEF gen, after, B
      <3> QED
        BY <3>1, <3>2 DEF UsedTokens
    <2>4. \A s \in F : gen[s] = 0
      <3> SUFFICES ASSUME NEW s \in F PROVE gen[s] = 0
        OBVIOUS
      <3>1. s \in victims => gen[s] = 0
        BY <1>7 DEF Restarted
      <3>2. s \in queue => generated[s] = 0 /\ s \notin batch[w]
        BY <1>5 DEF TokenAccounting, ExactlyOnePlace, Placed
      <3>3. s \notin victims => gen[s] = Advanced(w)[s]
        BY <1>7 DEF Restarted
      <3>4. s \notin batch[w] => Advanced(w)[s] = generated[s]
        BY <1>7 DEF Advanced
      <3> QED
        BY <3>1, <3>2, <3>3, <3>4
    <2>5. \A s \in B : matched'[s] = matched[s]
      BY <1>7, <1>8
    <2>6. gen \in [Requests -> Nat]
      BY <1>3, <1>5
    <2>7. TokenSum(B \cup F, TotalTokens(gen)) - TokenSum(B \cup F, matched')
            <= MemoryTokens
      <3> HIDE DEF B, gen, after, fill, kept, cache
      <3> QED
        BY <1>5, <1>7, <2>1, <2>2, <2>3, <2>4, <2>5, <2>6, TopUpFits
    <2>8. batch'[v] = B \cup F
      BY <1>5, <1>6, <1>10
    <2> HIDE DEF B, gen
    <2> QED
      BY <1>3, <2>7, <2>8 DEF OwnTokens
  <1> QED
    BY <1>9, <1>10

-----------------------------------------------------------------------------
(* The invariant of the life of a request.  Its parts lean on each other:  *)
(* a request is counted once because it is in one place, and it stays in   *)
(* one place because the variables have their types.                       *)
Inv == /\ TypeOK
       /\ ExactlyOnePlace
       /\ StepPerBusyWorker
       /\ CompletedOnce
       /\ BatchWithinLimit
       /\ TokenAccounting
       /\ PrefixRefsExact
       /\ PagedMemoryBound

LEMMA InitInv == Init => Inv
  <1> SUFFICES ASSUME Init PROVE Inv
    OBVIOUS
  <1>1. TypeOK
    BY DEF Init, TypeOK, EmptyCache, NoEntry, PrefixState
  <1>2. ExactlyOnePlace
    <2>1. Placed = {}
      BY DEF Init, Placed
    <2> QED
      BY <2>1 DEF Init, ExactlyOnePlace
  <1>3. StepPerBusyWorker
    BY DEF Init, StepPerBusyWorker
  <1>4. CompletedOnce
    BY FS_EmptySet DEF Init, CompletedOnce
  <1>5. BatchWithinLimit
    <2>1. Cardinality({}) <= MaxBatchSize
      BY FS_EmptySet, ModelAssumption
    <2> QED
      BY <2>1 DEF Init, BatchWithinLimit
  <1>6. TokenAccounting
    <2>1. Placed = {}
      BY DEF Init, Placed
    <2> QED
      BY <2>1 DEF Init, TokenAccounting
  <1>7. PrefixRefsExact
    <2>1. \A p : Users({}, p) = {}
      BY DEF Users
    <2> QED
      BY <2>1, FS_EmptySet DEF Init, PrefixRefsExact, EmptyCache, NoEntry
  <1>8. PagedMemoryBound
    <2>1. TokenSum({}, TotalTokens(generated)) - TokenSum({}, matched)
            <= MemoryTokens
      BY SumEmpty, ModelAssumption
    <2> QED
      BY <2>1 DEF Init, PagedMemoryBound, OwnTokens
  <1> QED
    BY <1>1, <1>2, <1>3, <1>4, <1>5, <1>6, <1>7, <1>8 DEF Inv

LEMMA NextInv == Inv /\ [Next]_vars => Inv'
  <1> SUFFICES ASSUME Inv, [Next]_vars PROVE Inv'
    OBVIOUS
  <1>0. TypeOK /\ ExactlyOnePlace /\ StepPerBusyWorker /\ CompletedOnce
        /\ BatchWithinLimit /\ TokenAccounting /\ PrefixRefsExact
        /\ PagedMemoryBound
    BY DEF Inv
  <1>1. ASSUME NEW r \in Requests, Arrival(r) PROVE Inv'
    <2>1. /\ TypeOK' /\ ExactlyOnePlace' /\ StepPerBusyWorker'
          /\ BatchWithinLimit' /\ TokenAccounting' /\ PrefixRefsExact'
      BY <1>0, <1>1, ArrivalType, ArrivalPlaces, ArrivalSteps, ArrivalLimit,
         ArrivalTokens, ArrivalRefs
    <2>4. PagedMemoryBound'
      BY <1>0, <1>1, <2>1, ArrivalMemory
    <2>2. UNCHANGED <<done, completed>>
      BY <1>1 DEF Arrival, ArrivalWith
    <2>3. CompletedOnce'
      BY <1>0, <2>2 DEF CompletedOnce
    <2> QED
      BY <2>1, <2>3, <2>4 DEF Inv
  <1>2. ASSUME NEW w \in Workers, TokenStepDone(w) PROVE Inv'
    <2>1. /\ TypeOK' /\ ExactlyOnePlace' /\ StepPerBusyWorker'
          /\ BatchWithinLimit' /\ TokenAccounting' /\ PrefixRefsExact'
      BY <1>0, <1>2, StepType, StepPlaces, StepSteps, StepLimit, StepTokens,
         StepRefs
    <2>2. CompletedOnce'
      BY <1>0, <1>2, StepCounts
    <2>3. PagedMemoryBound'
      BY <1>0, <1>2, <2>1, StepMemory
    <2> QED
      BY <2>1, <2>2, <2>3 DEF Inv
  <1>3. CASE UNCHANGED vars
    BY <1>0, <1>3 DEF vars, Inv, TypeOK, ExactlyOnePlace, Placed,
                      StepPerBusyWorker, CompletedOnce, BatchWithinLimit,
                      TokenAccounting, PrefixRefsExact, PagedMemoryBound,
                      OwnTokens
  <1> QED
    BY <1>1, <1>2, <1>3 DEF Next

LEMMA InvAlways == Spec => []Inv
  BY InitInv, NextInv, PTL DEF Spec

(* No request is lost or served twice: handleArrival, the dispatch, the    *)
(* OOM loop and RemoveCompleted each move it from one place to one other.  *)
THEOREM NothingLost == Spec => []ExactlyOnePlace
  <1>1. Inv => ExactlyOnePlace
    BY DEF Inv
  <1> QED
    BY <1>1, InvAlways, PTL

(* scheduleTokenStep is reached exactly once for each step of a worker     *)
(* with a batch: no worker stalls, and none steps twice.                   *)
THEOREM OneStepAhead == Spec => []StepPerBusyWorker
  <1>1. Inv => StepPerBusyWorker
    BY DEF Inv
  <1> QED
    BY <1>1, InvAlways, PTL

(* The counter that main reports is the number of completed requests,      *)
(* whatever preemptions they went through.                                 *)
THEOREM CountedOnce == Spec => []CompletedOnce
  <1>1. Inv => CompletedOnce
    BY DEF Inv
  <1> QED
    BY <1>1, InvAlways, PTL

(* tryDispatch and tryFillBatch never take a batch beyond MaxBatchSize.    *)
THEOREM LimitRespected == Spec => []BatchWithinLimit
  <1>1. Inv => BatchWithinLimit
    BY DEF Inv
  <1> QED
    BY <1>1, InvAlways, PTL

(* A waiting request has no tokens and a completed one exactly those it    *)
(* asked for: preemptions neither complete a request early nor late.       *)
THEOREM TokensExact == Spec => []TokenAccounting
  <1>1. Inv => TokenAccounting
    BY DEF Inv
  <1> QED
    BY <1>1, InvAlways, PTL

(* AddToBatch and removeRef keep the reference count of a cached prefix    *)
(* equal to the number of requests of the batch that share it: the entry   *)
(* is neither deleted under a request nor kept after the last one.         *)
THEOREM RefsExact == Spec => []PrefixRefsExact
  <1>1. Inv => PrefixRefsExact
    BY DEF Inv
  <1> QED
    BY <1>1, InvAlways, PTL

(* With paging, the OOM loop and the admission test together keep what the *)
(* requests of a batch hold themselves within the memory of the worker.    *)
THEOREM MemoryBounded == Spec => []PagedMemoryBound
  <1>1. Inv => PagedMemoryBound
    BY DEF Inv
  <1> QED
    BY <1>1, InvAlways, PTL

-----------------------------------------------------------------------------
(* A prefix that no released request carries keeps its entry.              *)
LEMMA RemoveRefsUnused ==
  ASSUME NEW cache, NEW S, NEW p \in PrefixIDs, Users(S, p) = {}
  PROVE  RemoveRefs(cache, S)[p] = cache[p]
  <1>1. Cardinality(Users(S, p)) = 0
    BY FS_EmptySet
  <1> QED
    BY <1>1 DEF RemoveRefs

(* A request that fits a worker alone is never the last one evicted from   *)
(* it, when the batch carries no prefix.                                   *)
LEMMA SomeSurvive ==
  ASSUME Inv, NEW w \in Workers,
         \A r \in batch[w] :
           PrefixID[r] = NoPrefix /\ WorstTokens[r] <= MemoryTokens,
         NEW victims \in SUBSET Active(w), Active(w) # {},
         Evicted(Active(w), victims, Advanced(w),
                 RemoveRefs(prefixCache[w], Finished(w)))
  PROVE  Active(w) \ victims # {}
  <1> SUFFICES ASSUME Active(w) \ victims = {} PROVE FALSE
    OBVIOUS
  <1> DEFINE released == RemoveRefs(prefixCache[w], Finished(w))
             g == Advanced(w)
  <1>1. victims # {} /\ PagedAttention
    BY DEF Evicted
  <1>2. PICK last \in victims :
          UsedTokens((Active(w) \ victims) \cup {last}, g, matched,
                     RemoveRefs(released, victims \ {last})) > MemoryTokens
    BY <1>1 DEF Evicted
  <1> DEFINE cache == RemoveRefs(released, victims \ {last})
             prefixes == [p \in PrefixIDs |-> cache[p].tokens]
  <1>3. (Active(w) \ victims) \cup {last} = {last}
    OBVIOUS
  <1>4. TypeOK /\ PrefixRefsExact
    BY DEF Inv
  <1>5. /\ last \in Requests /\ last \in batch[w]
        /\ Active(w) \subseteq batch[w] /\ Finished(w) \subseteq batch[w]
        /\ g \in [Requests -> Nat]
    BY <1>4, StepParts
  <1>6. \A p \in PrefixIDs : cache[p] = NoEntry
    <2> SUFFICES ASSUME NEW p \in PrefixIDs PROVE cache[p] = NoEntry
      OBVIOUS
    <2>1. \A S \in SUBSET batch[w] : Users(S, p) = {}
      BY ModelAssumption DEF Users
    <2>2. prefixCache[w][p] = NoEntry
      <3>1. Users(batch[w], p) = {}
        BY <2>1
      <3> QED
        BY <1>4, <3>1, FS_EmptySet DEF PrefixRefsExact
    <2>3. released[p] = prefixCache[w][p]
      BY <1>5, <2>1, RemoveRefsUnused
    <2>4. victims \ {last} \in SUBSET batch[w]
      BY <1>5
    <2> HIDE DEF released
    <2>5. cache[p] = released[p]
      BY <2>1, <2>4, RemoveRefsUnused
    <2> QED
      BY <2>2, <2>3, <2>5
  <1>7. TokenSum(PrefixIDs, prefixes) = 0
    <2>1. \A p \in PrefixIDs : prefixes[p] = 0
      BY <1>6 DEF NoEntry
    <2> HIDE DEF prefixes
    <2> QED
      BY <2>1, SumZero
  <1>8. TokenSum({last}, TotalTokens(g)) = ContextTokens[last] + g[last]
    <2>1. TotalTokens(g)[last] = ContextTokens[last] + g[last]
          /\ TotalTokens(g)[last] \in Nat
      BY <1>5, ModelAssumption DEF TotalTokens
    <2> QED
      BY <2>1, SumSingle
  <1>9. TokenSum({last}, matched) = matched[last] /\ matched[last] \in Nat
    <2>1. matched[last] \in Nat
      BY <1>4, <1>5 DEF TypeOK
    <2> QED
      BY <2>1, SumSingle
  <1>10. g[last] < OutputTokens[last]
    BY <1>5, ModelAssumption DEF Active, Finished, IsComplete
  <1>11. ContextTokens[last] + OutputTokens[last] <= MemoryTokens
    BY <1>5 DEF WorstTokens
  <1>12. /\ g[last] \in Nat /\ ContextTokens[last] \in Nat
         /\ OutputTokens[last] \in Nat /\ MemoryTokens \in Nat
    BY <1>5, ModelAssumption
  <1>13. UsedTokens({last}, g, matched, cache)
           = ContextTokens[last] + g[last] - matched[last] + 0
    <2>1. UsedTokens({last}, g, matched, cache)
            = TokenSum({last}, TotalTokens(g)) - TokenSum({last}, matched)
                + TokenSum(PrefixIDs, prefixes)
      BY DEF UsedTokens
    <2> HIDE DEF g, cache, released, prefixes
    <2> QED
      BY <1>7, <1>8, <1>9, <1>12, <2>1
  <1>14. UsedTokens({last}, g, matched, cache) > MemoryTokens
    BY <1>2, <1>3
  <1> HIDE DEF g, cache, released, prefixes
  <1> QED
    BY <1>9, <1>10, <1>11, <1>12, <1>13, <1>14

LEMMA StepProgress ==
  ASSUME Inv, NEW w \in Workers, TokenStepDone(w),
         \A r \in batch[w] :
           PrefixID[r] = NoPrefix /\ WorstTokens[r] <= MemoryTokens
  PROVE  \E r \in batch[w] :
           /\ generated'[r] = generated[r] + 1
           /\ \A s \in batch[w] : generated[s] <= generated[r] \/ s \in done'
  <1>1. TypeOK /\ StepPerBusyWorker
    BY DEF Inv
  <1>2. PICK victims \in SUBSET Active(w) :
          \E F \in SUBSET (queue \cup victims) :
            /\ StepWith(w, victims, F)
            /\ generated' = [r \in Requests |->
                               IF r \in victims THEN 0 ELSE Advanced(w)[r]]
            /\ done' = done \cup Finished(w)
            /\ steps[w] > 0
    BY <1>1, StepCases
  <1>3. Evicted(Active(w), victims, Advanced(w),
                RemoveRefs(prefixCache[w], Finished(w)))
    BY <1>2 DEF StepWith
  <1>4. /\ Finished(w) \subseteq batch[w]
        /\ Active(w) = batch[w] \ Finished(w)
        /\ batch[w] \subseteq Requests
        /\ Advanced(w) = [r \in Requests |->
             IF r \in batch[w] THEN generated[r] + 1 ELSE generated[r]]
    BY <1>1, StepParts DEF Active, Advanced
  <1>5. /\ generated \in [Requests -> Nat]
        /\ Advanced(w) \in [Requests -> Nat]
    BY <1>1, StepParts DEF TypeOK
  <1>6. batch[w] # {}
    <2>1. steps[w] # 0
      BY <1>2
    <2> QED
      BY <1>1, <2>1 DEF StepPerBusyWorker
  <1>7. CASE Active(w) = {}
    <2>1. PICK r \in batch[w] : r \in Finished(w)
      BY <1>4, <1>6, <1>7
    <2>2. generated'[r] = generated[r] + 1
      BY <1>2, <1>4, <1>7, <2>1
    <2>3. \A s \in batch[w] : s \in done'
      BY <1>2, <1>4, <1>7
    <2> QED
      BY <2>2, <2>3
  <1>8. CASE Active(w) # {}
    <2>1. Active(w) \ victims # {}
      BY <1>3, <1>8, SomeSurvive
    <2>2. Active(w) \ victims \in SUBSET Requests
      BY <1>4
    <2>3. PICK r \in Active(w) \ victims :
            \A s \in Active(w) \ victims : generated[s] <= generated[r]
      BY <1>5, <2>1, <2>2, MostAdvanced
    <2>4. generated'[r] = generated[r] + 1
      BY <1>2, <1>4, <2>3
    <2>5. \A v \in victims : generated[v] <= generated[r]
      <3> SUFFICES ASSUME NEW v \in victims PROVE generated[v] <= generated[r]
        OBVIOUS
      <3>1. PagedAttention
        BY <1>3 DEF Evicted
      <3>2. Advanced(w)[v] <= Advanced(w)[r]
        BY <1>3, <2>3, <3>1 DEF Evicted
      <3>3. /\ Advanced(w)[v] = generated[v] + 1
            /\ Advanced(w)[r] = generated[r] + 1
        BY <1>4, <2>3
      <3>4. generated[v] \in Nat /\ generated[r] \in Nat
        BY <1>4, <1>5, <2>3
      <3> QED
        BY <3>2, <3>3, <3>4
    <2>6. \A s \in Finished(w) : s \in done'
      BY <1>2
    <2>7. r \in batch[w]
      BY <1>4, <2>3
    <2> QED
      BY <1>4, <2>3, <2>4, <2>5, <2>6, <2>7
  <1> QED
    BY <1>7, <1>8

(* The victims of the OOM loop are the least advanced requests, so that    *)
(* preemption cannot undo all the progress of a step: one of the most      *)
(* advanced requests completes or keeps its new token.                     *)
THEOREM ProgressMade == Spec => ProgressSurvives
  <1>1. Inv /\ [Next]_vars =>
          [\A w \in Workers :
             /\ TokenStepDone(w)
             /\ \A r \in batch[w] :
                  PrefixID[r] = NoPrefix /\ WorstTokens[r] <= MemoryTokens
             => \E r \in batch[w] :
                  /\ generated'[r] = generated[r] + 1
                  /\ \A s \in batch[w] : generated[s] <= generated[r]
                                          \/ s \in done']_vars
    BY StepProgress
  <1> QED
    BY <1>1, InvAlways, PTL DEF Spec, ProgressSurvives
=============================================================================
