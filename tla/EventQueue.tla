----------------------------- MODULE EventQueue -----------------------------
(***************************************************************************)
(* The event queue of the engine: a binary heap whose key, Event.Priority, *)
(* is the time of an event plus a tiny fraction for its sequence number,   *)
(* added in floating point.                                                *)
(*                                                                         *)
(* Times are whole numbers of 1e-15 ms, the fraction of one event, and the *)
(* floating-point numbers have Precision bits: in the code 53, so that a   *)
(* sum above 16 ms has no room for the fraction of one event; in the model *)
(* few, so that the same happens at small times.                           *)
(*                                                                         *)
(* heap[i] is the slice element with the index i - 1.                      *)
(***************************************************************************)
EXTENDS Integers, SequencesExt

CONSTANTS
  Times,      (* the times of the events that a run schedules              *)
  Precision,  (* the bits of a floating-point number                       *)
  MaxEvents   (* bound on the events of a run                              *)

(* The least unit in which numbers of the size of n are kept, which has an *)
(* exponent of at most n, and n rounded to it, halves to even.             *)
Unit(n) ==
  LET k == CHOOSE k \in 0..n :
             /\ n < 2^(k + Precision)
             /\ \A j \in 0..(k - 1) : n >= 2^(j + Precision)
  IN 2^k

Rounded(n) ==
  LET u == Unit(n)
      q == n \div u
  IN IF 2 * (n % u) < u \/ (2 * (n % u) = u /\ q % 2 = 0)
     THEN q * u ELSE (q + 1) * u

(* A time is a floating-point number itself.                               *)
ASSUME EventAssumption ==
  /\ Times \subseteq Nat
  /\ \A t \in Times : Rounded(t) = t
  /\ Precision \in Nat \ {0} /\ MaxEvents \in Nat

VARIABLES
  heap,     (* PriorityQueue.inner                                         *)
  seqNum,   (* Engine.seqNum                                               *)
  clock,    (* Engine.clock                                                *)
  running   (* whether main has called Run                                 *)

vars == <<heap, seqNum, clock, running>>

PriorityScaled(e) == Rounded(e.timeMs + 8 * e.seqNum)   \* a larger fraction
Priority(e) == Rounded(e.timeMs + e.seqNum)

Less(h, i, j) == Priority(h[i]) < Priority(h[j])
Swap(h, i, j) == [h EXCEPT ![i] = h[j], ![j] = h[i]]

-----------------------------------------------------------------------------
(* The heap package of Go: up lifts the last element of h as long as it is *)
(* less than its parent, down lowers the first as long as a child of it is *)
(* less; `at' is where the element is.                                     *)
Up(h) ==
  FoldLeft(LAMBDA st, turn :
             LET parent == st.at \div 2 IN
             IF parent >= 1 /\ Less(st.h, st.at, parent)
             THEN [h |-> Swap(st.h, st.at, parent), at |-> parent] ELSE st,
           [h |-> h, at |-> Len(h)], h).h

LeftChild(h, at) == 2 * at   \* the right child is never looked at

SmallerChild(h, at) ==
  IF 2 * at < Len(h) /\ Less(h, 2 * at + 1, 2 * at) THEN 2 * at + 1 ELSE 2 * at

Down(h) ==
  FoldLeft(LAMBDA st, turn :
             LET child == SmallerChild(st.h, st.at) IN
             IF child <= Len(st.h) /\ Less(st.h, child, st.at)
             THEN [h |-> Swap(st.h, st.at, child), at |-> child] ELSE st,
           [h |-> h, at |-> 1], h).h

(* PriorityQueue.Push, and what Pop leaves of the heap.                    *)
Push(h, e) == Up(Append(h, e))

PopFirst(h) == Down(Tail(h))   \* the slice is cut at its front

Pop(h) ==
  IF Len(h) = 1 THEN <<>> ELSE Down(Front(Swap(h, 1, Len(h))))

-----------------------------------------------------------------------------
(* ScheduleEvent, for each of a sequence of times.                         *)
ScheduledAlike(h, times) ==   \* the sequence number is not increased
  FoldLeftDomain(LAMBDA g, i :
                   Push(g, [timeMs |-> times[i], seqNum |-> seqNum]),
                 h, times)

Scheduled(h, times) ==
  FoldLeftDomain(LAMBDA g, i :
                   Push(g, [timeMs |-> times[i], seqNum |-> seqNum + i - 1]),
                 h, times)

Schedules == {<<>>} \cup {<<t>> : t \in Times} \cup (Times \X Times)

(* main schedules the arrivals before it runs the engine.                  *)
Init ==
  /\ heap = <<>>
  /\ seqNum = 0
  /\ clock = 0
  /\ running = FALSE

ScheduleArrival(t) ==
  /\ ~running /\ seqNum < MaxEvents
  /\ heap' = Scheduled(heap, <<t>>)
  /\ seqNum' = seqNum + 1
  /\ UNCHANGED <<clock, running>>

(* One turn of the loop in Run: pop an event, and schedule what its        *)
(* handler schedules, which is not in the past.                            *)
Turn(times) ==
  /\ heap # <<>>
  /\ seqNum + Len(times) <= MaxEvents
  /\ running' = TRUE
  /\ clock' = heap[1].timeMs
  /\ \A i \in DOMAIN times : times[i] >= clock'
  /\ heap' = Scheduled(Pop(heap), times)
  /\ seqNum' = seqNum + Len(times)

Next ==
  \/ \E t \in Times : ScheduleArrival(t)
  \/ \E times \in Schedules : Turn(times)

Spec == Init /\ [][Next]_vars

-----------------------------------------------------------------------------
TypeOK ==
  /\ heap \in Seq([timeMs : Times, seqNum : 0..(seqNum - 1)])
  /\ Cardinality({e.seqNum : e \in ToSet(heap)}) = Len(heap)
  /\ seqNum \in 0..MaxEvents
  /\ clock \in Times \cup {0}
  /\ running \in BOOLEAN

(* Whatever was pushed and popped, no element of the heap is less than its *)
(* parent, so that the first one is the one to fire.                       *)
HeapOrdered ==
  \A i \in 2..Len(heap) : Priority(heap[i \div 2]) <= Priority(heap[i])

(* The heap with its rounded keys hands out every event, in the order of   *)
(* time but for the fractions: an event may be moved past a later one, but *)
(* only past one that is no further away than the fractions of all events  *)
(* of the run are, rounded.                                                *)
Until(t) == Rounded(t + MaxEvents)

Abstract == INSTANCE EventBag WITH events <- ToSet(heap)

ImplementsEventBag == Abstract!Spec

(* The clock is turned back by no more than that.                          *)
ClockNearlyMonotone == [][clock <= Until(clock')]_vars

(* Of two events of one time the one that was scheduled first fires first. *)
FiresBefore(e, f) ==
  e \in ToSet(heap) \ ToSet(heap') /\ f \in ToSet(heap) \cap ToSet(heap')

InOrder(e, f) == e.timeMs = f.timeMs => e.seqNum < f.seqNum

(* As long as the sums are exact, ties are broken by the sequence number.  *)
Exact(e) == Priority(e) = e.timeMs + e.seqNum

ExactTiesInOrder ==
  [][\A e, f \in ToSet(heap) :
       FiresBefore(e, f) /\ Exact(e) /\ Exact(f) => InOrder(e, f)]_vars

(* ARCHITECTURE.md: ties are broken FIFO by insertion sequence number.     *)
TiesInOrder ==
  [][\A e, f \in ToSet(heap) : FiresBefore(e, f) => InOrder(e, f)]_vars
=============================================================================
