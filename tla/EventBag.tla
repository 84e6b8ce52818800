------------------------------ MODULE EventBag ------------------------------
(***************************************************************************)
(* What the loop of Engine.Run promises, whatever the events do: the clock *)
(* shows the time of the event that fires, none is waiting that should     *)
(* have fired long before, and none is lost.  Nothing is scheduled in the  *)
(* past.                                                                   *)
(***************************************************************************)
EXTENDS Integers

CONSTANT Until(_)  (* the latest time at which an event may fire while one *)
                   (* of the given time is waiting                         *)

VARIABLES
  events,  (* the scheduled events, records with a field timeMs            *)
  clock    (* Engine.clock                                                 *)

vars == <<events, clock>>

Init == clock = 0

Fire(e) ==
  /\ \A f \in events : e.timeMs <= Until(f.timeMs)
  /\ clock' = e.timeMs
  /\ events \ {e} \subseteq events'
  /\ \A f \in events' \ events : f.timeMs >= clock'
  /\ e \notin events'

Schedule ==
  /\ events \subseteq events'
  /\ \A f \in events' \ events : f.timeMs >= clock
  /\ UNCHANGED clock

Next == Schedule \/ \E e \in events : Fire(e)

Spec == Init /\ [][Next]_vars
=============================================================================
