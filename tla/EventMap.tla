------------------------------ MODULE EventMap ------------------------------
(***************************************************************************)
(* EventMapManager: the events of one side of a channel, one per number n  *)
(* of tokens (or of free places) some transition waits for.  A map is a    *)
(* function from these thresholds to BOOLEAN, TRUE for a notified event.   *)
(*                                                                         *)
(* The two loops start at upper_bound(count) and stop at the first event   *)
(* that is already as they want it; they never look behind that one.       *)
(***************************************************************************)
EXTENDS Naturals

EventMaps(thresholds) == [thresholds -> BOOLEAN]

\* Mutant: the walk starts at lower_bound(count).
notifiedBelow(ev, count) ==
  {n \in DOMAIN ev : /\ n < count
                     /\ \A m \in DOMAIN ev : n <= m /\ m < count => ~ev[m]}

(* Going down from count: the notified ones are a run of disabled events. *)
notifiedBy(ev, count) ==
  {n \in DOMAIN ev : /\ n <= count
                     /\ \A m \in DOMAIN ev : n <= m /\ m <= count => ~ev[m]}

increasedCount(ev, count) ==
  [n \in DOMAIN ev |-> ev[n] \/ n \in notifiedBy(ev, count)]

(* Going up from the first threshold above count: a run of enabled events. *)
resetBy(ev, count) ==
  {n \in DOMAIN ev : /\ count < n
                     /\ \A m \in DOMAIN ev : count < m /\ m <= n => ev[m]}

decreasedCount(ev, count) ==
  [n \in DOMAIN ev |-> ev[n] /\ n \notin resetBy(ev, count)]

reset(ev) == [n \in DOMAIN ev |-> FALSE]
=============================================================================
