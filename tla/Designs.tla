------------------------------ MODULE Designs ------------------------------
(***************************************************************************)
(* The designs of the repository (its regression tests with their golden   *)
(* logs, its tutorial, networks of the blocks of its actor library) as one *)
(* specification: Init elaborates one of them, Next lets any actor of it   *)
(* fire.  The order in which actors fire is left open, as the order in     *)
(* which SystemC wakes them is: what an actor prints must not depend on    *)
(* it, but where the design itself leaves the order open.                  *)
(***************************************************************************)
EXTENDS SrcSnkDesigns, ComputeDesigns, FsmDesigns, ClusterDesign, TutorialDesigns, LibraryDesigns

Nets == SrcSnkNets \cup ComputeNets \cup FsmNets \cup TutorialNets \cup LibraryNets \cup {clusterNet}

Init == \E net \in Nets : Elaborate(net)

Next == SrcSnkNext \/ ComputeNext \/ FsmNext \/ ClusterNext \/ TutorialNext \/ LibraryNext

\* A SystemC simulation goes on as long as some actor can fire.
Spec == Init /\ [][Next]_nvars /\ WF_nvars(Next)

(* In every order of the firings every actor prints nothing but a          *)
(* beginning of its golden log: the designs are determinate although their *)
(* actors run interleaved, merge inputs, peek and share registers.  Two    *)
(* actors have more than one permitted log, because what they do depends   *)
(* on the schedule: the sink of data-flow prints some interleaving of the  *)
(* two messages and nothing else, and the transformer of hier-and may make *)
(* a detour for any token but the first.                                   *)
LogsAsGolden == \A a \in DOMAIN log : \E permitted \in golden[a] : IsPrefix(log[a], permitted)

(* No order of the firings leaves a design stuck with tokens undelivered:  *)
(* the buffers given in the designs are large enough and every log gets    *)
(* complete, and then stays as it is.                                      *)
RunsComplete == <>[](\A a \in DOMAIN log : log[a] \in golden[a])
=============================================================================
