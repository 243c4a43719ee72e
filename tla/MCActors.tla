------------------------------ MODULE MCActors ------------------------------
(* Two small graphs for the actor runtime. *)
EXTENDS Actors

CONSTANTS src, mid, snk, c1, c2, rst

R(in, out, guarded, switch, dest) ==
  [in |-> in, out |-> out, guarded |-> guarded, switch |-> switch, dest |-> dest]
In(c, n, r)     == [chan |-> c, c |-> n, r |-> r]
Out(c, n)       == [chan |-> c, n |-> n]
Switch(m, flag) == [node |-> m, flag |-> flag]

(* A pipeline src -> mid -> snk.  mid changes its rates with its state and *)
(* switches itself off; snk and src switch it off and on again.            *)
PipelineRules ==
  src :> [s |-> << R(<<>>, <<Out(c1, 1)>>, TRUE, <<>>, "s"),
                   R(<<>>, <<Out(c1, 2)>>, FALSE, <<Switch(mid, TRUE)>>, "s") >>] @@
  mid :> [a |-> << R(<<In(c1, 2, 2)>>, <<Out(c2, 2)>>, TRUE, <<>>, "b"),
                   R(<<In(c1, 1, 1)>>, <<Out(c2, 1)>>, FALSE, <<>>, "a") >>,
          b |-> << R(<<In(c1, 1, 2)>>, <<Out(c2, 1)>>, FALSE, <<Switch(mid, FALSE)>>, "a") >>] @@
  snk :> [s |-> << R(<<In(c2, 2, 2)>>, <<>>, TRUE, <<Switch(mid, FALSE)>>, "s"),
                   R(<<In(c2, 1, 1)>>, <<>>, FALSE, <<Switch(mid, TRUE)>>, "s") >>]
PipelineNode    == {src, mid, snk}
PipelineInitial == src :> "s" @@ mid :> "a" @@ snk :> "s"

ASSUME PipelineIsPointToPoint == Rules = PipelineRules => PointToPoint

(* One shared FIFO with two readers; both look at the tokens they would    *)
(* take, one of them at two.  What mid does makes snk switch it off,   *)
(* reset it, the channels and itself, but not src, and switch it on.       *)
SharedRules ==
  src :> [s |-> << R(<<>>, <<Out(c1, 1)>>, FALSE, <<>>, "s") >>] @@
  mid :> [s |-> << R(<<In(c1, 1, 1)>>, <<Out(c2, 1)>>, TRUE, <<>>, "s") >>] @@
  snk :> [s |-> << R(<<In(c1, 2, 2)>>, <<>>, TRUE, <<>>, "t"),
                   R(<<In(c1, 1, 1)>>, <<>>, TRUE, <<>>, "s") >>,
          t |-> << R(<<In(c2, 1, 1)>>, <<Out(rst, 1)>>, FALSE, <<Switch(mid, FALSE)>>, "u") >>,
          u |-> << R(<<>>, <<>>, FALSE, <<Switch(mid, TRUE)>>, "s") >>]
SharedNode    == {src, mid, snk}
SharedInitial == src :> "s" @@ mid :> "s" @@ snk :> "s"
ResetAll      == rst :> [chans |-> {c1, c2}, nodes |-> {mid, snk}]

TwoDeep   == c1 :> 2 @@ c2 :> 2
ThreeDeep == c1 :> 3 @@ c2 :> 1
OneEach   == c1 :> 1 @@ c2 :> 0
NoScope   == <<>>
=============================================================================
