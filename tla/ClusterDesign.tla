--------------------------- MODULE ClusterDesign ---------------------------
(***************************************************************************)
(* test-cluster-example: a static data-flow cluster (three actors and      *)
(* three chains that upsample, forward and downsample) in a loop with an   *)
(* actor that switches between two paths through the cluster.  The loop    *)
(* only runs because two channels hold initial tokens.                     *)
(***************************************************************************)
EXTENDS Network

CONSTANTS Factor,     \* upsample_factor, 10 in the test
          Dummies     \* num_dummy_actors, 5 in the test
ASSUME ClusterAssumption == Factor \in Nat \ {0} /\ Dummies \in Nat \ {0}

Chains == 1 .. 3
Link(n, i) == "link" \o ToString(n) \o "_" \o ToString(i)
Links == {Link(n, i) : n \in Chains, i \in 0 .. Dummies}

(* Where the chains begin and end. *)
ChainIn  == <<"in1", "a2up", "a1up">>
ChainOut == <<"d1a2", "out1", "d3a3">>

(* With CLUSTERED_FIFO_SIZES two firings fit into the first two chains. *)
linkSizes ==
  [c \in Links |-> IF \E i \in 0 .. Dummies : c = Link(3, i) THEN Factor ELSE 2 * Factor]
clusterSizes ==
  [in1 |-> 2, in2 |-> 1, out1 |-> 2, out2 |-> 1,                  \* cluster_ex.cpp
   a1a2 |-> 3, a2a3 |-> 3, d1a2 |-> 2, a2up |-> 2, a1up |-> 1, d3a3 |-> 1] @@ linkSizes
clusterMarking == [a1a2 |-> <<0, 1>>, a2a3 |-> <<0>>]

-----------------------------------------------------------------------------
Upsample(n) ==
  Fire("cluster", ChainIn[n] :> 1, Link(n, 0) :> Stutter(<<fifo[ChainIn[n]][1]>>, Factor), 0, Nothing)
Forward(n, i) ==
  Fire("cluster", Link(n, i - 1) :> 1, Link(n, i) :> <<fifo[Link(n, i - 1)][1]>>, 0, Nothing)
Downsample(n) ==
  Fire("cluster", Link(n, Dummies) :> Factor, ChainOut[n] :> <<fifo[Link(n, Dummies)][1]>>, 0, Nothing)
Actor_a1 == Fire("cluster", [in2 |-> 1], Multicast({"a1up", "a1a2"}, <<fifo.in2[1]>>), 0, Nothing)
Actor_a2 ==
  /\ Readable("d1a2", 2) /\ Readable("a1a2", 2)
  /\ LET x == fifo.d1a2  y == fifo.a1a2
     IN  Fire("cluster", [d1a2 |-> 2, a1a2 |-> 2],
              [a2up |-> <<x[1] + y[1], x[2] - y[2]>>, a2a3 |-> <<x[1] - y[1], x[2] + y[2]>>], 0, Nothing)
Actor_a3 ==
  /\ Readable("d3a3", 1) /\ Readable("a2a3", 1)
  /\ Fire("cluster", [d3a3 |-> 1, a2a3 |-> 1], [out2 |-> <<fifo.d3a3[1] + fifo.a2a3[1]>>], 0, Nothing)
StaticCluster ==
  \/ \E n \in Chains : Upsample(n) \/ Downsample(n) \/ \E i \in 1 .. Dummies : Forward(n, i)
  \/ Actor_a1 \/ Actor_a2 \/ Actor_a3

-----------------------------------------------------------------------------
(* The switch: its own state is <<state, invocation_id>>; the selector is  *)
(* a function of the invocation.                                           *)
selector(id) == IF id = 0 THEN 0 ELSE ((id % 7) + (id % 3)) % 2
Pair == <<0, 1>>

(* Where t5 leads: the first transition whose guard holds. *)
NextPath(id) == IF selector(id) <= 0 THEN "path1_q0" ELSE "path2_q0"

DynSwitch ==
  LET state == at.dyn[1]  id == at.dyn[2]
      Go(in, out, next, said) == Fire("dyn", in, out, <<next, id>>, said)
      Calc(in, out, next, t) ==
        Fire("dyn", in, out, <<next, id + 1>>, <<t, <<"selector", selector(id + 1)>>>>)
  IN
  \/ state = "start" /\ Go(Nothing, [in1 |-> Pair], "path1_q1", <<<<"t1", 0>>>>)
  \/ state = "path1_q1" /\ Calc([out1 |-> 2], [in2 |-> <<0>>], "path1_q3", "t3")
  \/ /\ state = "path1_q3"
     /\ Go([out2 |-> 1], [in2 |-> <<0>>], IF id < Iter THEN NextPath(id) ELSE "stuck", <<"t5">>)
  \/ state = "path1_q0" /\ Go([out2 |-> 1], [in1 |-> Pair], "path1_q1", <<<<"t1", id>>>>)
  \/ state = "path2_q0" /\ Go([out2 |-> 1], [in2 |-> <<0>>], "path2_q2", <<<<"t2", id>>>>)
  \/ state = "path2_q2" /\ Calc([out2 |-> 1], [in1 |-> Pair], "path2_q3", "t4")
  \/ /\ state = "path2_q3" /\ id < Iter      \* its third guard repeats the < of the others
     /\ Go([out1 |-> 2], [in2 |-> <<0>>], NextPath(id), <<"t5">>)

(* The golden log: each invocation takes the path its selector names, and  *)
(* the last one of path 2 is left before t5.                               *)
Invocation(id) ==
  LET path1 == selector(id) = 0
  IN  << <<IF path1 THEN "t1" ELSE "t2", id>>, IF path1 THEN "t3" ELSE "t4",
         <<"selector", selector(id + 1)>> >>
      \o (IF path1 \/ id + 1 < Iter THEN <<"t5">> ELSE <<>>)
clusterNet ==
  Net("cluster", clusterSizes, clusterMarking, [dyn |-> <<"start", 0>>, cluster |-> 0],
      [dyn |-> FlattenSeq([k \in 1 .. Iter |-> Invocation(k - 1)])])

ClusterNext == design = "cluster" /\ (DynSwitch \/ StaticCluster)
=============================================================================
