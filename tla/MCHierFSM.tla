----------------------------- MODULE MCHierFSM -----------------------------
(***************************************************************************)
(* Machines for HierFSM: every tree of a few states with transitions       *)
(* between any two of them, and the machines of the tests                  *)
(* test-fsm-hierarchy-and and test-fsm-junction-state.                     *)
(***************************************************************************)
EXTENDS HierFSM, TLC

CONSTANTS Sizes,      \* how many states a tree has
          OnlyChild,  \* whether a state may have a single child
          j1, j2,     \* junctions
          init, k, k0, k1, a, a0, a1, b, c, d, e, f, f0, f1, g, h, i, j, l, m

LOCAL INSTANCE FiniteSetsExt
LOCAL Sq == INSTANCE SequencesExt

-----------------------------------------------------------------------------
(* Trees.  States are numbered level by level. *)

Trees(n) ==
  {p \in [1 .. n -> 0 .. n - 1] :
     /\ \A s \in 1 .. n : p[s] < s
     /\ \A s \in 2 .. n : p[s - 1] <= p[s]
     /\ OnlyChild \/ \A s \in 1 .. n : Cardinality({x \in 1 .. n : p[x] = s}) # 1}

Parent(p, s) == IF p[s] = 0 THEN Top ELSE p[s]
Kids(p, s) == {x \in DOMAIN p : Parent(p, x) = s}
KidsInOrder(p, s) == SelectSeq([n \in DOMAIN p |-> n], LAMBDA x : x \in Kids(p, s))
Inner(p) == {s \in DOMAIN p : Kids(p, s) # {}}

Bare(p) ==
  LET S == DOMAIN p \cup {Top}
  IN  {[parent    |-> [s \in DOMAIN p |-> Parent(p, s)],
        kind      |-> [s \in S |-> IF s = Top THEN "xor"
                                   ELSE IF s \in Inner(p) THEN ks[s] ELSE "leaf"],
        init      |-> [s \in S |-> IF s = Top \/ s \in Inner(p)
                                   THEN IF first THEN Min(Kids(p, s)) ELSE Max(Kids(p, s))
                                   ELSE s],
        children  |-> [s \in S |-> KidsInOrder(p, s)],
        ptl       |-> [s \in S |-> <<>>],
        multis    |-> <<>>,
        junctions |-> [x \in {} |-> <<>>]] :
       ks \in [Inner(p) -> {"xor", "and"}], first \in BOOLEAN}

(* StateChart, to ask which transitions a machine allows. *)
ChartOf(x) == INSTANCE StateChart WITH fsm <- x, config <- {}, did <- <<>>

Dests(x) == {{s, t} : s, t \in DOMAIN x.parent}
Permitted(x, s) == {D \in Dests(x) : ChartOf(x)!Allowed([src |-> s, dests |-> D])}

(* The elements of S, in some order. *)
InSomeOrder(S) == FoldSet(LAMBDA x, seq : Append(seq, x), <<>>, S)

(* Every permitted transition, one transition through two junctions, and   *)
(* one transition for every state and condition.                           *)
Connected(x) ==
  LET States_ == DOMAIN x.parent
      last    == Max(States_)
      own(s)  == InSomeOrder({[rule |-> <<s, D>>, to |-> D] : D \in Permitted(x, s)})
      conds   == InSomeOrder(States_ \X States_ \X BOOLEAN)
  IN  [x EXCEPT
         !.ptl = [s \in DOMAIN @ |->
                    IF s = Top THEN <<>>
                    ELSE own(s) \o IF s = 1 THEN <<[rule |-> <<"one">>, to |-> j1]>>
                                   ELSE <<>>],
         !.multis = [n \in DOMAIN conds |->
                       [state |-> conds[n][1], in |-> {<<conds[n][2], conds[n][3]>>},
                        ptl |-> <<[rule |-> conds[n], to |-> {conds[n][1]}]>>]],
         !.junctions = [y \in {j1, j2} |->
                          IF y = j1 THEN <<[rule |-> <<"two">>, to |-> {last}],
                                           [rule |-> <<"three">>, to |-> j2]>>
                          ELSE <<[rule |-> <<"four">>, to |-> {1}],
                                 [rule |-> <<"five">>, to |-> {1, last}]>>]]

(* The same with one more transition: from the first state to two that     *)
(* contradict each other, or from any state into another partition.        *)
Faulty(x) ==
  LET con == Connected(x)
  IN  UNION {{[con EXCEPT !.ptl[s] = Append(@, [rule |-> <<s, D>>, to |-> D])] :
                D \in {y \in Dests(x) \ Permitted(x, s) : (s = 1 /\ 2 \in y) \/ Cardinality(y) = 1}} :
             s \in DOMAIN x.parent}

TreeMachines ==
  UNION {UNION {{Connected(x)} \cup Faulty(x) : x \in Bare(p)} :
         p \in UNION {Trees(n) : n \in Sizes}}

-----------------------------------------------------------------------------
(* test-fsm-hierarchy-and: the machine of Transform, and fsms.dot, which   *)
(* lists the product states and the transitions between them.              *)

AndChildren ==
  (Top :> <<init, k>>) @@ (k :> <<k0, k1>>) @@ (k0 :> <<a, l>>) @@ (k1 :> <<f, m>>)
    @@ (a :> <<a0, a1>>) @@ (a0 :> <<b, c>>) @@ (a1 :> <<d, e>>)
    @@ (f :> <<f0, f1>>) @@ (f0 :> <<g, h>>) @@ (f1 :> <<i, j>>)
AndStates == DOMAIN AndChildren
               \cup UNION {Sq!ToSet(AndChildren[s]) : s \in DOMAIN AndChildren}

AndMachine ==
  [parent    |-> [s \in AndStates \ {Top} |->
                    CHOOSE p \in DOMAIN AndChildren : s \in Sq!ToSet(AndChildren[p])],
   kind      |-> [s \in AndStates |-> CASE s \in {k, a, f} -> "and"
                                        [] s \in DOMAIN AndChildren \ {k, a, f} -> "xor"
                                        [] OTHER -> "leaf"],
   init      |-> [s \in AndStates |-> IF s \in DOMAIN AndChildren THEN AndChildren[s][1]
                                                                   ELSE s],
   children  |-> [s \in AndStates |-> IF s \in DOMAIN AndChildren THEN AndChildren[s]
                                                                   ELSE <<>>],
   ptl       |-> [s \in AndStates |->
                    CASE s = init -> <<[rule |-> 1, to |-> {k}], [rule |-> 2, to |-> {l, j}]>>
                      [] s = b -> <<[rule |-> 5, to |-> {c}]>>
                      [] OTHER -> <<>>],
   multis    |-> <<[state |-> k,  in |-> {<<i, FALSE>>}, ptl |-> <<[rule |-> 3, to |-> {init}]>>],
                   [state |-> k,  in |-> {<<l, FALSE>>}, ptl |-> <<[rule |-> 4, to |-> {k, m}]>>],
                   [state |-> b,  in |-> {<<m, FALSE>>}, ptl |-> <<[rule |-> 6, to |-> {b}]>>],
                   [state |-> k0, in |-> {<<c, TRUE>>, <<e, TRUE>>},
                    ptl |-> <<[rule |-> 7, to |-> {c, e}]>>]>>,
   junctions |-> [x \in {} |-> <<>>]]

AndProducts ==
  << {init}, {b, d, g, i}, {b, d, m}, {c, d, g, i}, {c, d, m}, {c, e, g, i},
     {c, e, g, j}, {c, e, m}, {l, g, j} >>
AndEdges ==
  {<<1, 2>>, <<1, 9>>, <<2, 1>>, <<2, 6>>, <<2, 4>>, <<3, 3>>, <<3, 8>>, <<3, 5>>,
   <<4, 1>>, <<6, 1>>, <<9, 3>>, <<9, 7>>}

(* test-fsm-junction-state: two ways into the junction, three out of it. *)
JunctionMachine ==
  [parent    |-> init :> Top,
   kind      |-> (Top :> "xor") @@ (init :> "leaf"),
   init      |-> (Top :> init) @@ (init :> init),
   children  |-> (Top :> <<init>>) @@ (init :> <<>>),
   ptl       |-> (Top :> <<>>) @@ (init :> << [rule |-> 1, to |-> j1], [rule |-> 2, to |-> j1] >>),
   multis    |-> <<>>,
   junctions |-> j1 :> << [rule |-> 3, to |-> {init}], [rule |-> 4, to |-> {init}],
                          [rule |-> 5, to |-> {init}] >>]

(* The product states and transitions are those fsms.dot lists. *)
AsInFsmsDot ==
  ns = <<>> =>
    /\ fsm = AndMachine =>
         /\ table = Sq!ToSet(AndProducts)
         /\ UNION {{<<p, r.to>> : r \in Sq!ToSet(tl[p])} : p \in table}
              = {<<AndProducts[x[1]], AndProducts[x[2]]>> : x \in AndEdges}
         /\ \A p \in table : Len(tl[p]) = Cardinality({r.to : r \in Sq!ToSet(tl[p])})
    /\ fsm = JunctionMachine =>
         tl[{init}] = [n \in 1 .. 6 |-> [rules |-> << (n + 2) \div 3, ((n - 1) % 3) + 3 >>,
                                         to |-> {init}]]

MCMachines == TreeMachines \cup {AndMachine, JunctionMachine}
=============================================================================
