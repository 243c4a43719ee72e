----------------------------- MODULE StateChart -----------------------------
(***************************************************************************)
(* What a hierarchical state machine means, without product states: a      *)
(* configuration is a set of leaves that agrees with the tree, and taking  *)
(* a transition leads to the one configuration that the transition asks    *)
(* for.  Nothing here is computed step by step: a configuration is         *)
(* described by what is true of it.                                        *)
(*                                                                         *)
(* A machine fsm is a record of                                            *)
(*   parent    the parent of every state but Top                           *)
(*   kind      "leaf", "xor" or "and"; Top is "xor"                        *)
(*   init      the initial child of every xor state                        *)
(*   children  the children of every state, in the order they were added   *)
(*   ptl       the partial transitions of every state, in order            *)
(*   multis    source multi-states: a state, conditions, transitions       *)
(*   junctions the partial transitions of every junction                   *)
(* A partial transition [rule, to] leads to a set of states or a junction; *)
(* its rule stands for its guard and its action.  A condition is a pair of *)
(* a state and TRUE if the state must not be active.                       *)
(***************************************************************************)
EXTENDS Naturals, Sequences, FiniteSets

CONSTANT Top

VARIABLES fsm,      \* the machine, which never changes
          config,   \* the active leaves
          did       \* the rules of the last transition, in order

States == DOMAIN fsm.children
Leaves == {s \in States : fsm.kind[s] = "leaf"}
SetOf(seq) == {seq[i] : i \in DOMAIN seq}

(* The states from s up to Top. *)
Above(s) == LET up[x \in States] == IF x = Top THEN {Top} ELSE {x} \cup up[fsm.parent[x]]
            IN  up[s]
Below(s) == {x \in States : s \in Above(x)}

Active(c) == UNION {Above(s) : s \in c}

Legal(c) ==
  /\ c \subseteq Leaves
  /\ \A s \in Active(c) :
       LET on == SetOf(fsm.children[s]) \cap Active(c)
       IN  /\ fsm.kind[s] = "xor" => Cardinality(on) = 1
           /\ fsm.kind[s] = "and" => on = SetOf(fsm.children[s])
  /\ Top \in Active(c)

(* Outside of scope nothing changes; inside, every destination is active   *)
(* and every xor state without one below it is in its initial state.       *)
Entered(c, d, scope, dests) ==
  /\ Legal(d)
  /\ d \ Below(scope) = c \ Below(scope)
  /\ dests \subseteq Active(d)
  /\ \A s \in Below(scope) \cap Active(d) :
       fsm.kind[s] = "xor" /\ dests \cap (Below(s) \ {s}) = {}
         => fsm.init[s] \in Active(d)

(* A transition leaves and enters the smallest state that contains its     *)
(* source and its destinations.                                            *)
Scope(src, dests) ==
  LET common == {s \in States : \A x \in {src} \cup dests : s \in Above(x)}
  IN  CHOOSE s \in common : common \subseteq Above(s)

(* Transitions that cross from one partition of an and state to another,   *)
(* or ask for two children of an xor state, are not allowed.               *)
CrossesPartitions(src, dests) ==
  LET s == Scope(src, dests)
  IN  fsm.kind[s] = "and" /\ s \notin {src} \cup dests

Contradictory(src, dests) ==
  \E x, y \in dests :
    LET s == Scope(x, {y})
    IN  fsm.kind[s] = "xor" /\ s \notin {x, y} /\ s \in Below(Scope(src, dests))

Allowed(t) == ~CrossesPartitions(t.src, t.dests) /\ ~Contradictory(t.src, t.dests)

(* All ways through the junctions: pairs of rules and destinations. *)
Through(to) ==
  LET J == DOMAIN fsm.junctions
      ways[n \in 0 .. Cardinality(J), x \in J \cup {to}] ==
        IF x \notin J THEN {[rules |-> <<>>, dests |-> x]}
        ELSE IF n = 0 THEN {}
        ELSE UNION {{[rules |-> <<pt.rule>> \o w.rules, dests |-> w.dests] :
                       w \in (IF pt.to \in J THEN ways[n - 1, pt.to]
                              ELSE {[rules |-> <<>>, dests |-> pt.to]})} :
                    pt \in SetOf(fsm.junctions[x])}
  IN  ways[Cardinality(J), to]

From(src, in, pts) ==
  UNION {{[src |-> src, in |-> in, rules |-> <<pt.rule>> \o w.rules,
           dests |-> w.dests] : w \in Through(pt.to)} : pt \in SetOf(pts)}

Transitions ==
  UNION {From(s, {}, fsm.ptl[s]) : s \in States}
    \cup UNION {From(x.state, x.in, x.ptl) : x \in SetOf(fsm.multis)}

Applies(t, c) ==
  /\ t.src \in Active(c)
  /\ \A cond \in t.in : cond[1] \in Active(c) <=> ~cond[2]

-----------------------------------------------------------------------------
CInit == /\ Legal(config)
         /\ \A s \in Active(config) : fsm.kind[s] = "xor" => fsm.init[s] \in Active(config)
         /\ did = <<>>

Take(t) == /\ did' = t.rules
           /\ Applies(t, config)
           /\ Allowed(t)
           /\ Entered(config, config', Scope(t.src, t.dests), t.dests)
           /\ UNCHANGED fsm

CNext == \E t \in Transitions : Take(t)

CSpec == CInit /\ [][CNext]_<<fsm, config, did>>
=============================================================================
