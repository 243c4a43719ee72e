------------------------------ MODULE HierFSM ------------------------------
(***************************************************************************)
(* How FiringFSM turns a hierarchy of states into the flat machine that    *)
(* runs.  finalise() gives every state a code, of which its ancestors'     *)
(* codes are prefixes, and turns the partial transitions into the list     *)
(* etl; before_end_of_elaboration() then builds the product states that    *)
(* can be reached, with their runtime transitions, from a list ns of those *)
(* still to be looked at.  The machine then moves along the transitions.   *)
(* StateChart describes the machine a user draws, and what it means.       *)
(***************************************************************************)
EXTENDS Naturals, Sequences, FiniteSets
LOCAL INSTANCE SequencesExt

CONSTANTS Machines,       \* the machines to flatten
          Top,            \* the XORStateImpl around the user's states
          ModelingError   \* what a computation that throws returns, or one
                          \* in which an assertion fails

VARIABLES fsm,      \* the machine
          place,    \* code and bits of every state
          etl,      \* the expanded transitions, in order
          table,    \* the product states found: the keys of st
          ns,       \* those whose transitions are still missing
          tl,       \* the runtime transitions of the others
          failed,   \* the flattening gave up
          current,  \* the product state the actor is in
          fired     \* the rules of its last transition, in order

vars == <<fsm, place, etl, table, ns, tl, failed, current, fired>>

States == DOMAIN fsm.children

-----------------------------------------------------------------------------
(* finalise().                                                             *)

(* CoSupport: the logarithm to base two, rounded up. *)
flog2c(n) == CHOOSE b \in 0 .. n : 2^b >= n /\ \A a \in 0 .. n : 2^a >= n => b <= a

IndexIn(seq, x) == CHOOSE i \in DOMAIN seq : seq[i] = x

(* The children of a state share its code, followed by their own number. *)
PlaceOf(m) ==
  LET at[s \in DOMAIN m.children] ==
        IF s = Top THEN [code |-> 0, bits |-> 1]
        ELSE LET p  == m.parent[s]
                 cb == flog2c(Len(m.children[p]))
             IN  [code |-> at[p].code * 2^cb + IndexIn(m.children[p], s) - 1,
                  bits |-> at[p].bits + cb]
  IN  at

(* expandTransition: a destination is expanded to itself, a junction to    *)
(* what its own transitions lead to, in order.                             *)
Expand(m, pts) ==
  LET J == DOMAIN m.junctions
      ends[n \in 0 .. Cardinality(J), x \in J] ==
        FlattenSeq([i \in DOMAIN m.junctions[x] |->
          LET pt == m.junctions[x][i]
              on == IF pt.to \in J THEN ends[n - 1, pt.to]
                                   ELSE << [rules |-> <<>>, dests |-> pt.to] >>
          IN  [k \in DOMAIN on |-> [on[k] EXCEPT !.rules = <<pt.rule>> \o @]]])
      one(pt) ==
        LET on == IF pt.to \in J THEN ends[Cardinality(J), pt.to]
                                 ELSE << [rules |-> <<>>, dests |-> pt.to] >>
        IN  [k \in DOMAIN on |-> [on[k] EXCEPT !.rules = <<pt.rule>> \o @]]
  IN  FlattenSeq([i \in DOMAIN pts |-> one(pts[i])])

(* Mutant: the conditions are not handed on. *)
ExpandedAlways(m, src, in, pts) ==
  LET es == Expand(m, pts)
  IN  [i \in DOMAIN es |-> [src |-> src, in |-> {},
                            rules |-> es[i].rules, dests |-> es[i].dests]]

Expanded(m, src, in, pts) ==
  LET es == Expand(m, pts)
  IN  [i \in DOMAIN es |-> [src |-> src, in |-> in,
                            rules |-> es[i].rules, dests |-> es[i].dests]]

(* Mutant: parents first. *)
ParentsFirst(m) ==
  LET below[s \in DOMAIN m.children] ==
        Expanded(m, s, {}, m.ptl[s])
          \o FlattenSeq([i \in DOMAIN m.children[s] |-> below[m.children[s][i]]])
  IN  FlattenSeq([i \in DOMAIN m.multis |->
        Expanded(m, m.multis[i].state, m.multis[i].in, m.multis[i].ptl)])
      \o below[Top]

(* Multi-states are finalised first, then the tree, children first. *)
ExpandedTransitions(m) ==
  LET below[s \in DOMAIN m.children] ==
        FlattenSeq([i \in DOMAIN m.children[s] |-> below[m.children[s][i]]])
          \o Expanded(m, s, {}, m.ptl[s])
  IN  FlattenSeq([i \in DOMAIN m.multis |->
        Expanded(m, m.multis[i].state, m.multis[i].in, m.multis[i].ptl)])
      \o below[Top]

-----------------------------------------------------------------------------
(* The tree as the flattening sees it.                                     *)

isAncestor(s, t) ==
  \/ s = t
  \/ /\ place[t].bits > place[s].bits
     /\ place[s].code = place[t].code \div 2^(place[t].bits - place[s].bits)

(* Mutant: the parents are forgotten. *)
markNoParents(dests) == dests

(* mark(): a state and its parents. *)
mark(dests) ==
  LET up[s \in States] == IF s = Top THEN {s} ELSE {s} \cup up[fsm.parent[s]]
  IN  UNION {up[s] : s \in dests}

(* isImplied(), for a state and for conditions. *)
isImplied(s, p) == \E i \in p : isAncestor(s, i)

(* Mutant: "not in" is taken for "in". *)
conditionsPositive(in, p) == \A cond \in in : isImplied(cond[1], p)

conditionsHold(in, p) == \A cond \in in : isImplied(cond[1], p) <=> ~cond[2]

(* Mutant: nobody checks for partitions. *)
getTopStateUnchecked(src, dests) ==
  LET common == {s \in States : \A d \in {src} \cup dests : s \in mark({d})}
  IN  CHOOSE s \in common : common \subseteq mark({s})

(* getTopState(): climb from the source to the state that is left and      *)
(* entered again.  Above Top, an assertion fails.                          *)
getTopState(src, dests) ==
  LET covers(s) == IF fsm.kind[s] = "leaf" THEN dests \subseteq {s}
                   ELSE \A d \in dests : isAncestor(s, d)
      climb[s \in States, isSrcState \in BOOLEAN] ==
        IF ~covers(s) THEN IF s = Top THEN ModelingError ELSE climb[fsm.parent[s], FALSE]
        ELSE IF fsm.kind[s] = "and" /\ ~isSrcState /\ s \notin dests
             THEN ModelingError
             ELSE s
  IN  climb[src, TRUE]

(* getInitialState(): descend from s along the marked states, and along    *)
(* the initial ones where nothing is marked.                               *)
getInitialState(x, m) ==
  LET descend[s \in States] ==
        LET children == {fsm.children[s][i] : i \in DOMAIN fsm.children[s]}
            marked   == children \cap m
        IN  CASE fsm.kind[s] = "leaf" -> {s}
              [] fsm.kind[s] = "and"  -> UNION {descend[c] : c \in children}
              [] fsm.kind[s] = "xor"  ->
                   IF Cardinality(marked) > 1 THEN {ModelingError}
                   ELSE descend[IF marked = {} THEN fsm.init[s]
                                ELSE CHOOSE c \in marked : TRUE]
  IN  descend[x]

applicable(t, s) == isImplied(t.src, s) /\ conditionsHold(t.in, s)

(* What stays of the product state s when x is left. *)
staying(s, x) == {i \in s : ~isAncestor(x, i)}

(* The product state that t leads to from s. *)
target(t, s) ==
  LET x == getTopState(t.src, t.dests)
  IN  IF x = ModelingError THEN {ModelingError}
      ELSE getInitialState(x, mark(t.dests)) \cup staying(s, x)

-----------------------------------------------------------------------------
Init ==
  /\ fsm \in Machines
  /\ place = PlaceOf(fsm)
  /\ etl = ExpandedTransitions(fsm)
  /\ current = getInitialState(Top, {})
  /\ table = {current}
  /\ ns = <<current>>
  /\ tl = [s \in {} |-> <<>>]
  /\ failed = FALSE
  /\ fired = <<>>

(* The state table and ns once the transition r has been added. *)
note(found, r) ==
  IF r.to \in found[1] THEN found
  ELSE << found[1] \cup {r.to}, Append(found[2], r.to) >>

(* One round of the loop over ns. *)
LookAt ==
  LET s    == Head(ns)
      ts   == SelectSeq(etl, LAMBDA t : applicable(t, s))
      rts  == [i \in DOMAIN ts |-> [rules |-> ts[i].rules, to |-> target(ts[i], s)]]
      found == FoldLeft(note, << table, Tail(ns) >>, rts)
  IN  /\ ~failed
      /\ ns # <<>>
      /\ \/ /\ \E i \in DOMAIN rts : ModelingError \in rts[i].to
            /\ failed' = TRUE
            /\ UNCHANGED <<table, ns, tl>>
         \/ /\ \A i \in DOMAIN rts : ModelingError \notin rts[i].to
            /\ table' = found[1]
            /\ ns' = found[2]
            /\ tl' = [p \in DOMAIN tl \cup {s} |-> IF p = s THEN rts ELSE tl[p]]
            /\ UNCHANGED failed
      /\ UNCHANGED <<fsm, place, etl, current, fired>>

(* searchActiveTransition() takes the first transition all of whose rules  *)
(* agree.  Guards may say anything, as long as equal rules say the same.   *)
Fire ==
  /\ ~failed
  /\ ns = <<>>
  /\ \E i \in DOMAIN tl[current] :
       /\ \A k \in 1 .. i - 1 :
            ~(ToSet(tl[current][k].rules) \subseteq ToSet(tl[current][i].rules))
       /\ current' = tl[current][i].to
       /\ fired' = tl[current][i].rules
  /\ UNCHANGED <<fsm, place, etl, table, ns, tl, failed>>

Next == LookAt \/ Fire

Spec == Init /\ [][Next]_vars

-----------------------------------------------------------------------------
Chart == INSTANCE StateChart WITH config <- current, did <- fired

(* The product states that have just been given their transitions. *)
LookedAt == DOMAIN tl' \ DOMAIN tl

(* A transition is a runtime transition of exactly those product states in *)
(* which its source is active and its conditions hold: none is lost, and   *)
(* none is added that a user did not draw.                                 *)
TransitionsComplete ==
  [][\A p \in LookedAt :
       {tl'[p][i].rules : i \in DOMAIN tl'[p]} =
         {t.rules : t \in {u \in Chart!Transitions : Chart!Applies(u, p)}}]_vars

(* Flattening fails only for a machine with a transition that crosses      *)
(* partitions or contradicts itself, and never lets one through.           *)
ErrorsDeserved ==
  [][/\ failed' # failed =>
          \E t \in Chart!Transitions : Chart!Applies(t, Head(ns)) /\ ~Chart!Allowed(t)
     /\ \A p \in LookedAt, t \in Chart!Transitions :
          Chart!Applies(t, p) => Chart!Allowed(t)]_vars

(* Of two transitions of one product state, the one of the inner state is  *)
(* tried first, unless a multi-state is the source of one.                 *)
InnerFirst ==
  [][\A p \in LookedAt :
       LET plain   == {t \in Chart!Transitions : t.in = {} /\ Chart!Applies(t, p)}
           sources == UNION {{<<i, t.src>> : i \in {n \in DOMAIN tl'[p] :
                                                  tl'[p][n].rules = t.rules}} : t \in plain}
       IN  \A x, y \in sources :
             x[2] # y[2] /\ y[2] \in Chart!Above(x[2]) => x[1] < y[1]]_vars

(* The flat machine does what the hierarchical one would. *)
ImplementsChart == Chart!CSpec
=============================================================================
