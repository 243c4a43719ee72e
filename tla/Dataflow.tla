------------------------------ MODULE Dataflow ------------------------------
(***************************************************************************)
(* What a dataflow graph promises its designer, without events, lists and  *)
(* schedulers: an active actor takes a transition of its current state     *)
(* when all tokens and places the transition asks for are there, and the   *)
(* firing happens at once.  Constants and rules are those of Actors.       *)
(***************************************************************************)
EXTENDS Integers, Functions

CONSTANTS Node, Chan, ResetChan, Depth, Marking, ResetScope, Initial, Rules

VARIABLES tok, state, on

Enough(rule) ==
  /\ \A p \in Range(rule.in) : p.r <= tok[p.chan]
  /\ \A p \in Range(rule.out) : p.chan \in Chan => tok[p.chan] + p.n <= Depth[p.chan]

(* A reset port resets the FIFOs and the actors of its scope. *)
Clears(p, c)   == p.chan \in ResetChan /\ c \in ResetScope[p.chan].chans
Restarts(p, m) == p.chan \in ResetChan /\ m \in ResetScope[p.chan].nodes

Taken(rule, c) == LET ports == {p \in Range(rule.in) : p.chan = c}
                  IN  IF ports = {} THEN 0 ELSE (CHOOSE p \in ports : TRUE).c

(* What is written before a reset of its FIFO is lost. *)
Produced(rule, c) ==
  LET ports == {i \in DOMAIN rule.out :
                  /\ rule.out[i].chan = c
                  /\ \A j \in DOMAIN rule.out : i < j => ~Clears(rule.out[j], c)}
  IN  IF ports = {} THEN 0 ELSE rule.out[CHOOSE i \in ports : TRUE].n

(* An action's last call of setActive for an actor decides. *)
Switched(rule, m) ==
  \/ on[m] /\ \A s \in Range(rule.switch) : s.node # m
  \/ \E i \in DOMAIN rule.switch :
       /\ rule.switch[i].node = m /\ rule.switch[i].flag
       /\ \A j \in DOMAIN rule.switch : i < j => rule.switch[j].node # m

Effect(m, rule) ==
  /\ tok' = [c \in Chan |-> (IF \E p \in Range(rule.out) : Clears(p, c)
                             THEN Marking[c] ELSE tok[c] - Taken(rule, c))
                              + Produced(rule, c)]
  /\ state' = [k \in Node |-> IF k = m THEN rule.dest
                              ELSE IF \E p \in Range(rule.out) : Restarts(p, k)
                              THEN Initial[k] ELSE state[k]]
  /\ on' = [k \in Node |-> Switched(rule, k)]

Fire(m) == \E i \in DOMAIN Rules[m][state[m]] :
             LET rule == Rules[m][state[m]][i]
             IN  on[m] /\ Enough(rule) /\ Effect(m, rule)

Init == tok = Marking /\ state = Initial /\ on = [m \in Node |-> TRUE]

Next == \E m \in Node : Fire(m)

Spec == Init /\ [][Next]_<<tok, state, on>>
=============================================================================
