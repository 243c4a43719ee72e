------------------------------ MODULE Network ------------------------------
(***************************************************************************)
(* A design as its author sees it: actors, the channels between them and   *)
(* what the actors print.  A firing takes its tokens, leaves the tokens it *)
(* produces and changes the actor's own state in one step, whatever the    *)
(* others do; that the event-driven runtime really behaves like this is    *)
(* what the module Actors is checked for.                                  *)
(*                                                                         *)
(* The modules that extend this one describe designs: the elaborated graph *)
(* (Net) and the transitions of its actors (built from Fire).  Which       *)
(* design runs is chosen in Init.                                          *)
(***************************************************************************)
EXTENDS Integers, SequencesExt, TLC

CONSTANT Iter    \* the designs' command line argument; the ones that would
                 \* run for ever are watched for Iter rounds
ASSUME IterAssumption == Iter \in Nat \ {0}

VARIABLES design,   \* the name of the design
          depth,    \* channel -> its size; a register has the size 0
          golden,   \* actor -> the logs one of which it prints in a complete run
          fifo,     \* channel -> its tokens, oldest first
          at,       \* actor -> the actor's own state
          log       \* actor -> what it has printed

nvars == <<design, depth, golden, fifo, at, log>>

Tick     == "tick"    \* a token of a channel of void
Nothing  == <<>>      \* no ports, no channels, no message
Register == 0         \* the size of a register
Default  == 0         \* T() of the number types the designs use

(* An elaborated design: sizes and initial tokens of the channels, initial *)
(* states of the actors, and what the actors of a complete run may print:  *)
(* a set of logs for each of them, one log where the schedule must not     *)
(* matter (Net).                                                           *)
NetAnyOf(name, sizes, marking, actors, permitted) ==
  [name |-> name, sizes |-> sizes,
   marking |-> [c \in DOMAIN sizes |-> IF c \in DOMAIN marking
                                       THEN marking[c] ELSE Nothing],
   actors |-> actors, prints |-> permitted]
Net(name, sizes, marking, actors, prints) ==
  NetAnyOf(name, sizes, marking, actors, [a \in DOMAIN prints |-> {prints[a]}])

(* doReset: a FIFO gets its initial tokens again, a register loses its     *)
(* value, also one it was given as initial token.                          *)
Reset(net, c) == IF net.sizes[c] = Register THEN Nothing ELSE net.marking[c]

(* ChanBase::start_of_simulation resets every channel. *)
Elaborate(net) ==
  /\ design = net.name
  /\ depth = net.sizes
  /\ golden = net.prints
  /\ fifo = [c \in DOMAIN net.sizes |-> Reset(net, c)]
  /\ at = net.actors
  /\ log = [a \in DOMAIN net.prints |-> <<>>]

(* A register is never empty for its reader and never full for its writer. *)
Readable(c, n) == depth[c] = Register \/ Len(fifo[c]) >= n

\* What a slip would do: one slot of every FIFO is never used.
WritableLess(c, n) == depth[c] = Register \/ Len(fifo[c]) + n < depth[c]

Writable(c, n) == depth[c] = Register \/ Len(fifo[c]) + n <= depth[c]

(* RegisterOutlet's access: a value that is not valid is constructed.      *)
Value(c) == IF fifo[c] = Nothing THEN Default ELSE fifo[c][1]

\* What a slip would do: the last token of a firing stays in the FIFO.
ConsumedLess(c, n) == IF depth[c] = Register THEN fifo[c]
                      ELSE SubSeq(fifo[c], n, Len(fifo[c]))

Consumed(c, n) == IF depth[c] = Register THEN fifo[c]
                  ELSE SubSeq(fifo[c], n + 1, Len(fifo[c]))
Produced(c, tokens, rest) == IF depth[c] = Register THEN <<Last(tokens)>>
                             ELSE rest \o tokens

(* The transition of actor a that asks for need, consumes take, produces   *)
(* out, prints said and leaves the actor in the state next.  in(c, r)      *)
(* looks at r tokens and consumes c of them.                               *)
FirePeek(a, need, take, out, next, said) ==
  /\ \A c \in DOMAIN need : Readable(c, need[c])
  /\ \A c \in DOMAIN out  : Writable(c, Len(out[c]))
  /\ fifo' = [c \in DOMAIN fifo |->
                LET rest == IF c \in DOMAIN take THEN Consumed(c, take[c]) ELSE fifo[c]
                IN  IF c \in DOMAIN out THEN Produced(c, out[c], rest) ELSE rest]
  /\ at' = [at EXCEPT ![a] = next]
  /\ log' = [b \in DOMAIN log |-> IF a = b THEN log[b] \o said ELSE log[b]]
  /\ UNCHANGED <<design, depth, golden>>

Fire(a, in, out, next, said) == FirePeek(a, in, in, out, next, said)

(* One port connected to several channels. *)
Multicast(chans, tokens) == [c \in chans |-> tokens]

(* lo, ..., hi; 1, 2, ..., n; and every member of s n times over. *)
Upto(lo, hi) == [k \in 1 .. hi - lo + 1 |-> lo + k - 1]
Count(n) == [k \in 1 .. n |-> k]
Stutter(s, n) == [k \in 1 .. n * Len(s) |-> s[(k - 1) \div n + 1]]

(* What an actor prints for the token number k, one token after the other. *)
PerToken(n, Lines(_)) == FlattenSeq([k \in 1 .. n |-> Lines(k)])
=============================================================================
