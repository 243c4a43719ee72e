------------------------------ MODULE MCTools ------------------------------
(***************************************************************************)
(* sng-generate-sdf and sng-to-dot for graphs of three actors: one cluster *)
(* with different repetition counts, one with more outputs than actors,    *)
(* clusters of two types, of the same type twice, a block of weight 0      *)
(* after and before another, a single actor without or with a border, no   *)
(* actor at all, and a command line that is refused. And for designs to    *)
(* dump of a writer and one or two readers, each below any of up to two    *)
(* graphs.                                                                 *)
(***************************************************************************)
EXTENDS Tools

Lines ==
  { <<<<"new", "a">>, <<"actors", {3}>>, <<"reps", {1, 2}>>>>,
    <<<<"new", "a">>, <<"actors", {2}>>, <<"outputs", {3}>>, <<"multicasts", {1, 2}>>>>,
    <<<<"new", "a">>, <<"reps", {1}>>, <<"new", "b">>, <<"actors", {2}>>, <<"inputs", {0, 1}>>>>,
    <<<<"new", "a">>, <<"weight", 2>>, <<"new", "a">>>>,
    <<<<"new", "a">>, <<"new", "b">>, <<"weight", 0>>>>,
    <<<<"new", "a">>, <<"weight", 0>>, <<"new", "b">>>>,
    <<<<"new", "a">>>>,
    <<<<"new", "a">>, <<"weight", 0>>>>,
    <<<<"weight", 1>>, <<"new", "a">>>> }
DefaultOptions ==
  [new |-> "a", weight |-> 1, actors |-> {1}, reps |-> {2}, inputs |-> {1}, outputs |-> {1},
   degrees |-> {2}, multicasts |-> {2}]
Requested == {[source |-> TRUE, input |-> FALSE, output |-> TRUE],
              [source |-> FALSE, input |-> TRUE, output |-> FALSE],
              NoBorder}
FlagSets == {[dag |-> TRUE, self |-> TRUE, random |-> FALSE],
             [dag |-> FALSE, self |-> TRUE, random |-> FALSE],
             [dag |-> FALSE, self |-> FALSE, random |-> TRUE]}

\* An actor of one port below depth graphs that export the port.
Port(name, level, depth, input, ifaces) ==
  [id |-> <<name, level>>, port |-> 1, input |-> input, ifaces |-> ifaces,
   parent |-> IF level < depth THEN <<name, level + 1>> ELSE NoPort]
RECURSIVE Tower(_, _, _, _, _)
Tower(name, level, depth, input, ifaces) ==
  [actor |-> level = 0, name |-> IF level = 0 THEN name ELSE "graph", chans |-> {},
   kids  |-> IF level = 0 THEN {} ELSE {Tower(name, level - 1, depth, input, ifaces)},
   ports |-> {Port(name, level, depth, input, ifaces)}]

Channel(n, kind, used) ==
  [kind |-> kind, entries |-> {<<n, "entry">>}, outlets |-> {<<n, "outlet">>},
   capacity |-> 1 + n, used |-> used, tokenSize |-> 4]
GraphOf(kids, chans) == [actor |-> FALSE, name |-> "graph", kids |-> kids, chans |-> chans, ports |-> {}]

\* A second channel of the writer: none, one more FIFO, with or without
\* initial token, one of a kind that is not dumped, and one nobody reads.
Second == {{}, {Channel(2, "FIFO", 0)}, {Channel(2, "FIFO", 1)}, {Channel(2, "MULTIREADER", 0)},
           {[Channel(2, "FIFO", 0) EXCEPT !.outlets = {<<3, "outlet">>}]}}
Dumpable ==
  {LET kids == {Tower("w", dw, dw, FALSE, {<<1, "entry">>} \cup UNION {c.entries : c \in more}),
                Tower("r", dr, dr, TRUE, {<<1, "outlet">>})}
               \cup (IF more = {} THEN {} ELSE {Tower("s", dr, dr, TRUE, {<<2, "outlet">>})})
       all == GraphOf(kids, {Channel(1, kind, 0)} \cup more)
   IN  IF below THEN GraphOf({all}, {}) ELSE all :
     dw \in 0..2, dr \in 0..2, kind \in {"FIFO", "REGISTER"}, more \in Second, below \in BOOLEAN}
=============================================================================
