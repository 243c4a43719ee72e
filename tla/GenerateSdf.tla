---------------------------- MODULE GenerateSdf ----------------------------
(***************************************************************************)
(* sng-generate-sdf, the tool that draws a random synchronous dataflow     *)
(* graph, and sng-to-dot, which reads the graph it wrote.                  *)
(*                                                                         *)
(* One step per random choice: the command line, the clusters, the         *)
(* channels inside and between them, the channels that join what is not    *)
(* connected, the source actor and the registers at the border, the        *)
(* initial tokens, the extra tokens, the token sizes, the file.  A random  *)
(* generator is a set of values of which any can be drawn.  Variables of   *)
(* finished phases are reset, as the locals of the code go out of scope.   *)
(***************************************************************************)
EXTENDS SngGraph, SequencesExt, Relation

CONSTANTS CommandLines,   \* command lines, sequences of <<option, value>>
          Flags,          \* --create-dag, --self-edges, --random-cluster-selection
          Defaults,       \* the defaults of the options of a cluster
          ActorCount,     \* --actor-count
          Borders,        \* --source-actor, input and output data requested
          DelayFactors,   \* --extra-delay-factor
          InternalComm,   \* --graph-internal-communication in bytes
          BorderComm,     \* --graph-input/output-communication in bytes
          ReadRatios,     \* --graph-internal-read-ratio; 0: not given
          CommScales      \* --graph-communication-scaling

ASSUME GeneratorAssumption ==
  /\ ActorCount \in Nat \ {0} /\ InternalComm \in Nat /\ BorderComm \in Nat
  /\ Flags \subseteq [dag : BOOLEAN, self : BOOLEAN, random : BOOLEAN]
  /\ Borders \subseteq [source : BOOLEAN, input : BOOLEAN, output : BOOLEAN]
  /\ DelayFactors \cup ReadRatios \subseteq Nat /\ CommScales \subseteq Nat \ {0}
  /\ Defaults.weight \in Nat

VARIABLES phase,     \* where main stands
          args,      \* the command line
          flags,     \* createDAG, allowSelfEdges, random-cluster-selection
          options,   \* clusterOptionsMap in the order of its keys
          clusters,  \* clusterMap: the actors, inputs and outputs of each
          room,      \* actorCount, the actors still to be created
          todo,      \* actors whose output edges are still to be drawn
          g,         \* the graph
          left,      \* vertexRepLeftMap
          tokens,    \* edgeTokensMap
          drawn      \* the graph sng-to-dot draws, for every --transform

vars == <<phase, args, flags, options, clusters, room, todo, g, left, tokens, drawn>>

Empty == [actors |-> <<>>, chans |-> {}]
NoBorder == [source |-> FALSE, input |-> FALSE, output |-> FALSE]

-----------------------------------------------------------------------------
(***************************************************************************)
(* The command line.  --new-cluster opens a block, the options that follow *)
(* belong to it, an option of no block or a second one of a block is an    *)
(* error.  An option that a block does not give has its default.           *)
(***************************************************************************)
blockStarts(as) == {i \in DOMAIN as : as[i][1] = "new"}
blockOf(as, i) == Cardinality({j \in blockStarts(as) : j <= i})
given(as, b, opt) == {i \in DOMAIN as : as[i][1] = opt /\ blockOf(as, i) = b}

Refused(as) ==
  \/ blockStarts(as) = {}
  \/ \E i \in DOMAIN as : as[i][1] # "new" /\ \/ blockOf(as, i) = 0
                                              \/ Cardinality(given(as, blockOf(as, i), as[i][1])) > 1

valueOf(as, b, opt) ==
  IF given(as, b, opt) = {} THEN Defaults[opt] ELSE as[CHOOSE i \in given(as, b, opt) : TRUE][2]

\* ClusterOptions: the weight and type of a block, and for its sizes and its
\* degrees the set of values the generator can draw.
Block(as, b) == [type       |-> valueOf(as, b, "new"),
                 weight     |-> valueOf(as, b, "weight"),
                 sizes      |-> valueOf(as, b, "actors"),
                 reps       |-> valueOf(as, b, "reps"),
                 inputs     |-> valueOf(as, b, "inputs"),
                 outputs    |-> valueOf(as, b, "outputs"),
                 degrees    |-> valueOf(as, b, "degrees"),
                 multicasts |-> valueOf(as, b, "multicasts"),
                 key        |-> 0,
                 count      |-> 0]

\* clusterOptionsMap: the key of a block is the weight of it and the blocks
\* before it, less one.  A block of weight 0 has the key of the block before
\* it and takes its place; before the first one the key wraps around and is
\* the last.
Key(bs, b) == MapThenSumSet(LAMBDA i : bs[i].weight, 1..b) - 1
clusterOptionsMap(bs) ==
  LET keys == {Key(bs, b) : b \in DOMAIN bs}
      order == SetToSortSeq(keys, LAMBDA k, l : k # -1 /\ (l = -1 \/ k < l))
  IN  [i \in 1..Len(order) |->
         [bs[Max({b \in DOMAIN bs : Key(bs, b) = order[i]})] EXCEPT !.key = order[i]]]

Parse ==
  /\ phase = "parse"
  /\ IF Refused(args)
       THEN phase' = "usage" /\ UNCHANGED options
       ELSE /\ phase' = "clusters"
            /\ options' = clusterOptionsMap([b \in 1..Cardinality(blockStarts(args)) |-> Block(args, b)])
  /\ args' = <<>>
  /\ UNCHANGED <<flags, clusters, room, todo, g, left, tokens, drawn>>

-----------------------------------------------------------------------------
\* addChannel: a channel from one actor to several, with the rates that make
\* the repetition counts a solution of the balance equations.
lcm(S) == Min({n \in 1..FoldSet(LAMBDA r, p : r * p, 1, S) : \A r \in S : n % r = 0})

addChannel(h, src, snks) ==
  LET rep(a)  == h.actors[a].rep
      repLcm  == lcm({rep(a) : a \in snks \cup {src}})
      cons(a) == repLcm \div rep(a)
      prod    == repLcm \div rep(src)
  IN  [h EXCEPT !.chans = @ \cup
         {Chan("FIFO", Edge(src, out_degree(h, src) + 1, prod, Unknown),
               {Edge(a, in_degree(h, a) + 1, cons(a), Unknown) : a \in snks},
               prod + Max({cons(a) : a \in snks}) - 1, 0, Unknown)}]

addInput(h, snk) ==
  [h EXCEPT !.chans = @ \cup {Chan("REGISTER", NoWriter, {Edge(snk, 0, 1, Unknown)}, 0, 0, Unknown)}]
addOutput(h, src) ==
  [h EXCEPT !.chans = @ \cup {Chan("REGISTER", Edge(src, 0, 1, Unknown), {}, 0, 0, Unknown)}]

\* What priority_queue hands out: the drawn degrees, the largest first.
Descending(n, S) == {d \in [1..n -> S] : \A i \in 1..n-1 : d[i] >= d[i+1]}
top(d, j, default) == IF j \in DOMAIN d THEN d[j] ELSE default

\* The sinks an actor of a cluster of actors first + 1 .. first + size may get.
ClusterSinks(first, size, inputs, j) ==
  {first + k : k \in {k \in 1..size :
     IF flags.dag THEN k > j /\ k > inputs ELSE flags.self \/ k # j}}

Work(src, degree, multicast, snks) ==
  [src |-> src, degree |-> degree, multicast |-> multicast, snks |-> snks]

\* clusterSize - clusterOutputs is unsigned: with more outputs than actors
\* the difference is huge and no actor is an output.
firstOutput(size, outputs) == IF outputs > size THEN size ELSE size - outputs

\* generateCluster, up to the loop that draws the edges.
generateCluster(o, size, ins, outs, reps, ds, ms) ==
  LET first   == Len(g.actors)
      inputs  == Min({ins, (size * 3) \div 2})
      outputs == Min({outs, (size * 3) \div 2})
      inner   == firstOutput(size, outputs)
  IN  /\ options' = [options EXCEPT ![o].count = @ + 1]
      /\ room' = room - size
      /\ g' = [g EXCEPT !.actors = @ \o
                 [j \in 1..size |-> [name |-> <<options[o].type, options[o].count + 1, j>>, rep |-> reps[j]]]]
      /\ clusters' = Append(clusters, [of |-> options[o],
                                       actors  |-> first + 1 .. first + size,
                                       inputs  |-> first + 1 .. first + Min({inputs, size}),
                                       outputs |-> first + inner + 1 .. first + size])
      /\ ds \in Descending(inner, options[o].degrees)
      /\ ms \in Descending(inner, options[o].multicasts)
      /\ todo' = [j \in 1..size |-> Work(first + j, top(ds, j, 0), top(ms, j, 1),
                                         ClusterSinks(first, size, inputs, j))]

\* The next cluster: of any block whose key lower_bound can return, or of the
\* first block that has not yet as many clusters as its weight says.
Eligible(o) ==
  IF flags.random THEN options[o].key # -1
  ELSE /\ options[o].count < options[o].weight
       /\ \A p \in 1..o-1 : options[p].count >= options[p].weight

NewCluster ==
  /\ phase = "clusters" /\ todo = <<>> /\ room > 0
  /\ \E o \in DOMAIN options :
       /\ Eligible(o)
       /\ \E n \in options[o].sizes, ins \in options[o].inputs, outs \in options[o].outputs :
            LET size == Min({n, room})
            IN  \E reps \in [1..size -> options[o].reps],
                   ds \in UNION {Descending(k, options[o].degrees) : k \in 0..size},
                   ms \in UNION {Descending(k, options[o].multicasts) : k \in 0..size} :
                     generateCluster(o, size, ins, outs, reps, ds, ms)
  /\ UNCHANGED <<phase, args, flags, left, tokens, drawn>>

\* The loop that draws the output edges of an actor.  A channel takes as
\* many sinks as the multicast degree says, which is not set again for the
\* next channel; what cannot be drawn is only warned about.
DrawChannel ==
  /\ todo # <<>>
  /\ LET w == Head(todo)
         n == Min({Cardinality(w.snks), w.degree, Max({1, w.multicast})})
     IN  IF n = 0
           THEN todo' = Tail(todo) /\ UNCHANGED g
           ELSE \E S \in kSubset(n, w.snks) :
                  /\ g' = addChannel(g, w.src, S)
                  /\ todo' = <<Work(w.src, w.degree - n, w.multicast - n, w.snks \ S)>> \o Tail(todo)
  /\ UNCHANGED <<phase, args, flags, options, clusters, room, left, tokens, drawn>>

\* Blocks may run out before the actors do; a random choice among blocks that
\* all have weight 0 draws from an empty range.
ClustersDone ==
  /\ phase = "clusters" /\ todo = <<>>
  /\ room = 0 \/ \A o \in DOMAIN options : ~Eligible(o)
  /\ phase' = IF flags.random /\ room > 0 THEN "undefined"
              ELSE IF Len(clusters) > 1 THEN "outputs" ELSE "join"
  /\ options' = <<>> /\ room' = 1
  /\ UNCHANGED <<args, flags, clusters, todo, g, left, tokens, drawn>>

-----------------------------------------------------------------------------
(***************************************************************************)
(* Channels between clusters.  room is the number of the source cluster.   *)
(***************************************************************************)
\* What a slip would do: clusters before the source cluster are taken, too.
SnkClustersAll(src) == DOMAIN clusters \ {src}

SnkClusters(src) == {k \in DOMAIN clusters : IF flags.dag THEN k > src ELSE k # src}

\* The candidates: the inputs of the other clusters and, while they are
\* fewer than the degree, one more actor of each cluster in turn.
Candidates(src, degree) ==
  LET ks     == SnkClusters(src)
      inputs == UNION {clusters[k].inputs : k \in ks}
      spare(k) == clusters[k].actors \ inputs
      n      == Min({Cardinality(UNION {spare(k) : k \in ks}), Max({0, degree - Cardinality(inputs)})})
      fair(E) == \A k, l \in ks :
                   spare(k) \subseteq E \/ Cardinality(spare(l) \cap E) <=
                                             Cardinality(spare(k) \cap E) + (IF l < k THEN 1 ELSE 0)
  IN  {inputs \cup E : E \in {E \in kSubset(n, UNION {spare(k) : k \in ks}) : fair(E)}}

ConnectOutputs ==
  /\ phase = "outputs" /\ todo = <<>> /\ room <= Len(clusters)
  /\ LET outs == SetToSortSeq(clusters[room].outputs, <)
         n    == Len(outs)
     IN  \E ds \in Descending(n, clusters[room].of.degrees), ms \in Descending(n, clusters[room].of.multicasts) :
           \E cs \in [1..n -> UNION {Candidates(room, ds[j]) : j \in 1..n}] :
             /\ \A j \in 1..n : cs[j] \in Candidates(room, ds[j])
             /\ todo' = [j \in 1..n |-> Work(outs[j], ds[j], ms[j], cs[j])]
  /\ room' = room + 1
  /\ UNCHANGED <<phase, args, flags, options, clusters, g, left, tokens, drawn>>

OutputsDone ==
  /\ phase = "outputs" /\ todo = <<>> /\ room > Len(clusters)
  /\ phase' = "join" /\ room' = 1
  /\ UNCHANGED <<args, flags, options, clusters, todo, g, left, tokens, drawn>>

-----------------------------------------------------------------------------
\* Connected components of the graph, directions ignored.
Actors(h) == 1..Len(h.actors)
Flow(h) == [p \in Actors(h) \X Actors(h) |->
              \E c \in h.chans : c.src.actor = p[1] /\ \E s \in c.snks : s.actor = p[2]]
Linked(h) == LET f == Flow(h) IN [p \in Actors(h) \X Actors(h) |-> f[p] \/ f[p[2], p[1]]]
Components(h) == LET r == ReflexiveTransitiveClosure(Linked(h), Actors(h))
                 IN  {{b \in Actors(h) : r[a, b]} : a \in Actors(h)}

\* A channel from any actor of a component to any actor of another one, until
\* there is one component.
JoinComponents ==
  /\ phase = "join"
  /\ \E C, D \in Components(g) :
       /\ C # D
       /\ \E src \in C, snk \in D : g' = addChannel(g, src, {snk})
  /\ UNCHANGED <<phase, args, flags, options, clusters, room, todo, left, tokens, drawn>>

Joined ==
  /\ phase = "join" /\ Cardinality(Components(g)) <= 1
  /\ phase' = "border" /\ clusters' = <<>>
  /\ flags' = [flags EXCEPT !.self = FALSE, !.random = FALSE]
  /\ UNCHANGED <<args, options, room, todo, g, left, tokens, drawn>>

\* The source actor, connected to every actor without input, and registers
\* for the data that enters and leaves the graph.  vdSource has a value only
\* if the source actor was requested; else the loop may skip any one actor.
addBorder(want, skip, first, last) ==
  LET n     == Len(g.actors)
      seen  == 1..n \ {skip}
      bare  == {a \in seen : in_degree(g, a) = 0}
      ends  == {a \in seen : out_degree(g, a) = 0}
      fed   == IF bare = {} THEN {first} ELSE bare
      shed  == IF ends = {} THEN {last} ELSE ends
      inOrder(S) == SetToSortSeq(S, <)
      g0    == IF want.source THEN [g EXCEPT !.actors = Append(@, [name |-> <<"source", 0, 0>>, rep |-> 1])] ELSE g
      g1    == IF want.source THEN FoldLeft(LAMBDA h, a : addChannel(h, n + 1, {a}), g0, inOrder(fed)) ELSE g0
      g2    == IF want.input THEN FoldLeft(addInput, g1, inOrder(fed)) ELSE g1
  IN  IF want.output THEN FoldLeft(addOutput, g2, inOrder(shed)) ELSE g2

AddBorder ==
  /\ phase = "border"
  /\ \E want \in Borders :
       \E skip \in IF want.source THEN {0} ELSE {0} \cup Actors(g) :
         LET seen == Actors(g) \ {skip}
         IN  IF seen = {} /\ want # NoBorder
               THEN \* an empty range is drawn from
                    phase' = "undefined" /\ UNCHANGED <<g, left, tokens>>
               ELSE \E first, last \in IF seen = {} THEN {0} ELSE seen :
                      /\ g' = addBorder(want, skip, first, last)
                      /\ phase' = "mark"
                      /\ left' = [a \in Actors(g') |-> g'.actors[a].rep]
                      /\ tokens' = [e \in UNION {{<<c.src.actor, c.src.port, s.actor>> : s \in c.snks} : c \in Fifos(g')} |-> 0]
  /\ UNCHANGED <<args, flags, options, clusters, room, todo, drawn>>

-----------------------------------------------------------------------------
(***************************************************************************)
(* The initial tokens: one iteration is simulated in which every actor     *)
(* fires as often as its repetition count says; when nobody can fire, an   *)
(* actor is made ready.  getReadyActorsSet, fireReadyActorsSet and         *)
(* forceReadyActor are functions of the graph library: an actor is ready   *)
(* when its input edges hold enough tokens and its output channels have    *)
(* enough room, and is made ready by adding what is missing.               *)
(***************************************************************************)
EdgeOf(c, s) == <<c.src.actor, c.src.port, s.actor>>
Ends(h) == UNION {{<<c, s>> : s \in c.snks} : c \in Fifos(h)}
InEnds(h, a) == {x \in Ends(h) : x[2].actor = a}
OutEnds(h, a) == {x \in Ends(h) : x[1].src.actor = a}

\* What an edge holds of the actor's own tokens when it has consumed.
Rest(tok, x) == tok[EdgeOf(x[1], x[2])] - (IF x[1].src.actor = x[2].actor THEN x[2].tokens ELSE 0)

HasInput(h, tok, a) == \A x \in InEnds(h, a) : tok[EdgeOf(x[1], x[2])] >= x[2].tokens
HasRoom(h, tok, a) == \A x \in OutEnds(h, a) : Rest(tok, x) + x[1].src.tokens <= x[1].capacity
getReadyActorsSet(h, tok, lft) ==
  {a \in Actors(h) : lft[a] > 0 /\ HasInput(h, tok, a) /\ HasRoom(h, tok, a)}

fired(h, tok, A) ==
  [e \in DOMAIN tok |->
     LET x == CHOOSE x \in Ends(h) : EdgeOf(x[1], x[2]) = e
     IN  tok[e] + (IF e[1] \in A THEN x[1].src.tokens ELSE 0) - (IF e[3] \in A THEN x[2].tokens ELSE 0)]

\* What a slip would do: no tokens are added.
forcedRoom(h, tok, a) == tok

forced(h, tok, a) ==
  [e \in DOMAIN tok |->
     LET x == CHOOSE x \in Ends(h) : EdgeOf(x[1], x[2]) = e
     IN  IF e[3] = a THEN Max({tok[e], x[2].tokens}) ELSE tok[e]]
widened(h, tok, a) ==
  [h EXCEPT !.chans = {IF c.kind = "FIFO" /\ c.src.actor = a
     THEN [c EXCEPT !.capacity = Max({@} \cup {Rest(tok, <<c, s>>) + c.src.tokens : s \in c.snks})]
     ELSE c : c \in @}]

Mark ==
  /\ phase = "mark" /\ \E a \in Actors(g) : left[a] > 0
  /\ LET ready == getReadyActorsSet(g, tokens, left)
     IN  IF ready = {}
           THEN \E a \in {b \in Actors(g) : left[b] > 0} :
                  /\ tokens' = forced(g, tokens, a)
                  /\ g' = widened(g, tokens', a)
                  /\ UNCHANGED left
           ELSE /\ tokens' = fired(g, tokens, ready)
                /\ left' = [a \in Actors(g) |-> left[a] - (IF a \in ready THEN 1 ELSE 0)]
                /\ UNCHANGED g
  /\ UNCHANGED <<phase, args, flags, options, clusters, room, todo, drawn>>

\* What a slip would do: the edge that comes last decides.
delayOfLast(c) == Min({tokens[EdgeOf(c, s)] : s \in c.snks})

\* The tokens left at the end of the iteration are the initial tokens; a
\* channel with several readers has one number of initial tokens.
delayOf(c) == Max({tokens[EdgeOf(c, s)] : s \in c.snks})

\* checkGraphDeadlockFree, an assertion: from the initial tokens the actors
\* can fire as often as their repetition counts say.  It starts with the
\* delays of the channels (isGraphDeadlockFree is of the graph library).
startCheck(h) ==
  /\ left' = [a \in Actors(h) |-> h.actors[a].rep]
  /\ tokens' = [e \in {EdgeOf(x[1], x[2]) : x \in Ends(h)} |->
                  (CHOOSE x \in Ends(h) : EdgeOf(x[1], x[2]) = e)[1].delay]

Marked ==
  /\ phase = "mark" /\ \A a \in Actors(g) : left[a] = 0
  /\ g' = [g EXCEPT !.chans = {IF c.kind = "FIFO" THEN [c EXCEPT !.delay = delayOf(c)] ELSE c : c \in @}]
  /\ phase' = "check" /\ startCheck(g')
  /\ flags' = [flags EXCEPT !.dag = FALSE]
  /\ UNCHANGED <<args, options, clusters, room, todo, drawn>>

nextPhase == IF phase = "check" THEN "delay" ELSE "sizes"

checkGraphDeadlockFree ==
  /\ phase \in {"check", "recheck"}
  /\ LET ready == getReadyActorsSet(g, tokens, left)
     IN  IF ready # {}
           THEN /\ tokens' = fired(g, tokens, ready)
                /\ left' = [a \in Actors(g) |-> left[a] - (IF a \in ready THEN 1 ELSE 0)]
                /\ UNCHANGED phase
           ELSE /\ phase' = IF \A a \in Actors(g) : left[a] = 0 THEN nextPhase ELSE "deadlocks-error"
                /\ left' = <<>> /\ tokens' = <<>>
  /\ UNCHANGED <<args, flags, options, clusters, room, todo, g, drawn>>

\* The extra initial tokens of every channel, with as much more capacity, and
\* the check again; the generator is a constant.  channelsBetweenClusters is
\* empty, so the option for the channels between clusters changes nothing.
ExtraDelay ==
  /\ phase = "delay"
  /\ \E f \in DelayFactors :
       g' = [g EXCEPT !.chans = {IF c.kind = "FIFO"
              THEN [c EXCEPT !.delay = @ + c.src.tokens * f, !.capacity = @ + c.src.tokens * f]
              ELSE c : c \in @}]
  /\ phase' = "recheck" /\ startCheck(g')
  /\ UNCHANGED <<args, flags, options, clusters, room, todo, drawn>>

-----------------------------------------------------------------------------
(***************************************************************************)
(* Token sizes.  The bytes requested for one iteration are divided over    *)
(* the channels in proportion to their scale; a channel with several       *)
(* readers is read as often as it has readers.                             *)
(***************************************************************************)
Inputs(h)  == {c \in h.chans : c.kind = "REGISTER" /\ c.src = NoWriter}
Outputs(h) == {c \in h.chans : c.kind = "REGISTER" /\ c.src # NoWriter}
outputs(c) == Cardinality(c.snks)
Multicasts(h) == {c \in Fifos(h) : outputs(c) > 1}
Singlecasts(h) == Fifos(h) \ Multicasts(h)

\* What a slip would do: the repetition count is left out.
tokensTransmissionOnce(c) ==
  LET e == IF c.src = NoWriter THEN CHOOSE s \in c.snks : TRUE ELSE c.src IN e.tokens

tokensTransmission(c) ==
  LET e == IF c.src = NoWriter THEN CHOOSE s \in c.snks : TRUE ELSE c.src
  IN  e.tokens * g.actors[e.actor].rep

\* The channels of one actor may be scaled differently from the others.
commScaling(c, s) == IF c.src.actor = 1 THEN s ELSE 1

\* The bytes written to the channels with several readers and to the others,
\* and the sums their scales are related to.  Without channels of several
\* readers the read ratio divides zero by zero, and what becomes of the
\* result is undefined.
Split(s, r) ==
  LET scale(c) == commScaling(c, s)
      singlecast == Total(scale, Singlecasts(g))
      multicast  == Total(scale, Multicasts(g))
      amplified  == Total(LAMBDA c : scale(c) * outputs(c), Multicasts(g))
      writeComm  == InternalComm \div (1 + r)
      readComm   == (InternalComm * r) \div (1 + r)
      sum        == 2 * singlecast + multicast + amplified
      writes     == IF Multicasts(g) = {} THEN {0, writeComm, writeComm + 1}
                    ELSE {((readComm - writeComm) * multicast) \div (amplified - multicast)}
  IN  IF r = 0 THEN {[multi |-> InternalComm, single |-> InternalComm, msum |-> sum, ssum |-> sum]}
      ELSE {[multi |-> m, single |-> writeComm - m, msum |-> multicast, ssum |-> singlecast] : m \in writes}

tokenSizeOf(c, s, sp) ==
  LET scale(d) == commScaling(d, s)
      size(comm, sum) == (scale(c) * comm) \div (sum * tokensTransmission(c))
  IN  CASE c \in Multicasts(g)  -> size(sp.multi, sp.msum)
        [] c \in Singlecasts(g) -> size(sp.single, sp.ssum)
        [] c \in Inputs(g)      -> size(BorderComm, Total(scale, Inputs(g)))
        [] c \in Outputs(g)     -> size(BorderComm, Total(scale, Outputs(g)))

SetTokenSizes ==
  /\ phase = "sizes"
  /\ \E s \in CommScales, r \in ReadRatios :
       \E sp \in Split(s, r) :
         IF sp.single < 0
           THEN phase' = "usage" /\ UNCHANGED g
           ELSE /\ phase' = "save"
                /\ g' = [g EXCEPT !.chans = {[c EXCEPT !.tokenSize = tokenSizeOf(c, s, sp)] : c \in @}]
  /\ UNCHANGED <<args, flags, options, clusters, room, todo, left, tokens, drawn>>

\* The sums the tool prints.
bytesRead(h, chans) ==
  Total(LAMBDA c : Total(LAMBDA s : s.tokens * h.actors[s.actor].rep * c.tokenSize, c.snks), chans)
bytesWritten(h, chans) ==
  Total(LAMBDA c : c.src.tokens * h.actors[c.src.actor].rep * c.tokenSize, chans)

-----------------------------------------------------------------------------
\* The graph is written, and sng-to-dot reads and draws it; the schema and the
\* assertions of the loader refuse some graphs.
SngToDot ==
  /\ phase = "save"
  /\ LET doc == saveSNG(g)
     IN  IF ~(Valid(doc) /\ Accepted(doc))
           THEN phase' = "refused" /\ UNCHANGED drawn
           ELSE /\ phase' = "done"
                /\ drawn' = [t \in Transforms |-> transform(loadSNG(doc), t)]
  /\ UNCHANGED <<args, flags, options, clusters, room, todo, g, left, tokens>>

Init ==
  /\ phase = "parse" /\ args \in CommandLines
  /\ \E f \in Flags : flags = [f EXCEPT !.self = f.self /\ ~f.dag]
  /\ options = <<>> /\ clusters = <<>> /\ room = ActorCount /\ todo = <<>> /\ g = Empty
  /\ left = <<>> /\ tokens = <<>> /\ drawn = <<>>

Next ==
  \/ Parse \/ NewCluster \/ DrawChannel \/ ClustersDone \/ ConnectOutputs \/ OutputsDone
  \/ JoinComponents \/ Joined \/ AddBorder \/ Mark \/ Marked \/ checkGraphDeadlockFree \/ ExtraDelay
  \/ SetTokenSizes \/ SngToDot

-----------------------------------------------------------------------------
Ended == {"usage", "undefined", "deadlocks-error", "refused", "done"}

\* Whatever is drawn, the tool comes to an end: every loop over random choices
\* does, the marking that adds tokens until all actors have fired included.
Finishes == phase = "parse" ~> phase \in Ended

\* The graph has the shape that was asked for.  --create-dag "create a directed
\* acyclic graph": the channels inside and between clusters, those that join
\* the components and those of the source actor together never make a cycle.
\* And what is written is connected, the source actor included.
ShapeAsRequested ==
  /\ flags.dag => LET r == TransitiveClosure(Flow(g), Actors(g)) IN \A a \in Actors(g) : ~r[a, a]
  /\ phase \in {"mark", "save"} => Cardinality(Components(g)) <= 1

\* The initial tokens suffice: whenever the check finds no ready actor although
\* firings are left, it is room in a channel that is missing, never tokens,
\* also where the readers of a channel need different numbers of tokens and
\* get the larger one.  And room is missing, so that "Internal error graph has
\* deadlocks" is reported, only in a graph with such a shared channel.
DelaysSuffice ==
  /\ phase \in {"check", "recheck"} /\ (\E a \in Actors(g) : left[a] > 0)
       => \E a \in Actors(g) : left[a] > 0 /\ HasInput(g, tokens, a)
  /\ phase = "deadlocks-error" => Multicasts(g) # {}

\* One iteration does not move more bytes than were requested, inside the
\* graph and over its border.
WithinBudget ==
  phase = "save" =>
    /\ bytesRead(g, Fifos(g)) + bytesWritten(g, Fifos(g)) <= InternalComm
    /\ bytesRead(g, Inputs(g)) <= BorderComm
    /\ bytesWritten(g, Outputs(g)) <= BorderComm

\* An actor that was connected to nothing.
Alone(a) == \A c \in g.chans : c.src.actor # a /\ \A s \in c.snks : s.actor # a

\* The file keeps the graph: merging the channels of the same content gives
\* back every channel with its readers, capacity, initial tokens and token
\* size; merging those of the same producer keeps the memory they need.  And
\* of the generated graphs the tools can read back all but those without an
\* actor, with an actor on its own, or with two clusters of the same name.
RoundTrip ==
  /\ phase = "done" => /\ drawn[SameContent].chans = {Kept(c) : c \in g.chans}
                       /\ Memory(drawn[SameProducer]) = Memory(g)
  /\ phase \in {"done", "refused"} =>
       (phase = "refused" <=> \/ Actors(g) = {}
                              \/ \E a \in Actors(g) : Alone(a)
                              \/ \E a, b \in Actors(g) : a # b /\ g.actors[a].name = g.actors[b].name)
=============================================================================
