------------------------------ MODULE SngGraph ------------------------------
(***************************************************************************)
(* The network graph of the tools (smoc/sng/Graph.hpp), the file format it *)
(* is written to and read from, and the transformations of sng-to-dot.     *)
(*                                                                         *)
(* The code keeps actors and channels in one bipartite boost graph.  Here  *)
(* actors is a sequence (an actor is its index) and chans a set of records *)
(* that hold both the channel vertex and its edges: src is the edge from   *)
(* the writer, snks are the edges to the readers.  The channel names       *)
(* "c1", "c2"... are left out, a channel being known by its writer and the *)
(* writer's port.  Port "o3" or "i3" is the number 3, the ports "in" and   *)
(* "out" of the registers at the border of the graph are 0.                *)
(***************************************************************************)
EXTENDS Integers, Sequences, FiniteSets, FiniteSetsExt

\* static_cast<size_t>(-1), "not known" in VertexInfo and EdgeInfo.
Unknown == -1

\* An EdgeInfo together with the actor at its end.
Edge(actor, port, tokens, tokenSize) ==
  [actor |-> actor, port |-> port, tokens |-> tokens, tokenSize |-> tokenSize]

\* The missing writer of a register that is an input of the whole graph.
NoWriter == Edge(0, 0, 0, Unknown)

\* A channel vertex with its edges; capacity and delay mean nothing in a
\* register, where they stay 0.
Chan(kind, src, snks, capacity, delay, tokenSize) ==
  [kind |-> kind, src |-> src, snks |-> snks,
   capacity |-> capacity, delay |-> delay, tokenSize |-> tokenSize]

out_degree(g, a) == Cardinality({c \in g.chans : c.src.actor = a})
in_degree(g, a)  == Cardinality({c \in g.chans : \E s \in c.snks : s.actor = a})
Fifos(g)         == {c \in g.chans : c.kind = "FIFO"}

Total(f(_), S) == MapThenSumSet(f, S)

-----------------------------------------------------------------------------
(***************************************************************************)
(* saveSNG.  A document has the actor instances, each with the ports of    *)
(* its type, and the channel elements.  A fifo element has one target: a   *)
(* channel with several readers becomes as many elements.                  *)
(***************************************************************************)
InPorts(g, a) == UNION {{s.port : s \in {e \in c.snks : e.actor = a}} : c \in g.chans}
OutPorts(g, a) == {c.src.port : c \in {d \in g.chans : d.src.actor = a}}

PortRef(g, e) == [actor |-> g.actors[e.actor].name, port |-> e.port]

Element(g, c, snks) ==
  [tag |-> c.kind, size |-> c.capacity, initial |-> c.delay, tokenSize |-> c.tokenSize,
   sources |-> IF c.src = NoWriter THEN {} ELSE {PortRef(g, c.src)},
   targets |-> {PortRef(g, s) : s \in snks}]

saveSNG(g) ==
  [instances |-> [a \in DOMAIN g.actors |->
                    [name |-> g.actors[a].name, ins |-> InPorts(g, a), outs |-> OutPorts(g, a)]],
   elements  |-> UNION {IF c.kind = "FIFO" THEN {Element(g, c, {s}) : s \in c.snks}
                                           ELSE {Element(g, c, c.snks)} : c \in g.chans}]

-----------------------------------------------------------------------------
(***************************************************************************)
(* loadSNG.  Repetition counts and rates are not in the file.              *)
(***************************************************************************)
\* The schema the parser validates against.  There is an actor instance, and
\* with it a type, which has a port; a fifo element has exactly one source,
\* one target and a positive size.
Valid(doc) ==
  /\ doc.instances # <<>>
  /\ \A a \in DOMAIN doc.instances : doc.instances[a].ins \cup doc.instances[a].outs # {}
  /\ \A e \in doc.elements : e.tag = "FIFO" =>
       Cardinality(e.sources) = 1 /\ Cardinality(e.targets) = 1 /\ e.size > 0

\* ActorInstances::find: the instance of this name.
Instance(doc, name) == CHOOSE a \in DOMAIN doc.instances : doc.instances[a].name = name

\* connectPort: the port of that name in the type of the instance.
Connects(doc, r, ports) ==
  \E a \in DOMAIN doc.instances : doc.instances[a].name = r.actor /\ r.port \in doc.instances[a][ports]

\* The assertions of the loader: no two instances of one name, and every
\* source and target is a port of an instance in the right direction.
Accepted(doc) ==
  /\ \A a, b \in DOMAIN doc.instances : doc.instances[a].name = doc.instances[b].name => a = b
  /\ \A e \in doc.elements : /\ \A r \in e.sources : Connects(doc, r, "outs")
                             /\ \A r \in e.targets : Connects(doc, r, "ins")

ActorInstance(i) == [name |-> i.name, rep |-> Unknown]

\* Both ends of a loaded channel carry one token of the size of the channel.
EdgeTo(doc, r, size) == Edge(Instance(doc, r.actor), r.port, 1, size)

ChanInstance(doc, e) ==
  Chan(e.tag,
       IF e.sources = {} THEN NoWriter ELSE EdgeTo(doc, CHOOSE r \in e.sources : TRUE, e.tokenSize),
       {EdgeTo(doc, r, e.tokenSize) : r \in e.targets},
       e.size, e.initial, e.tokenSize)

loadSNG(doc) ==
  [actors |-> [a \in DOMAIN doc.instances |-> ActorInstance(doc.instances[a])],
   chans  |-> {ChanInstance(doc, e) : e \in doc.elements}]

-----------------------------------------------------------------------------
(***************************************************************************)
(* transform.  The channels an actor writes are merged when they hold the  *)
(* same content, that is, are written by the same port, or when they have  *)
(* the same producer.  A channel nobody writes is copied.                  *)
(***************************************************************************)
SameContent == "FIFOS_SAME_CONTENT_MERGING"
SameProducer == "FIFOS_SAME_PRODUCER_MERGING"
Transforms == {SameContent, SameProducer, "FIFOS_NO_MERGING", "CHANS_ARE_DROPPED_NO_MERGING",
               "CHANS_ARE_DROPPED_SAME_CONTENT_MERGING"}

\* What a slip in the naming would do: the ports of an actor are one.
chanNameSameContentNoPort(c) == <<c.kind, c.src.actor>>

chanNameSameContent(c) == <<c.kind, c.src.actor, c.src.port>>
chanName(c, how) == IF how = SameContent THEN chanNameSameContent(c)
                                         ELSE <<c.kind, c.src.actor>>

\* The channels that become one vertex of the result.
Groups(g, how) ==
  LET written == {c \in g.chans : c.src # NoWriter}
  IN  {{c \in written : chanName(c, how) = chanName(d, how)} : d \in written}
        \cup {{c} : c \in g.chans \ written}

\* origChanInfo: the contents of the merged channel and the size of each.
Contents(G) == {chanNameSameContent(c) : c \in G}
ContentCapacity(G, k) == Max({c.capacity : c \in {d \in G : chanNameSameContent(d) = k}})
ContentTokenSize(G, k) == (CHOOSE c \in G : chanNameSameContent(c) = k).tokenSize
BufferSize(G) == Total(LAMBDA k : ContentTokenSize(G, k) *
                                  (IF k[1] = "FIFO" THEN ContentCapacity(G, k) ELSE 1), Contents(G))

\* The write edge: the first port, and one token that holds one token of
\* each content.
WriteEdge(G) ==
  LET c == CHOOSE c \in G : \A d \in G : c.src.port <= d.src.port
  IN  IF Cardinality(Contents(G)) = 1 THEN c.src
      ELSE Edge(c.src.actor, c.src.port, 1,
                Total(LAMBDA k : ContentTokenSize(G, k), Contents(G)))

\* The read edges: one per reading actor, with the data of all the edges it
\* replaces.
ReadEdges(G) ==
  LET edges == {<<c, s>> : c \in G, s \in UNION {c.snks : c \in G}}
      own   == {e \in edges : e[2] \in e[1].snks}
      of(a) == {e \in own : e[2].actor = a}
      sum(e) == e[2].tokenSize * e[2].tokens
  IN  {IF Cardinality(of(a)) = 1 THEN (CHOOSE e \in of(a) : TRUE)[2]
       ELSE Edge(a, Min({e[2].port : e \in of(a)}), 1, Total(sum, of(a))) : a \in {e[2].actor : e \in own}}

\* The vertex of a group, what the loop over the write edges leaves of it.
Merged(G, how) ==
  LET c == CHOOSE c \in G : TRUE
      delays == {d.delay : d \in G}
  IN  CASE Cardinality(G) = 1 -> [c EXCEPT !.snks = ReadEdges(G)]
        [] Cardinality(G) > 1 /\ how = SameContent ->
             Chan(c.kind, WriteEdge(G), ReadEdges(G), Max({d.capacity : d \in G}),
                  IF Cardinality(delays) = 1 THEN c.delay ELSE Unknown, c.tokenSize)
        [] OTHER ->
             Chan(c.kind, WriteEdge(G), ReadEdges(G), IF c.kind = "FIFO" THEN 1 ELSE 0,
                  IF c.kind = "FIFO" THEN Unknown ELSE 0, BufferSize(G))

transformFifos(g, how) == [actors |-> g.actors, chans |-> {Merged(G, how) : G \in Groups(g, how)}]

transform(g, how) ==
  CASE how \in {SameContent, SameProducer} -> transformFifos(g, how)
    [] how = "FIFOS_NO_MERGING"            -> g
    [] OTHER                               -> [actors |-> <<>>, chans |-> {}]

-----------------------------------------------------------------------------
\* What the file format keeps of a channel: rates and repetition counts are
\* gone, the edges have the token size of the channel.
Kept(c) ==
  LET keep(e) == Edge(e.actor, e.port, 1, c.tokenSize)
  IN  [c EXCEPT !.src = IF @ = NoWriter THEN NoWriter ELSE keep(@),
                !.snks = {keep(s) : s \in c.snks}]

\* The memory the channels need, in bytes.
Memory(g) == Total(LAMBDA c : c.capacity * c.tokenSize, Fifos(g))
=============================================================================
