------------------------------- MODULE Tools -------------------------------
(***************************************************************************)
(* The tools around the network-graph format: a graph is drawn by          *)
(* sng-generate-sdf or dumped from an elaborated SysteMoC design, and is   *)
(* read by sng-to-dot.                                                     *)
(***************************************************************************)
EXTENDS GenerateSdf, SngDumper

CONSTANT ElaboratedDesigns

VARIABLE design   \* the elaborated design, or NoDesign

NoDesign == [actor |-> TRUE, name |-> "none", kids |-> {}, chans |-> {}, ports |-> {}]

\* The simulator dumps its design, and sng-to-dot draws the dump.
DumpDesign ==
  /\ phase = "elaborated"
  /\ LET doc == dumpSNG(design)
     IN  IF doc.failed \/ ~Valid(doc) \/ ~Accepted(doc)
           THEN phase' = "dump-refused" /\ UNCHANGED drawn
           ELSE /\ phase' = "dumped"
                /\ drawn' = [t \in Transforms |-> transform(loadSNG(doc), t)]
  /\ UNCHANGED <<args, flags, options, clusters, room, todo, g, left, tokens, design>>

ToolsInit ==
  \/ Init /\ design = NoDesign
  \/ /\ phase = "elaborated" /\ design \in ElaboratedDesigns
     /\ flags = [dag |-> FALSE, self |-> FALSE, random |-> FALSE]
     /\ args = <<>> /\ options = <<>> /\ clusters = <<>> /\ room = 0 /\ todo = <<>> /\ g = Empty
     /\ left = <<>> /\ tokens = <<>> /\ drawn = <<>>

GenerateNext == Next /\ UNCHANGED design

ToolsNext == GenerateNext \/ DumpDesign

ToolsSpec == ToolsInit /\ [][ToolsNext]_<<vars, design>> /\ WF_<<vars, design>>(GenerateNext)

-----------------------------------------------------------------------------
\* A channel of the design between the actors named by the drawn graph.
EndOf(h, r, size) == Edge(CHOOSE a \in Actors(h) : h.actors[a].name = r.actor, r.port, 1, size)
ChansOfPort(r) ==
  {c \in AllChans(design) : c.kind = "FIFO" /\ \E x \in AllConnections(design) : x.ref = r /\ x.iface \in c.entries}
WriterPorts == {x.ref : x \in {y \in AllConnections(design) :
                  \E c \in AllChans(design) : c.kind = "FIFO" /\ y.iface \in c.entries}}

\* The dump is the design: in whatever graphs writer, reader and channel are,
\* every FIFO is drawn once per writing port, from that port to all the ports
\* that read what it writes, with the largest capacity and all the initial
\* tokens; an actor that is left without channel is drawn, too.
DumpExact ==
  /\ phase = "dumped" =>
       LET h == drawn[SameContent]
           conns == AllConnections(design)
       IN  /\ {h.actors[a].name : a \in Actors(h)} = {n.name : n \in {m \in Nodes(design) : m.actor}}
           /\ {c \in h.chans : c.kind = "FIFO"} =
                {LET cs == ChansOfPort(r)
                     size == (CHOOSE c \in cs : TRUE).tokenSize
                 IN  Chan("FIFO", EndOf(h, r, size),
                          {EndOf(h, s, size) : s \in EndsAt(UNION {c.outlets : c \in cs}, conns)},
                          Max({c.capacity : c \in cs}),
                          IF Cardinality({c.used : c \in cs}) = 1 THEN (CHOOSE c \in cs : TRUE).used ELSE Unknown,
                          size) : r \in WriterPorts}
  /\ phase = "dump-refused" =>
       \E c \in AllChans(design) : c.kind = "FIFO" /\ EndsAt(c.outlets, AllConnections(design)) = {}
=============================================================================
