----------------------------- MODULE SngDumper -----------------------------
(***************************************************************************)
(* dumpSNG: the visitor that writes the elaborated design as a network     *)
(* graph (SNGDumper.cpp).  A design is a tree of graphs whose leaves are   *)
(* actors:                                                                 *)
(*   [actor, name, kids, chans, ports]                                     *)
(* A port is an interface of the channels it is bound to, directly (the    *)
(* port of an actor) or through the port of the enclosing graph, its       *)
(* parent:                                                                 *)
(*   [id, port, input, ifaces, parent]                                     *)
(* A channel has the interfaces of its entries and of its outlets:         *)
(*   [kind, entries, outlets, capacity, used, tokenSize]                   *)
(* The visitor of a graph goes to the modules in it, then to its channels, *)
(* then to its ports.  A connection of an actor port is expected until the *)
(* channel that has the interface is found, in the graph of the actor or,  *)
(* handed up when the visitor of a graph is destroyed, in one around it.   *)
(***************************************************************************)
EXTENDS SngGraph, SequencesExt

NoPort == <<"none", 0>>
DumpedKinds == {"FIFO", "REGISTER"}

\* DumpPort for a port of the actor or graph n: the connections it makes the
\* enclosing visitor expect, and the outer port.
Connections(n) == IF n.actor
                  THEN UNION {{[iface |-> i, ref |-> [actor |-> n.name, port |-> p.port]] : i \in p.ifaces} : p \in n.ports}
                  ELSE {}
OuterPorts(n) == {p.parent : p \in n.ports} \ {NoPort}

PortNames(n, input) == {p.port : p \in {q \in n.ports : q.input = input}}
DumpActor(n) == [name |-> n.name, ins |-> PortNames(n, TRUE), outs |-> PortNames(n, FALSE)]

\* DumpFifo and DumpRegister: the element of a channel, its ends being the
\* expected connections to its interfaces.
EndsAt(ifaces, conns) == {x.ref : x \in {y \in conns : y.iface \in ifaces}}
DumpFifo(c, conns) ==
  [tag |-> "FIFO", size |-> c.capacity, initial |-> c.used, tokenSize |-> c.tokenSize,
   sources |-> EndsAt(c.entries, conns), targets |-> EndsAt(c.outlets, conns)]
DumpRegister(c, conns) ==
  [tag |-> "REGISTER", size |-> 0, initial |-> 0, tokenSize |-> c.tokenSize,
   sources |-> EndsAt(c.entries, conns), targets |-> EndsAt(c.outlets, conns)]
DumpChan(c, conns) == IF c.kind = "FIFO" THEN DumpFifo(c, conns) ELSE DumpRegister(c, conns)

\* What a slip would do: the visitor forgets what it could not connect.
handedUpNothing(conns, dumped) == {}

\* What is left to the enclosing graph when a visitor is destroyed.
handedUp(conns, dumped) == {x \in conns : \A c \in dumped : x.iface \notin c.entries \cup c.outlets}

\* The visit of an actor or a graph.  failed is the assertion that every outer
\* port was found in the graph around; channels of other kinds are ignored.
RECURSIVE visit(_)
visit(n) ==
  LET results == {visit(k) : k \in n.kids}
      conns   == UNION {r.conns : r \in results}
      dumped  == {c \in n.chans : c.kind \in DumpedKinds}
  IN  IF n.actor
        THEN [conns |-> Connections(n), outer |-> OuterPorts(n), failed |-> FALSE,
              instances |-> {DumpActor(n)}, elements |-> {}]
        ELSE [conns     |-> handedUp(conns, dumped),
              outer     |-> OuterPorts(n),
              failed    |-> \/ \E r \in results : r.failed
                            \/ ~(UNION {r.outer : r \in results} \subseteq {p.id : p \in n.ports}),
              instances |-> UNION {r.instances : r \in results},
              elements  |-> UNION {r.elements : r \in results} \cup {DumpChan(c, conns) : c \in dumped}]

\* The file; conns are the ports reported as dangling.
dumpSNG(design) ==
  LET r == visit(design)
  IN  [instances |-> SetToSeq(r.instances), elements |-> r.elements,
       dangling |-> r.conns, failed |-> r.failed]

-----------------------------------------------------------------------------
\* The reference: every port of every actor of the design and every channel,
\* wherever they are.
RECURSIVE Nodes(_)
Nodes(n) == {n} \cup UNION {Nodes(k) : k \in n.kids}
AllConnections(design) == UNION {Connections(n) : n \in Nodes(design)}
AllChans(design) == UNION {n.chans : n \in Nodes(design)}
=============================================================================
