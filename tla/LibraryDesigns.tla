--------------------------- MODULE LibraryDesigns ---------------------------
(***************************************************************************)
(* The actors of the actor library at work: every block between channels   *)
(* that hold its stimulus as initial tokens and a scope, and the sources,  *)
(* routers and voters in small graphs.  What the scope of a complete run   *)
(* prints is stated without reference to the code of the block.            *)
(***************************************************************************)
EXTENDS Network

B == INSTANCE LibraryBlocks

In(i) == "x" \o ToString(i)
Ports(n) == {In(i) : i \in 1 .. n}

-----------------------------------------------------------------------------
(* The blocks with their parameters (an operator or function number, a     *)
(* number, the operators of the ports) and what they keep at the start.    *)
Block(kind, ports, op, arg, signs, state) ==
  [kind |-> kind, ports |-> ports, op |-> op, arg |-> arg, signs |-> signs,
   state |-> state, phase |-> "start"]

Supports == <<-2, 0, 3>>      \* of the lookup table, and its values
Table    == <<4, 0, 6>>
Garbage  == {0, 5}            \* what an uninitialised member may hold
sampleTime == 1
Threshold  == 1

MemoryBlocks ==
  {Block("Memory", 1, 0, 0, <<>>, 0), Block("DiscreteDerivative_p", 1, 0, 2, <<>>, 0)}
  \cup {Block(k, 1, 0, 0, <<>>, init) : k \in {"IOAdapter_p", "Memory_p"}, init \in {0, 9}}
  \cup {Block("DiscreteIntegrator", 1, 0, 2, <<>>, g) : g \in Garbage}
  \cup {Block("DiscreteIntegrator_p", 1, 0, 2, <<>>, 7)}
UnaryBlocks ==
  {Block(k, 1, 0, 0, <<>>, 0) : k \in {"Abs", "Abs_p", "Signum", "Signum_p", "DataTypeConversion",
                                       "DataTypeConversion_p", "IOAdapter", "SignalSpecification_p",
                                       "Lookup", "Lookup_p"}}
  \cup {Block(k, 1, 0, 3, <<>>, 0) : k \in {"Gain", "Gain_p"}}
  \cup {Block(k, 1, op, 1, <<>>, 0) : k \in {"CompareToX", "CompareToX_p"}, op \in 0 .. 5}
MathBlocks == {Block("Math", 1, op, 0, <<>>, 0) : op \in {1, 3}}
Signs   == {<<"+", "+", "-">>, <<"-", "+", "+">>}
Factors == {<<"*", "*", "/">>, <<"*", "/", "*">>}
WideBlocks ==
  {Block(k, 3, 0, 0, s, 0) : k \in {"Sum", "Sum_p"}, s \in Signs}
  \cup {Block("Product_p", 3, 0, 0, s, 0) : s \in Factors}
  \cup {Block(k, 3, f, 0, <<>>, 0) : k \in {"MinMax", "MinMax_p"}, f \in 1 .. 2}
  \cup {Block(k, 2, op, 0, <<>>, 0) : k \in {"RelationalOperator", "RelationalOperator_p"}, op \in 0 .. 5}
  \cup {Block("Switch", 3, c, 0, <<>>, 0) : c \in 0 .. 3}
DivideBlocks == {Block("Product", 3, 0, 0, s, 0) : s \in Factors}
LogicBlocks  == {Block(k, 3, op, 0, <<>>, 0) : k \in {"Logic", "Logic_p"}, op \in 0 .. 6}

(* A stimulus is a sequence of vectors, one value for every port. *)
Stimuli(b) ==
  LET Runs(n, values) == [1 .. n -> [1 .. b.ports -> values]]
  IN  CASE b \in MemoryBlocks -> Runs(3, {-1, 0, 2})
        [] b \in UnaryBlocks  -> Runs(1, -3 .. 3)
        [] b \in MathBlocks   -> Runs(1, 0 .. 9)
        [] b \in WideBlocks   -> Runs(1, {-1, 0, 2})
        [] b \in DivideBlocks -> Runs(1, {-1, 2})       \* no divisor is 0
        [] b \in LogicBlocks  -> Runs(1, {0, 1})

-----------------------------------------------------------------------------
(* What the block sends and keeps for the inputs v. *)
Result(b, v) ==
  LET x == v[1]  op == b.op  arg == b.arg  s == b.state
  IN  CASE b.kind = "Abs"      -> <<B!Abs(x), s>>      [] b.kind = "Abs_p"    -> <<B!Abs_p(x), s>>
        [] b.kind = "Signum"   -> <<B!Signum(x), s>>   [] b.kind = "Signum_p" -> <<B!Signum_p(x), s>>
        [] b.kind = "Gain"     -> <<B!Gain(x, arg), s>>  [] b.kind = "Gain_p"   -> <<B!Gain_p(x, arg), s>>
        [] b.kind = "IOAdapter" -> <<B!IOAdapter(x), s>>
        [] b.kind = "SignalSpecification_p" -> <<B!SignalSpecification_p(x), s>>
        [] b.kind = "DataTypeConversion"    -> <<B!DataTypeConversion(x), s>>
        [] b.kind = "DataTypeConversion_p"  -> <<B!DataTypeConversion_p(x), s>>
        [] b.kind = "CompareToX"   -> <<B!CompareToX(x, op, arg), s>>
        [] b.kind = "CompareToX_p" -> <<B!CompareToX_p(x, op, arg), s>>
        [] b.kind = "Math"     -> <<B!Math(x, op), s>>
        [] b.kind = "Lookup"   -> <<B!Lookup(x, Supports, Table), s>>
        [] b.kind = "Lookup_p" -> <<B!Lookup_p(x, Supports, Table), s>>
        [] b.kind = "Sum"      -> <<B!Sum(v, b.signs), s>>      [] b.kind = "Sum_p"     -> <<B!Sum_p(v, b.signs), s>>
        [] b.kind = "Product"  -> <<B!Product(v, b.signs), s>>  [] b.kind = "Product_p" -> <<B!Product_p(v, b.signs), s>>
        [] b.kind = "MinMax"   -> <<B!MinMax(v, IF op = 1 THEN "<" ELSE ">"), s>>   [] b.kind = "MinMax_p"  -> <<B!MinMax_p(v, op), s>>
        [] b.kind = "Logic"    -> <<B!Logic(v, op), s>>    [] b.kind = "Logic_p"   -> <<B!Logic_p(v, op), s>>
        [] b.kind = "RelationalOperator"   -> <<B!RelationalOperator(v, op), s>>
        [] b.kind = "RelationalOperator_p" -> <<B!RelationalOperator_p(v, op), s>>
        [] b.kind = "Memory"   -> B!Memory(x, s)          [] b.kind = "Memory_p"  -> B!Memory_p(x, s)
        [] b.kind = "IOAdapter_p" -> B!IOAdapter_p(x, s)
        [] b.kind = "DiscreteIntegrator"   -> B!DiscreteIntegrator(x, s, arg, sampleTime)
        [] b.kind = "DiscreteIntegrator_p" -> B!DiscreteIntegrator_p(x, s, arg, sampleTime)
        [] b.kind = "DiscreteDerivative_p" -> B!DiscreteDerivative_p(x, s, arg, sampleTime)

(* What the block means: the k-th value it sends for the stimulus r. *)
Sign(x) == IF x = 0 THEN 0 ELSE IF x > 0 THEN 1 ELSE -1
AsBit(b) == IF b THEN 1 ELSE 0
Total(s, f(_)) == FoldFunctionOnSet(LAMBDA a, b : a + b, 0, [i \in s |-> f(i)], s)
Compares(op, kind) ==
  IF kind \in {"CompareToX", "CompareToX_p"}
  THEN <<{0}, {-1, 1}, {-1}, {-1, 0}, {1}, {0, 1}>>[op + 1]
  ELSE <<{0}, {-1, 1}, {-1}, {-1, 0}, {0, 1}, {1}>>[op + 1]
Meaning(b, r, k) ==
  LET v == r[k]  x == v[1]  op == b.op  all == 1 .. b.ports
      true == {i \in all : v[i] # 0}
      With(sign) == {i \in all : b.signs[i] = sign}
      Linear(y, j) == (y - Table[j]) * (Supports[j + 1] - Supports[j])
                      = (x - Supports[j]) * (Table[j + 1] - Table[j])
  IN  CASE b.kind \in {"Abs", "Abs_p"}       -> CHOOSE y \in {x, -x} : y >= 0
        [] b.kind \in {"Signum", "Signum_p"} -> Sign(x)
        [] b.kind \in {"Gain", "Gain_p"}     -> Total(1 .. b.arg, LAMBDA i : x)
        [] b.kind \in {"IOAdapter", "SignalSpecification_p"} -> x
        [] b.kind \in {"DataTypeConversion", "DataTypeConversion_p"} ->
             CHOOSE y \in 0 .. 255 : (x - y) % 256 = 0
        [] b.kind \in {"CompareToX", "CompareToX_p"} -> AsBit(Sign(x - b.arg) \in Compares(op, b.kind))
        [] b.kind = "Math" -> IF op = 1 THEN CHOOSE y \in 0 .. 9 : x \in y * y .. y * y + 2 * y ELSE 0
        [] b.kind \in {"Lookup", "Lookup_p"} ->
             CHOOSE y \in -10 .. 10 : Linear(y, IF x <= Supports[2] THEN 1 ELSE 2)
        [] b.kind \in {"Sum", "Sum_p"} ->
             Total(With("+"), LAMBDA i : v[i]) - Total(With("-"), LAMBDA i : v[i])
        [] b.kind \in {"Product", "Product_p"} ->
             \* the quotient is taken where it stands, and ends there if it is by 0
             LET d == CHOOSE i \in all : b.signs[i] = "/"
             IN  IF d = 3
                 THEN IF v[3] = 0 THEN x * v[2] ELSE B!Quotient(x * v[2], v[3])
                 ELSE IF v[2] = 0 THEN x ELSE B!Quotient(x, v[2]) * v[3]
        [] b.kind \in {"MinMax", "MinMax_p"} ->         \* of the inputs and 0
             LET range == {v[i] : i \in all} \cup {0}
             IN  IF op = 1 THEN CHOOSE y \in range : \A z \in range : y <= z
                                   ELSE CHOOSE y \in range : \A z \in range : y >= z
        [] b.kind \in {"Logic", "Logic_p"} ->
             LET odd == Cardinality(true) % 2 = 1
             IN  AsBit(<<true = all, true # {}, true # all, true = {}, odd, ~odd, 1 \notin true>>[op + 1])
        [] b.kind = "RelationalOperator" ->             \* of the truth of the inputs
             AsBit(Sign(AsBit(1 \in true) - AsBit(2 \in true)) \in Compares(op, b.kind))
        [] b.kind = "RelationalOperator_p" -> AsBit(Sign(x - v[2]) \in Compares(op, b.kind))
        [] b.kind = "Switch" ->
             IF <<TRUE, v[2] >= Threshold, v[2] > Threshold, v[2] # 0>>[op + 1] THEN x ELSE v[3]
        [] b.kind = "Memory" -> IF k = 1 THEN 0 ELSE r[k - 1][1]
        [] b.kind \in {"IOAdapter_p", "Memory_p"} -> IF k = 1 /\ b.state # 0 THEN b.state ELSE x
        [] b.kind \in {"DiscreteIntegrator", "DiscreteIntegrator_p"} ->
             b.state + b.arg * Total(1 .. k - 1, LAMBDA i : r[i][1])
        [] b.kind = "DiscreteDerivative_p" -> 2 * (x - (IF k = 1 THEN 0 ELSE r[k - 1][1]))

Blocks == MemoryBlocks \cup UnaryBlocks \cup MathBlocks \cup WideBlocks \cup DivideBlocks \cup LogicBlocks
blockNets ==
  UNION {{Net("block", [c \in Ports(b.ports) |-> Len(r)] @@ [y |-> 1],
              [c \in Ports(b.ports) |-> LET i == CHOOSE j \in 1 .. b.ports : c = In(j)
                                        IN  [k \in 1 .. Len(r) |-> r[k][i]]],
              [block |-> b, scope |-> 0],
              [scope |-> [k \in 1 .. Len(r) |-> Meaning(b, r, k)]]) : r \in Stimuli(b)} : b \in Blocks}

(* The transition of a block: a token from every port, one to the output.  *)
(* A switch reads with one transition and writes with the next.            *)
Inputs(b) == [i \in 1 .. b.ports |-> fifo[In(i)][1]]
blockFires ==
  LET b == at.block  need == [c \in Ports(b.ports) |-> 1]
      Ready == \A c \in Ports(b.ports) : Readable(c, 1)
  IN  \/ /\ b.kind # "Switch" /\ Ready
         /\ LET out == Result(b, Inputs(b))
            IN  Fire("block", need, [y |-> <<out[1]>>], [b EXCEPT !.state = out[2]], Nothing)
      \/ /\ b.kind = "Switch" /\ b.phase = "start" /\ Ready
         /\ Fire("block", need, Nothing,
                 [b EXCEPT !.phase = "run", !.state = B!Switch(Inputs(b), Threshold, b.op)], Nothing)
      \/ /\ b.kind = "Switch" /\ b.phase = "run"
         /\ Fire("block", Nothing, [y |-> <<b.state>>], [b EXCEPT !.phase = "start"], Nothing)
Scope(a, c) == Fire(a, c :> 1, Nothing, at[a], <<fifo[c][1]>>)
blockNext == blockFires \/ Scope("scope", "y")

-----------------------------------------------------------------------------
(* A const source, initial tokens, a router and a sink.  The router sends  *)
(* to output o what input o mod INPUTS has, and repeats the tokens it read *)
(* until it has written enough.                                            *)
INPUTS  == 2
OUTPUTS == 3
ReadTokenAtOnce  == 2
WriteTokenAtOnce == 3
OutPut(o) == "y" \o ToString(o)
OutPuts == {OutPut(o) : o \in 1 .. OUTPUTS}
Number(c) == CHOOSE o \in 1 .. OUTPUTS : c = OutPut(o)
routerNets ==
  LET Line(s) == <<s[1], s[2], s[1]>>
  IN  {Net("router", [c \in Ports(INPUTS) |-> 4] @@ [c \in OutPuts |-> WriteTokenAtOnce],
           [x1 |-> <<1, 2>>, x2 |-> <<3, 4>>],
           [src |-> 0, router |-> vector, sink |-> 0],
           [sink |-> << <<Line(<<1, 2>>), Line(<<3, 4>>), Line(<<1, 2>>)>> >>
                     \o Stutter(<< <<Line(<<7, 7>>), Line(<<7, 7>>), Line(<<7, 7>>)>> >>, Iter)])
        : vector \in BOOLEAN}
ConstSource == at.src < Iter /\ Fire("src", Nothing, Multicast(Ports(INPUTS), <<7, 7>>), at.src + 1, Nothing)
Routed == [c \in OutPuts |-> [i \in 1 .. WriteTokenAtOnce |->
             fifo[In(((Number(c) - 1) % INPUTS) + 1)][((i - 1) % ReadTokenAtOnce) + 1]]]
NtoM    == ~at.router /\ (\A c \in Ports(INPUTS) : Readable(c, ReadTokenAtOnce))
           /\ Fire("router", [c \in Ports(INPUTS) |-> ReadTokenAtOnce], Routed, at.router, Nothing)
NtoMVec == at.router /\ (\A c \in Ports(INPUTS) : Readable(c, ReadTokenAtOnce))
           /\ Fire("router", [c \in Ports(INPUTS) |-> ReadTokenAtOnce], Routed, at.router, Nothing)
TerminalSink ==
  Fire("sink", [c \in OutPuts |-> WriteTokenAtOnce], Nothing, 0,
       <<[o \in 1 .. OUTPUTS |-> SubSeq(fifo[OutPut(o)], 1, WriteTokenAtOnce)]>>)
routerNext == ConstSource \/ NtoM \/ NtoMVec \/ TerminalSink

(* Triplexer and TMRVoter with the replicas that are switched on, fed by   *)
(* BitToggle.  The first pause is one bit longer than the later ones: neg  *)
(* counts from 0 the first time and from 1 afterwards.                     *)
Replica(i) == "r" \o ToString(i)
Zeros(n) == Stutter(<<0>>, n)
Toggled(limit, pause) ==
  FlattenSeq([k \in 1 .. limit |->
    <<1>> \o Zeros(IF pause = 0 THEN 1 ELSE IF k = 1 THEN pause + 1 ELSE pause)])
tmrNets ==
  {Net("tmr", [c \in {Replica(i) : i \in on} |-> 1] @@ [bits |-> 1, vote |-> 1], Nothing,
       [toggle |-> [state |-> "pos", limit |-> 0, count |-> 0, pause |-> pause], voter |-> on, sink |-> 0],
       [sink |-> Toggled(Iter \div 3, pause)])
     : on \in (SUBSET (1 .. 3)) \ {{}}, pause \in 0 .. 2}
BitToggle ==
  LET t == at.toggle
      pos == [t EXCEPT !.state = "neg", !.limit = t.limit + 1]
      neg == [t EXCEPT !.count = (IF t.count >= t.pause THEN 0 ELSE t.count) + 1,
                       !.state = IF t.count < t.pause THEN "neg" ELSE "pos"]
  IN  \/ /\ t.state = "pos" /\ t.limit < Iter \div 3
         /\ Fire("toggle", Nothing, [bits |-> <<1>>], pos, Nothing)
      \/ t.state = "neg" /\ Fire("toggle", Nothing, [bits |-> <<0>>], neg, Nothing)
Replicas == {Replica(i) : i \in at.voter}
Triplexer == Fire("toggle", [bits |-> 1], Multicast(Replicas, <<fifo.bits[1]>>), at.toggle, Nothing)
TMRVoter ==
  /\ \A c \in Replicas : Readable(c, 1)
  /\ LET result == fifo[CHOOSE c \in Replicas : \A i \in at.voter : c = Replica(i) => \A j \in at.voter : i <= j][1]
     IN  /\ \A c \in Replicas : fifo[c][1] = result          \* assert(match)
         /\ Fire("voter", [c \in Replicas |-> 1], [vote |-> <<result>>], at.voter, Nothing)
tmrNext == BitToggle \/ Triplexer \/ TMRVoter \/ Scope("sink", "vote")

(* BitGen, Demux and a scope with two ports. *)
Bits == <<1, 1, 0, 1, 0, 0>>
demuxNet == Net("demux", [bits |-> 1, x1 |-> 1, x2 |-> 1], Nothing, [gen |-> 0, demux |-> 0, scope |-> 0],
                [gen |-> Bits, scope |-> [k \in 1 .. Len(Bits) |-> <<Bits[k], Bits[k]>>]])
BitGen == LET pos == at.gen + 1
          IN  at.gen < Len(Bits) /\ Fire("gen", Nothing, [bits |-> <<Bits[pos]>>], pos, <<Bits[pos]>>)
Demux  == Fire("demux", [bits |-> 1], Multicast(Ports(2), <<fifo.bits[1]>>), 0, Nothing)
demuxNext == \/ BitGen \/ Demux
             \/ /\ \A c \in Ports(2) : Readable(c, 1)
                /\ Fire("scope", [c \in Ports(2) |-> 1], Nothing, 0, <<<<fifo.x1[1], fifo.x2[1]>>>>)

(* The constant sources with a scope that numbers its lines, Iter releases *)
(* long; and the periodic task, an actor released by a thread.             *)
constNets == {Net("const", [y |-> 1], Nothing, [src |-> <<kind, 0>>, scope |-> 0],
                  [scope |-> [k \in 1 .. Iter |-> <<k - 1, IF kind = "Ground_p" THEN 0 ELSE 5>>]])
                : kind \in {"Constant", "Constant_p", "Ground_p"}}
Supplies(kind, value) ==
  /\ at.src[1] = kind /\ at.src[2] < Iter
  /\ Fire("src", Nothing, [y |-> <<value>>], <<kind, at.src[2] + 1>>, Nothing)
Constant   == Supplies("Constant", 5)
Constant_p == Supplies("Constant_p", 5)
Ground_p   == Supplies("Ground_p", 0)
Scope_p    == Fire("scope", [y |-> 1], Nothing, at.scope + 1, <<<<at.scope, fifo.y[1]>>>>)
constNext  == Constant \/ Constant_p \/ Ground_p \/ Scope_p

taskNet == Net("task", Nothing, Nothing, [task |-> [left |-> Iter, event |-> FALSE]],
               [task |-> Count(Iter)])
time_out_process ==      \* wait(period) ends after the actor has run
  /\ at.task.left > 0 /\ ~at.task.event
  /\ Fire("task", Nothing, Nothing, [left |-> at.task.left - 1, event |-> TRUE], Nothing)
process ==
  /\ at.task.event
  /\ Fire("task", Nothing, Nothing, [at.task EXCEPT !.event = FALSE], <<Iter - at.task.left>>)
taskNext == time_out_process \/ process

LibraryNets == blockNets \cup routerNets \cup tmrNets \cup constNets \cup {demuxNet, taskNet}
LibraryNext == \/ design = "block" /\ blockNext
               \/ design = "router" /\ routerNext
               \/ design = "tmr" /\ tmrNext
               \/ design = "demux" /\ demuxNext
               \/ design = "const" /\ constNext
               \/ design = "task" /\ taskNext
=============================================================================
