----------------------------- MODULE FsmDesigns -----------------------------
(***************************************************************************)
(* The tests of the actors' state machines: states built in a loop, action *)
(* lists, junctions, hierarchical and parallel states; and the two designs *)
(* that put a SystemC thread into a graph.  A random generator is a        *)
(* sequence drawn before the run.                                          *)
(***************************************************************************)
EXTENDS Network

(* Lines of a transformer: the transition it takes, and a token it stores, *)
(* gets, writes or puts.                                                   *)
Transition(t) == <<"transition", t>>

Rename(s, table) == [k \in 1 .. Len(s) |-> table[s[k]]]

(* fsm-dynamic: a state for every rate 1, 2, 3; iter may end below 0. *)
dynamicNet ==
  LET total == CHOOSE n \in Iter .. Iter + 2 : /\ n % 6 \in {0, 1, 3}
                                                  /\ \A m \in Iter .. n - 1 : m % 6 \notin {0, 1, 3}
  IN  Net("dynamic", [f |-> 16], Nothing, [src |-> <<1, 1, Iter>>, snk |-> 0],
          [src |-> LET from == SelectSeq(Count(Iter), LAMBDA i : i % 6 \in {1, 2, 4})
                   IN  [k \in 1 .. Len(from) |-> <<((k - 1) % 3) + 1, from[k]>>],
           snk |-> Count(total)])
dynamicNext ==
  \/ LET j == at.src[1]  i == at.src[2]  iter == at.src[3]
     IN  /\ iter > 0
         /\ Fire("src", Nothing, [f |-> Upto(i, i + j - 1)], <<(j % 3) + 1, i + j, iter - j>>,
                 <<<<j, i>>>>)
  \/ Fire("snk", [f |-> 1], Nothing, 0, <<fifo.f[1]>>)

(* fsm-action-parameters: arguments are bound when the transition is made. *)
actionParametersNet ==
  Net("action-parameters", [f |-> 1], Nothing, [src |-> <<4711, Iter>>, snk |-> 0],
      [src |-> [k \in 1 .. Iter |-> IF k % 2 = 1 THEN 4711 ELSE 4712],
       snk |-> Stutter(<<4713>>, Iter)])
actionParametersNext ==
  \/ LET x == at.src[1]
     IN  /\ at.src[2] # 0
         /\ Fire("src", Nothing, [f |-> <<Tick>>],
                 <<IF x = 4711 THEN 4712 ELSE 4711, at.src[2] - 1>>, <<x>>)
  \/ Fire("snk", [f |-> 1], Nothing, 0, <<4713>>)

(* fsm-action-sequences: several actions of one transition, called in      *)
(* order, each with the iter the one before has left.                      *)
Src1 == "src1"
Src2(x) == "src2" \o ToString(x)
Calls == << <<Src1, Src1>>, <<Src1, Src2(0)>>, <<Src2(1), Src1>>, <<Src2(2), Src2(3)>>,
            <<Src2(4), Src1, Src2(5)>> >>
Called(run, iter) == [k \in 1 .. Len(Calls[run]) |-> <<Calls[run][k], iter - k + 1>>]
actionSequencesNet ==
  LET rest[iter \in 0 .. Iter, run \in 1 .. 5] ==
        IF iter < Len(Calls[run]) THEN <<>>
        ELSE <<Called(run, iter)>> \o rest[iter - Len(Calls[run]), (run % 5) + 1]
  IN  Net("action-sequences", [f |-> 1], [f |-> <<Tick>>], [src |-> <<1, Iter>>, snk |-> 0],
          [src |-> FlattenSeq(rest[Iter, 1]), snk |-> Stutter(<<Tick>>, Len(rest[Iter, 1]) + 1)])
actionSequencesNext ==
  \/ LET run == at.src[1]  n == Len(Calls[run])
     IN  /\ at.src[2] >= n
         /\ Fire("src", Nothing, [f |-> <<Tick>>], <<(run % 5) + 1, at.src[2] - n>>, Called(run, at.src[2]))
  \/ Fire("snk", [f |-> 1], Nothing, 0, <<Tick>>)

(* fsm-junction-state: a path through a junction is one firing; its guards *)
(* are evaluated together, the first that holds wins.                      *)
Intake(v) == IF v % 2 = 0 THEN "mod2" ELSE "!mod2"
Output(v) == IF v % 3 = 0 THEN "mod3" ELSE IF v % 5 = 0 THEN "mod5" ELSE "neither"
Path(v) == << <<"stored", v>>, Transition(Intake(v)), <<"wrote", v>>, Transition(Output(v)) >>
junctionNet == Net("junction", [into |-> 1, outof |-> 1], Nothing,
                   [src |-> 0, transform |-> 0, snk |-> 0],
                   [src |-> Upto(0, Iter - 1), snk |-> Upto(0, Iter - 1),
                    transform |-> PerToken(Iter, LAMBDA k : Path(k - 1))])
junctionNext ==
  \/ at.src < Iter /\ Fire("src", Nothing, [into |-> <<at.src>>], at.src + 1, <<at.src>>)
  \/ Fire("transform", [into |-> 1], [outof |-> <<fifo.into[1]>>], fifo.into[1], Path(fifo.into[1]))
  \/ Fire("snk", [outof |-> 1], Nothing, 0, <<fifo.outof[1]>>)

(* fsm-hierarchy-xor-diss-falk: the state d contains a and c; a transition *)
(* of a goes before one of d; entering d means entering a.  The source's   *)
(* die has been thrown Iter - 1 times before the run.                      *)
CaseTrace == << <<"b->d", "d->b">>, <<"b->d", "a->b", "d->b">>, <<"b->c", "d->b">> >>
CasePorts == << {"o2", "o3"}, {"o1", "o2", "o3"}, {"o2", "o4"} >>
xorDissNets ==
  {Net("xor-diss", [o1 |-> 1, o2 |-> 1, o3 |-> 1, o4 |-> 1], Nothing,
       [src |-> <<"start", -1, die>>, transform |-> "a"],
       [src |-> LET cv == <<-1>> \o die \o <<0>>
                IN  [k \in 1 .. Iter |-> <<cv[k], cv[k + 1]>>],
        transform |-> <<"d->b">> \o FlattenSeq(Rename(die, CaseTrace))])
     : die \in [1 .. Iter - 1 -> 1 .. 3]}
newcase(out) ==
  LET cv == at.src[2]  die == at.src[3]
      new == IF die = <<>> THEN 0 ELSE Head(die)
  IN  Fire("src", Nothing, Multicast(out, <<Tick>>),
           <<"run", new, IF die = <<>> THEN die ELSE Tail(die)>>, <<<<cv, new>>>>)
xorDissSrc ==
  \/ at.src[1] = "start" /\ newcase({"o2"})
  \/ at.src[1] = "run" /\ at.src[2] \in 1 .. 3 /\ newcase(CasePorts[at.src[2]])
  \/ at.src[1] = "run" /\ at.src[2] = 0 /\ Fire("src", Nothing, Nothing, <<"end", 0, <<>>>>, Nothing)
xorDissTransform ==
  \/ at.transform = "a" /\ Fire("transform", [o1 |-> 1], Nothing, "c", <<"a->b">>)
  \/ /\ at.transform = "c" \/ (at.transform = "a" /\ ~Readable("o1", 1))
     /\ Fire("transform", [o2 |-> 1], Nothing, "b", <<"d->b">>)
  \/ at.transform = "b" /\ Fire("transform", [o3 |-> 1], Nothing, "a", <<"b->d">>)
  \/ /\ at.transform = "b" /\ ~Readable("o3", 1)
     /\ Fire("transform", [o4 |-> 1], Nothing, "c", <<"b->c">>)
xorDissNext == xorDissSrc \/ xorDissTransform

(* fsm-hierarchy-and-diss-falk: a testbench that knows the state of the    *)
(* transformer, whose state y runs a = b|c and d = e|f|g in parallel.      *)
(* A row of Bench: state, the coins it takes, out, in, next; of Machine:   *)
(* which part, from, IN, in, out, to.                                      *)
Bench ==
  {[from |-> "bf", coins |-> {1}, out |-> [o2 |-> 1], in |-> Nothing, to |-> "be"],
   [from |-> "bf", coins |-> {2}, out |-> [o1 |-> 1], in |-> [i1 |-> 2], to |-> "cf"],
   [from |-> "be", coins |-> {1}, out |-> Nothing, in |-> [i2 |-> 1], to |-> "bg"],
   [from |-> "be", coins |-> {2}, out |-> [o1 |-> 1], in |-> [i1 |-> 2], to |-> "ce"],
   [from |-> "bg", coins |-> {1}, out |-> [o2 |-> 3], in |-> Nothing, to |-> "bf"],
   [from |-> "bg", coins |-> {2}, out |-> [o1 |-> 1], in |-> [i1 |-> 2], to |-> "cg"],
   [from |-> "cf", coins |-> {1, 2}, out |-> [o2 |-> 1], in |-> Nothing, to |-> "ce"],
   [from |-> "ce", coins |-> {1, 2}, out |-> Nothing, in |-> [i2 |-> 1], to |-> "cg"],
   [from |-> "cg", coins |-> {1}, out |-> [o2 |-> 3], in |-> Nothing, to |-> "cf"],
   [from |-> "cg", coins |-> {2}, out |-> Nothing, in |-> [i2 |-> 2], to |-> "bg"]}
Machine ==
  {[part |-> 1, from |-> "b", where |-> {"e", "f", "g"}, in |-> [o1 |-> 1], out |-> [i1 |-> 2], to |-> "c"],
   [part |-> 1, from |-> "c", where |-> {"g"}, in |-> Nothing, out |-> [i2 |-> 2], to |-> "b"],
   [part |-> 2, from |-> "e", where |-> {"b", "c"}, in |-> Nothing, out |-> [i2 |-> 1], to |-> "g"],
   [part |-> 2, from |-> "f", where |-> {"b", "c"}, in |-> [o2 |-> 1], out |-> Nothing, to |-> "e"],
   [part |-> 2, from |-> "f", where |-> {"b", "c"}, in |-> Nothing, out |-> [i2 |-> 1], to |-> "g"],
   [part |-> 2, from |-> "g", where |-> {"b", "c"}, in |-> [o2 |-> 3], out |-> Nothing, to |-> "f"]}
Ticks(out) == [c \in DOMAIN out |-> Stutter(<<Tick>>, out[c])]
Row(from, coin) == CHOOSE row \in Bench : row.from = from /\ coin \in row.coins

(* What the testbench goes through for a sequence of coins (a line ends    *)
(* with the coin thrown for the next step), and what the transformer has   *)
(* to do at each of its steps.                                             *)
NextCoin(coins) == IF Len(coins) > 1 THEN coins[2] ELSE 0
benchTrace(coins) ==
  LET state[k \in 0 .. Len(coins)] == IF k = 0 THEN "bf" ELSE Row(state[k - 1], coins[k]).to
  IN  [k \in 1 .. Len(coins) |-> <<state[k - 1], state[k], NextCoin(SubSeq(coins, k, Len(coins)))>>]
Follows ==
  [step \in {<<row.from, row.to>> : row \in Bench} |->
     CASE step \in {<<"bf", "be">>, <<"cf", "ce">>} -> "f->e"
       [] step \in {<<"be", "bg">>, <<"ce", "cg">>} -> "e->g"
       [] step \in {<<"bg", "bf">>, <<"cg", "cf">>} -> "g->f"
       [] step \in {<<"bf", "cf">>, <<"be", "ce">>, <<"bg", "cg">>} -> "b->c"
       [] step = <<"cg", "bg">> -> "c->b"]

andDissNets ==
  {Net("and-diss", [o1 |-> 1, o2 |-> 3, i1 |-> 2, i2 |-> 2], [i1 |-> <<Tick, Tick>>, i2 |-> <<Tick, Tick>>],
       [tb |-> [state |-> "bf", coins |-> coins, event |-> FALSE], transform |-> <<"b", "f">>],
       LET tb == benchTrace(coins)
       IN  [tb |-> tb, transform |-> [k \in 1 .. Len(tb) |-> Follows[<<tb[k][1], tb[k][2]>>]]])
     : coins \in [1 .. Iter -> 1 .. 2]}

MachineCan(row) == /\ at.transform[row.part] = row.from /\ at.transform[3 - row.part] \in row.where
                   /\ \A c \in DOMAIN row.in : Readable(c, row.in[c])
                   /\ \A c \in DOMAIN row.out : Writable(c, row.out[c])

(* The event comes 10 ns after the testbench has fired: when the           *)
(* transformer has done all it can do without time passing.                *)
notifyEvent ==
  /\ ~at.tb.event /\ at.tb.coins # <<>>
  /\ \A row \in Machine : ~MachineCan(row)
  /\ Fire("tb", Nothing, Nothing, [at.tb EXCEPT !.event = TRUE], Nothing)
andDissTestbench ==
  /\ at.tb.event /\ at.tb.coins # <<>>
  /\ LET row == Row(at.tb.state, Head(at.tb.coins))
     IN  Fire("tb", row.in, Ticks(row.out),
              [state |-> row.to, coins |-> Tail(at.tb.coins), event |-> FALSE],
              <<<<row.from, row.to, NextCoin(at.tb.coins)>>>>)
andDissTransform ==
  \E row \in Machine :
     /\ MachineCan(row)
     /\ (row.to = "g" /\ row.from = "f") => ~Readable("o2", 1)    \* the second transition of f
     /\ Fire("transform", row.in, Ticks(row.out), [at.transform EXCEPT ![row.part] = row.to],
             <<row.from \o "->" \o row.to>>)
andDissNext == notifyEvent \/ andDissTestbench \/ andDissTransform

(* fsm-hierarchy-xor: c contains c_a (c_a_a, c_a_b) and c_b; what the      *)
(* inner state does goes before what the outer one does.                   *)
hierXorNet ==
  LET Way(v) == IF v % 2 = 1 THEN <<"b->c_a_b", "c_a->c_b", "c_b->e", "e->a">>
                              ELSE <<"b->c", "c_a->c_b", "c->d", "d->a">>
      Lines(k) == <<Transition("a->b"), <<"store", k - 1>>>>
                  \o [j \in 1 .. 4 |-> Transition(Way(k - 1)[j])] \o <<<<"write", k - 1>>>>
  IN  Net("hier-xor", [into |-> 1, outof |-> 1], Nothing,
          [src |-> 0, transform |-> <<"a", 0>>, snk |-> 0],
          [src |-> Upto(0, Iter - 1), transform |-> PerToken(Iter, Lines), snk |-> Upto(0, Iter - 1)])
hierXorTransform ==
  LET state == at.transform[1]  t == at.transform[2]  odd == t % 2 = 1
      Go(next, tname) == Fire("transform", Nothing, Nothing, <<next, t>>, <<Transition(tname)>>)
  IN  \/ /\ state = "a"
         /\ Fire("transform", [into |-> 1], Nothing, <<"b", fifo.into[1]>>,
                 <<Transition("a->b"), <<"store", fifo.into[1]>>>>)
      \/ state = "b" /\ odd  /\ Go("c_a_b", "b->c_a_b")
      \/ state = "b" /\ ~odd /\ Go("c_a_a", "b->c")
      \/ state \in {"c_a_a", "c_a_b"} /\ Go("c_b", "c_a->c_b")
      \/ state = "c_b" /\ odd  /\ Go("e", "c_b->e")
      \/ state = "c_b" /\ ~odd /\ Go("d", "c->d")
      \/ /\ state \in {"d", "e"}
         /\ Fire("transform", Nothing, [outof |-> <<t>>], <<"a", t>>,
                 <<Transition(state \o "->a"), <<"write", t>>>>)
hierXorNext ==
  \/ at.src < Iter /\ Fire("src", Nothing, [into |-> <<at.src>>], at.src + 1, <<at.src>>)
  \/ hierXorTransform
  \/ Fire("snk", [outof |-> 1], Nothing, 0, <<fifo.outof[1]>>)

-----------------------------------------------------------------------------
(* systemc-blocking-cosim: the thread A between Src and B, with get and    *)
(* put that block.  A is watched for Iter rounds of its 10000.  Src is one *)
(* token ahead; only here B prints what it puts.                           *)
Got(v) == <<"got", v>>
Put(v) == <<"put", v>>
cosimActors == [src |-> 0, a |-> <<"get", 0, 1>>, b |-> 0, snk |-> 0]
blockingNet == Net("blocking", [src2a |-> 1, a2b |-> 1, b2snk |-> 1], Nothing, cosimActors,
                   [src |-> Upto(0, Iter), a |-> PerToken(Iter, LAMBDA k : <<Got(k - 1), Put(k - 1)>>),
                    b |-> PerToken(Iter, LAMBDA k : <<Got(k - 1), Put(k - 1)>>),
                    snk |-> Upto(0, Iter - 1)])
cosimActorsNext ==
  \/ Fire("src", Nothing, [src2a |-> <<at.src>>], at.src + 1, <<at.src>>)
  \/ Fire("b", [a2b |-> 1], [b2snk |-> <<fifo.a2b[1]>>], 0,
          IF design = "blocking" THEN <<Got(fifo.a2b[1]), Put(fifo.a2b[1])>> ELSE <<Got(fifo.a2b[1])>>)
  \/ Fire("snk", [b2snk |-> 1], Nothing, 0, <<fifo.b2snk[1]>>)
Puts == /\ at.a[1] = "put"
        /\ Fire("a", Nothing, [a2b |-> <<at.a[2]>>], <<"get", 0, at.a[3] + 1>>, <<Put(at.a[2])>>)
blockingNext ==
  \/ cosimActorsNext
  \/ /\ at.a[1] = "get" /\ at.a[3] <= Iter
     /\ Fire("a", [src2a |-> 1], Nothing, <<"put", fifo.src2a[1], at.a[3]>>, <<Got(fifo.src2a[1])>>)
  \/ Puts

(* systemc-nonblocking-cosim: A first waits until it may both get and put  *)
(* and then must succeed; in its second loop it polls each.                *)
nonblockingNet == Net("nonblocking", [src2a |-> 1, a2b |-> 1, b2snk |-> 1], Nothing, cosimActors,
                      [src |-> Upto(0, 2 * Iter),
                       a |-> PerToken(2 * Iter, LAMBDA k : <<Got(k - 1), Put(k - 1)>>),
                       b |-> PerToken(2 * Iter, LAMBDA k : <<Got(k - 1)>>),
                       snk |-> Upto(0, 2 * Iter - 1)])
nonblockingNext ==
  \/ cosimActorsNext
  \/ /\ at.a[3] <= Iter
     /\ Fire("a", [src2a |-> 1], [a2b |-> <<fifo.src2a[1]>>], <<"get", 0, at.a[3] + 1>>,
             <<Got(fifo.src2a[1]), Put(fifo.src2a[1])>>)
  \/ /\ at.a[1] = "get" /\ at.a[3] \in Iter + 1 .. 2 * Iter
     /\ Fire("a", [src2a |-> 1], Nothing, <<"put", fifo.src2a[1], at.a[3]>>, <<Got(fifo.src2a[1])>>)
  \/ Puts

(* fsm-hierarchy-and: the flat machine of Transform, whose product states  *)
(* are init, k with everything in its initial state, and k with c and e.   *)
(* The second transition of init needs the same token as the first and is  *)
(* never taken; b -> c comes behind the two transitions of k, one of which *)
(* needs no port.  Which of these two comes first depends on the addresses *)
(* of its multi-states (first).                                            *)
Stored(v)  == <<Transition("init->k"), <<"store", v>>>>
Detour     == <<Transition("k[0]->(c,e)")>>
Written(v) == <<Transition("(k,IN(i))->init"), <<"write", v>>>>

(* What Transform prints when it makes the detour for the tokens of rounds. *)
HierAndLog(rounds) ==
  PerToken(Iter, LAMBDA k : Stored(k - 1) \o (IF k \in rounds THEN Detour ELSE <<>>) \o Written(k - 1))

(* (c,e) first: always the detour.  init first, as in the golden log: only *)
(* when there is no place for the token yet, which is never so for the     *)
(* first one.  The golden log itself is the one without a detour.          *)
hierAndNets ==
  {NetAnyOf("hier-and", [into |-> 1, outof |-> 1], Nothing,
            [src |-> 0, transform |-> <<"init", Default, first>>, snk |-> 0],
            [src |-> {Upto(0, Iter - 1)}, snk |-> {Upto(0, Iter - 1)},
             transform |-> IF first = "(c,e)" THEN {HierAndLog(1 .. Iter)}
                           ELSE {HierAndLog(rounds) : rounds \in SUBSET (2 .. Iter)}])
     : first \in {"(c,e)", "init"}}
hierAndTransform ==
  LET state == at.transform[1]  t == at.transform[2]  first == at.transform[3]
  IN  \/ /\ state = "init"
         /\ Fire("transform", [into |-> 1], Nothing, <<"k", fifo.into[1], first>>, Stored(fifo.into[1]))
      \/ /\ state = "k" /\ (first = "init" => ~Writable("outof", 1))
         /\ Fire("transform", Nothing, Nothing, <<"(c,e)", t, first>>, Detour)
      \/ /\ state = "(c,e)" \/ (state = "k" /\ first = "init")
         /\ Fire("transform", Nothing, [outof |-> <<t>>], <<"init", t, first>>, Written(t))
hierAndNext ==
  \/ at.src < Iter /\ Fire("src", Nothing, [into |-> <<at.src>>], at.src + 1, <<at.src>>)
  \/ hierAndTransform
  \/ Fire("snk", [outof |-> 1], Nothing, 0, <<fifo.outof[1]>>)

FsmNets == xorDissNets \cup andDissNets \cup hierAndNets \cup
           {dynamicNet, actionParametersNet, actionSequencesNet, junctionNet, hierXorNet,
            blockingNet, nonblockingNet}
FsmNext == \/ design = "dynamic" /\ dynamicNext
           \/ design = "action-parameters" /\ actionParametersNext
           \/ design = "action-sequences" /\ actionSequencesNext
           \/ design = "junction" /\ junctionNext
           \/ design = "xor-diss" /\ xorDissNext
           \/ design = "and-diss" /\ andDissNext
           \/ design = "hier-xor" /\ hierXorNext
           \/ design = "hier-and" /\ hierAndNext
           \/ design = "blocking" /\ blockingNext
           \/ design = "nonblocking" /\ nonblockingNext
=============================================================================
