--------------------------- MODULE ComputeDesigns ---------------------------
(***************************************************************************)
(* The tests that compute something: square roots with a feedback loop, as *)
(* SysteMoC actors and as plain SystemC threads, filters, an SDF graph, a  *)
(* data-dependent selection, changing rates, and firings that wait for an  *)
(* event.                                                                  *)
(***************************************************************************)
EXTENDS Network

CONSTANT Steps    \* Newton steps that may be too few, at most
ASSUME StepsAssumption == Steps \in Nat

-----------------------------------------------------------------------------
(* sqr.  A double is abstracted to what check can tell: the root of n, to  *)
(* within 0.0001, or a value after k steps that is not one.                *)
Root(n)  == <<"root", n>>
Rough(k) == <<"rough", k>>

approx(n, x) ==
  LET k == IF x[1] = "rough" THEN x[2] ELSE 0
  IN  IF x = Root(n) THEN {x}
      ELSE {Root(n)} \cup {Rough(j) : j \in {k + 1} \cap 1 .. Steps}
check(n, x) == x = Root(n)

(* sqr-int: integers, and the root rounded down. *)
approxInt(n, x) == {(n \div x + x) \div 2}
checkInt(n, x) == x * x <= n /\ (x + 1) * (x + 1) > n

\* The designs differ in their numbers only.
Checked(n, x) == IF design = "sqr-int" THEN checkInt(n, x) ELSE check(n, x)
Approximated(n, x) == IF design = "sqr-int" THEN approxInt(n, x) ELSE approx(n, x)

sqrChans == [src2loop |-> 1, loop2approx |-> 1, approx2dup |-> 1,
             dup2approx |-> 1, dup2loop |-> 1, loop2sink |-> 1]
sqrActors == [src |-> 10, sqrloop |-> <<"start", 0>>, approx |-> 0, dup |-> 0, sink |-> 0]

sqrNet == Net("sqr", sqrChans, [dup2approx |-> <<Rough(0)>>], sqrActors,
              [src |-> Upto(10, Iter + 10), sink |-> [k \in 1 .. Iter + 1 |-> Root(9 + k)]])

sqrSrc == /\ at.src <= Iter + 10
          /\ Fire("src", Nothing, [src2loop |-> <<at.src>>], at.src + 1, <<at.src>>)

sqrLoop ==
  LET tmp == at.sqrloop[2] IN
  \/ /\ at.sqrloop[1] = "start"
     /\ Fire("sqrloop", [src2loop |-> 1], [loop2approx |-> <<fifo.src2loop[1]>>],
             <<"loop", fifo.src2loop[1]>>, Nothing)
  \/ /\ at.sqrloop[1] = "loop" /\ fifo.dup2loop # <<>>
     /\ IF Checked(tmp, fifo.dup2loop[1])
        THEN Fire("sqrloop", [dup2loop |-> 1], [loop2sink |-> <<fifo.dup2loop[1]>>],
                  <<"start", tmp>>, Nothing)
        ELSE Fire("sqrloop", [dup2loop |-> 1], [loop2approx |-> <<tmp>>], <<"loop", tmp>>, Nothing)

sqrApprox ==
  /\ fifo.loop2approx # <<>> /\ fifo.dup2approx # <<>>
  /\ \E y \in Approximated(fifo.loop2approx[1], fifo.dup2approx[1]) :
        Fire("approx", [loop2approx |-> 1, dup2approx |-> 1], [approx2dup |-> <<y>>], 0, Nothing)

sqrDup == Fire("dup", [approx2dup |-> 1],
               Multicast({"dup2approx", "dup2loop"}, <<fifo.approx2dup[1]>>), 0, Nothing)

sqrSink == Fire("sink", [loop2sink |-> 1], Nothing, 0, <<fifo.loop2sink[1]>>)

sqrNext == sqrSrc \/ sqrLoop \/ sqrApprox \/ sqrDup \/ sqrSink

sqrIntNet ==
  Net("sqr-int", sqrChans, [dup2approx |-> <<2>>], sqrActors,
      [src |-> Upto(10, Iter + 10),
       sink |-> [k \in 1 .. Iter + 1 |-> CHOOSE r \in 1 .. k + 9 : checkInt(k + 9, r)]])
sqrIntNext == sqrNext    \* the same actors

(* systemc-sqr: the same as SystemC threads that block in every read and   *)
(* write of an sc_fifo, with the initial token elsewhere.  A thread's own  *)
(* state is where it stands and what it holds.                             *)
ScFifoSize == 16
systemcSqrNet ==
  Net("systemc-sqr", [c \in DOMAIN sqrChans |-> ScFifoSize], [approx2dup |-> <<Rough(0)>>],
      [src |-> <<"say", 0>>, sqrloop |-> <<"read", 0>>, approx |-> <<"read1", 0>>,
       dup |-> <<"read", 0>>, sink |-> 0],
      [src |-> Upto(0, Iter), sink |-> [k \in 1 .. Iter + 1 |-> Root(k - 1)]])

Reads(a, pc, c, next) == at[a][1] = pc /\ Fire(a, c :> 1, Nothing, <<next, fifo[c][1]>>, Nothing)
Writes(a, pc, c, next) == at[a][1] = pc /\ Fire(a, Nothing, c :> <<at[a][2]>>, <<next, at[a][2]>>, Nothing)

\* The source says what it is about to write.
systemcSqrSrc ==
  LET i == at.src[2] IN
  \/ at.src[1] = "say" /\ i <= Iter /\ Fire("src", Nothing, Nothing, <<"write", i>>, <<i>>)
  \/ at.src[1] = "write" /\ Fire("src", Nothing, [src2loop |-> <<i>>], <<"say", i + 1>>, Nothing)

systemcSqrLoop ==
  \/ Reads("sqrloop", "read", "src2loop", "ask")
  \/ Writes("sqrloop", "ask", "loop2approx", "answer")
  \/ /\ at.sqrloop[1] = "answer" /\ fifo.dup2loop # <<>>
     /\ LET tmp == at.sqrloop[2]  res == fifo.dup2loop[1]
        IN  Fire("sqrloop", [dup2loop |-> 1], Nothing,
                 IF check(tmp, res) THEN <<"write", res>> ELSE <<"ask", tmp>>, Nothing)
  \/ Writes("sqrloop", "write", "loop2sink", "read")

systemcSqrNext ==
  \/ systemcSqrSrc \/ systemcSqrLoop
  \/ Reads("approx", "read1", "loop2approx", "read2")
  \/ /\ at.approx[1] = "read2" /\ fifo.dup2approx # <<>>
     /\ \E y \in approx(at.approx[2], fifo.dup2approx[1]) :
           Fire("approx", [dup2approx |-> 1], Nothing, <<"write", y>>, Nothing)
  \/ Writes("approx", "write", "approx2dup", "read1")
  \/ Reads("dup", "read", "approx2dup", "write1")
  \/ Writes("dup", "write1", "dup2approx", "write2")
  \/ Writes("dup", "write2", "dup2loop", "read")
  \/ sqrSink

-----------------------------------------------------------------------------
(* fir and fir-nostl: a delay line with the taps 0, 0, 1; the second has   *)
(* four tokens in its FIFO to start with.                                  *)
Taps == <<0, 0, 1>>
dofir(data) == FoldFunctionOnSet(LAMBDA x, y : x + y, 0, [i \in 1 .. 3 |-> Taps[i] * data[i]], 1 .. 3)
Delayed(s) == [k \in 1 .. Len(s) |-> IF k <= 3 THEN 0 ELSE s[k - 3]]

firNet == Net("fir", [into |-> 1, outof |-> 1], Nothing,
              [src |-> 1, fir |-> <<0, 0, 0>>, sink |-> 0],
              [src |-> Count(Iter - 1), sink |-> Delayed(Count(Iter - 1))])
firNext ==
  \/ at.src < Iter /\ Fire("src", Nothing, [into |-> <<at.src>>], at.src + 1, <<at.src>>)
  \/ Fire("fir", [into |-> 1], [outof |-> <<dofir(at.fir)>>],
          <<fifo.into[1], at.fir[1], at.fir[2]>>, Nothing)
  \/ Fire("sink", [outof |-> 1], Nothing, 0, <<fifo.outof[1]>>)

InitialTokens == <<77, 777, 7777, 7777>>
firNostlNet == Net("fir-nostl", [into |-> 4, outof |-> 1], [into |-> InitialTokens],
                   [src |-> 1, fir |-> <<0, 0, 0>>, sink |-> 0],
                   [src |-> Count(Iter - 1), sink |-> Delayed(InitialTokens \o Count(Iter - 1))])
firNostlNext == firNext

(* sdf: in1 needs two tokens for every token of in2, and the product is    *)
(* fed back to the adder.                                                  *)
sdfNet ==
  LET product[k \in 0 .. Iter] == IF k = 0 THEN 13
                                  ELSE (k - 1) * ((2 * k - 2) + (2 * k - 1) + product[k - 1])
      Added(k) == <<2 * k - 2, 2 * k - 1, product[k - 1], 4 * k - 3 + product[k - 1]>>
      rounds   == Iter \div 2
  IN  Net("sdf", [in1 |-> 2, in2 |-> 2, out |-> 2, sum |-> 1, back |-> 1], [back |-> <<13>>],
          [src1 |-> 0, src2 |-> 0, adder |-> 0, multiply |-> 0, sink |-> 0],
          [src1 |-> Upto(0, Iter - 1),
           src2 |-> SelectSeq(Upto(0, rounds + 1), LAMBDA v : v < Iter),    \* two more wait in in2
           adder |-> [k \in 1 .. rounds |-> Added(k)],
           multiply |-> [k \in 1 .. rounds |-> <<k - 1, Added(k)[4], product[k]>>],
           sink |-> [k \in 1 .. rounds |-> product[k]]])
sdfNext ==
  \/ \E s \in {<<"src1", "in1">>, <<"src2", "in2">>} :
        /\ at[s[1]] < Iter
        /\ Fire(s[1], Nothing, s[2] :> <<at[s[1]]>>, at[s[1]] + 1, <<at[s[1]]>>)
  \/ /\ Readable("in1", 2) /\ Readable("back", 1)
     /\ LET x == fifo.in1[1]  y == fifo.in1[2]  z == fifo.back[1]
        IN  Fire("adder", [in1 |-> 2, back |-> 1], [sum |-> <<x + y + z>>], 0, <<<<x, y, z, x + y + z>>>>)
  \/ /\ Readable("in2", 1) /\ Readable("sum", 1)
     /\ LET x == fifo.in2[1]  y == fifo.sum[1]
        IN  Fire("multiply", [in2 |-> 1, sum |-> 1], Multicast({"out", "back"}, <<x * y>>),
                 0, <<<<x, y, x * y>>>>)
  \/ Fire("sink", [out |-> 1], Nothing, 0, <<fifo.out[1]>>)

(* select: the value on Control chooses the input.  When the sink has      *)
(* stopped, Output, Control and both Data channels fill up once more.      *)
Action(control) == IF control = 0 THEN "action0" ELSE "action1"
selectNet == Net("select", [control |-> 1, data0 |-> 1, data1 |-> 1, output |-> 1], Nothing,
                 [srcbool |-> 0, src1 |-> 1, src2 |-> 1, select |-> 0, sink |-> Iter],
                 [srcbool |-> [k \in 1 .. Iter + 2 |-> (k - 1) % 2],
                  src1 |-> Count((Iter + 2) \div 2 + 1),
                  src2 |-> Count((Iter + 1) \div 2 + 1),
                  select |-> [k \in 1 .. Iter + 1 |-> Action((k - 1) % 2)],
                  sink |-> SubSeq(Stutter(Count(Iter), 2), 1, Iter)])
selectNext ==
  \/ Fire("srcbool", Nothing, [control |-> <<at.srcbool>>], 1 - at.srcbool, <<at.srcbool>>)
  \/ Fire("src1", Nothing, [data0 |-> <<at.src1>>], at.src1 + 1, <<at.src1>>)
  \/ Fire("src2", Nothing, [data1 |-> <<at.src2>>], at.src2 + 1, <<at.src2>>)
  \/ \E d \in {<<0, "data0">>, <<1, "data1">>} :
        /\ fifo.control = <<d[1]>>
        /\ Fire("select", "control" :> 1 @@ d[2] :> 1, [output |-> <<fifo[d[2]][1]>>],
                0, <<Action(d[1])>>)
  \/ at.sink \in 1 .. Iter /\ Fire("sink", [output |-> 1], Nothing, at.sink - 1, <<fifo.output[1]>>)
  \/ at.sink = 0 /\ Fire("sink", Nothing, Nothing, -1, Nothing)    \* the state end

(* sequence-alttoksize: three actors whose rates change with their state;  *)
(* a line says which action prints it.                                     *)
Tagged(n, tokens) == [k \in 1 .. Len(tokens) |-> <<n, tokens[k]>>]
Alternating(rates, base) ==
  LET action == FlattenSeq([i \in 1 .. 3 |-> Stutter(<<rates[i]>>, rates[i])])
  IN  [k \in 1 .. 9 * Iter |-> <<action[((k - 1) % 9) + 1], base + k>>]
altNet == Net("alttoksize", [f |-> 10, g |-> 10], Nothing,
              [src |-> <<1, 1>>, process |-> 1, sink |-> 5],
              [src |-> Alternating(<<1, 3, 5>>, 0), process |-> Alternating(<<1, 5, 3>>, 1000),
               sink |-> Alternating(<<5, 3, 1>>, 1000)])
altNext ==
  \/ /\ at.src[2] <= 9 * Iter
     /\ LET n == at.src[1]  i == at.src[2]
        IN  Fire("src", Nothing, [f |-> Upto(i, i + n - 1)],
                 <<CASE n = 1 -> 3 [] n = 3 -> 5 [] n = 5 -> 1, i + n>>, Tagged(n, Upto(i, i + n - 1)))
  \/ LET n == at.process
         output == [k \in 1 .. n |-> 1000 + fifo.f[k]]
     IN  Fire("process", [f |-> n], [g |-> output],
              CASE n = 1 -> 5 [] n = 5 -> 3 [] n = 3 -> 1, Tagged(n, output))
  \/ LET n == at.sink
     IN  Fire("sink", [g |-> n], Nothing,
              CASE n = 5 -> 3 [] n = 3 -> 1 [] n = 1 -> 5, Tagged(n, SubSeq(fifo.g, 1, n)))

(* getValueAt: a guard that looks at the token, and the same action without it. *)
getValueAtNet == Net("getValueAt", [f |-> 2], Nothing, [src1 |-> 0, sink |-> 0],
                     [src1 |-> Upto(0, Iter - 1), sink |-> Upto(0, Iter - 1)])
getValueAtNext ==
  \/ at.src1 < Iter /\ Fire("src1", Nothing, [f |-> <<at.src1>>], at.src1 + 1, <<at.src1>>)
  \/ fifo.f # <<>> /\ fifo.f[1] = 0 /\ Fire("sink", [f |-> 1], Nothing, 0, <<fifo.f[1]>>)
  \/ fifo.f # <<>> /\ fifo.f[1] # 0 /\ Fire("sink", [f |-> 1], Nothing, 0, <<fifo.f[1]>>)

(* event: a source fires when its event is there, takes it away and has it *)
(* notified again later; SystemC calls notifier once at the start.         *)
eventNet == Net("event", [in1 |-> 3, in2 |-> 2, in3 |-> 2], [in1 |-> <<-13>>],
                [src1 |-> <<0, FALSE>>, src2 |-> <<0, FALSE>>, src3 |-> <<0, FALSE>>, snk |-> Iter],
                [src1 |-> Upto(0, Iter + 1), src2 |-> Upto(0, Iter + 1), src3 |-> Upto(0, Iter + 1),
                 snk |-> [k \in 1 .. Iter |->
                            <<Iter - k + 1, IF k = 1 THEN -13 ELSE k - 2, k - 1, k - 1>>]])
notifier(a) == ~at[a][2] /\ Fire(a, Nothing, Nothing, <<at[a][1], TRUE>>, Nothing)
eventNext ==
  \/ \E s \in {<<"src1", "in1">>, <<"src2", "in2">>, <<"src3", "in3">>} :
        \/ notifier(s[1])
        \/ /\ at[s[1]][2]
           /\ Fire(s[1], Nothing, s[2] :> <<at[s[1]][1]>>, <<at[s[1]][1] + 1, FALSE>>,
                   <<at[s[1]][1]>>)
  \/ /\ at.snk > 0
     /\ Fire("snk", [in1 |-> 1, in2 |-> 1, in3 |-> 1], Nothing, at.snk - 1,
             <<<<at.snk, fifo.in1[1], fifo.in2[1], fifo.in3[1]>>>>)
  \/ at.snk = 0 /\ Fire("snk", Nothing, Nothing, -1, Nothing)

ComputeNets == {sqrNet, sqrIntNet, systemcSqrNet, firNet, firNostlNet, sdfNet,
                selectNet, altNet, getValueAtNet, eventNet}
ComputeNext == \/ design = "sqr" /\ sqrNext
               \/ design = "sqr-int" /\ sqrIntNext
               \/ design = "systemc-sqr" /\ systemcSqrNext
               \/ design = "fir" /\ firNext
               \/ design = "fir-nostl" /\ firNostlNext
               \/ design = "sdf" /\ sdfNext
               \/ design = "select" /\ selectNext
               \/ design = "alttoksize" /\ altNext
               \/ design = "getValueAt" /\ getValueAtNext
               \/ design = "event" /\ eventNext
=============================================================================
