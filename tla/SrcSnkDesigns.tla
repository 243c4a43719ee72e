--------------------------- MODULE SrcSnkDesigns ---------------------------
(***************************************************************************)
(* The family of src-snk tests: a source that counts, a sink that prints,  *)
(* and between them one feature of the channels each.                      *)
(***************************************************************************)
EXTENDS Network

(* The m_h_src and m_h_sink most of the tests share: i counts up from 1    *)
(* while iter counts down to 0.                                            *)
Source(a, chans) ==
  /\ at[a] <= Iter
  /\ Fire(a, Nothing, Multicast(chans, <<at[a]>>), at[a] + 1, <<at[a]>>)
Sink(a, c) == Fire(a, c :> 1, Nothing, at[a], <<fifo[c][1]>>)

(* src-snk-plain: a FIFO of size 2. *)
plainNet  == Net("plain", [queue |-> 2], Nothing, [src |-> 1, snk |-> 0],
                 [src |-> Count(Iter), snk |-> Count(Iter)])
plainNext == Source("src", {"queue"}) \/ Sink("snk", "queue")

(* src-snk-references: the source writes through a reference to its slot.  *)
referencesNet  == Net("references", [f |-> 1], Nothing, [src |-> 1, snk |-> 0],
                      [src |-> Count(Iter), snk |-> Count(Iter)])
referencesNext == Source("src", {"f"}) \/ Sink("snk", "f")

(* src-snk-void: only the number of tokens counts. *)
voidNet  == Net("void", [f |-> 1], Nothing, [src |-> Iter, snk |-> 0],
                [src |-> Stutter(<<Tick>>, Iter), snk |-> Stutter(<<Tick>>, Iter)])
voidNext ==
  \/ at.src # 0 /\ Fire("src", Nothing, [f |-> <<Tick>>], at.src - 1, <<Tick>>)
  \/ Fire("snk", [f |-> 1], Nothing, 0, <<Tick>>)

(* src-snk-noconsume: every second firing of the sink only looks. *)
noconsumeNet  == Net("noconsume", [f |-> 1], Nothing, [src |-> 1, snk |-> "s0"],
                     [src |-> Count(Iter), snk |-> Stutter(Count(Iter), 2)])
noconsumeNext ==
  \/ Source("src", {"f"})
  \/ /\ at.snk = "s0"
     /\ FirePeek("snk", [f |-> 1], Nothing, Nothing, "s1", <<fifo.f[1]>>)
  \/ at.snk = "s1" /\ Fire("snk", [f |-> 1], Nothing, "s0", <<fifo.f[1]>>)

(* src-snk-multirate: two tokens at a time in, three out, a FIFO of 4.     *)
multirateNet  == Net("multirate", [f |-> 4], Nothing, [src |-> 1, snk |-> 0],
                     [src |-> Count(2 * Iter), snk |-> Count(3 * ((2 * Iter) \div 3))])
multirateNext ==
  \/ /\ at.src <= 2 * Iter
     /\ Fire("src", Nothing, [f |-> <<at.src, at.src + 1>>], at.src + 2, <<at.src, at.src + 1>>)
  \/ Fire("snk", [f |-> 3], Nothing, 0, SubSeq(fifo.f, 1, 3))

(* src-snk-multicast: one port that feeds four channels, two of them       *)
(* through the port of the graph around it.                                *)
multicastNet  == LET snk == {"snk1", "snk2", "snk3", "snk4"}
                 IN  Net("multicast", [c \in snk |-> 1], Nothing,
                         [a \in snk \cup {"src"} |-> 1],
                         [a \in snk \cup {"src"} |-> Count(Iter)])
multicastNext == \/ Source("src", DOMAIN depth)
                 \/ \E c \in DOMAIN depth : Sink(c, c)

(* src-snk-hierarchy: a copying actor in a graph of its own. *)
hierarchyNet  == Net("hierarchy", [into |-> 1, outof |-> 1], Nothing,
                     [src |-> 1, cpy |-> 0, snk |-> 0],
                     [src |-> Count(Iter), cpy |-> Count(Iter), snk |-> Count(Iter)])
hierarchyNext ==
  \/ Source("src", {"into"})
  \/ Fire("cpy", [into |-> 1], [outof |-> <<fifo.into[1]>>], 0, <<fifo.into[1]>>)
  \/ Sink("snk", "outof")

(* src-snk-multireader: three sinks on one FIFO; the guard of a sink,      *)
(* active(j), looks at the token all of them see.                          *)
multireaderNet  ==
  LET Mine(j) == SelectSeq(Count(Iter), LAMBDA v : (v - 1) % 3 = j)
  IN  Net("multireader", [f |-> 1], Nothing, [src |-> 1, snk1 |-> 0, snk2 |-> 1, snk3 |-> 2],
          [src |-> Count(Iter), snk1 |-> Mine(0), snk2 |-> Mine(1), snk3 |-> Mine(2)])
multireaderNext ==
  \/ Source("src", {"f"})
  \/ \E a \in {"snk1", "snk2", "snk3"} :
        fifo.f # <<>> /\ (fifo.f[1] - 1) % 3 = at[a] /\ Sink(a, "f")

(* src-snk-multiwriter: three sources on one FIFO that pass a token around *)
(* to take turns.                                                          *)
multiwriterNet  ==
  Net("multiwriter", [f |-> 1, a1 |-> 1, a2 |-> 1, a3 |-> 1], [a1 |-> <<Tick>>],
      [src1 |-> 1, src2 |-> 1, src3 |-> 1, snk |-> 0],
      [src1 |-> Count(Iter), src2 |-> Count(Iter), src3 |-> Count(Iter), snk |-> Stutter(Count(Iter), 3)])
Turn(a, mine, next) ==
  /\ at[a] <= Iter
  /\ Fire(a, mine :> 1, next :> <<Tick>> @@ "f" :> <<at[a]>>, at[a] + 1, <<at[a]>>)
multiwriterNext == \/ Turn("src1", "a1", "a2") \/ Turn("src2", "a2", "a3")
                   \/ Turn("src3", "a3", "a1") \/ Sink("snk", "f")

(* src-snk-register: a register paced by a void FIFO of size 1. *)
registerNet  == Net("register", [sq |-> 1, reg |-> Register], Nothing,
                    [src |-> 1, snk |-> 0], [src |-> Count(Iter), snk |-> Count(Iter)])
registerNext ==
  \/ /\ at.src <= Iter
     /\ Fire("src", Nothing, [sq |-> <<Tick>>, reg |-> <<at.src>>], at.src + 1, <<at.src>>)
  \/ Fire("snk", [sq |-> 1, reg |-> 1], Nothing, 0, <<Value("reg")>>)

(* src-snk-register-void: a register of void holds nothing to read. *)
registerVoidNet  == Net("register-void", [sq |-> 1, reg |-> Register], Nothing,
                        [src |-> Iter, snk |-> 0],
                        [src |-> Stutter(<<Tick>>, Iter), snk |-> Stutter(<<Tick>>, Iter)])
registerVoidNext ==
  \/ /\ at.src # 0
     /\ Fire("src", Nothing, [sq |-> <<Tick>>, reg |-> <<Tick>>], at.src - 1, <<Tick>>)
  \/ Fire("snk", [sq |-> 1, reg |-> 1], Nothing, 0, <<Tick>>)

(* src-snk-multiplex: each token has the colour of one of three sinks,    *)
(* drawn before the run as the random generator has its seed by then; a    *)
(* sink takes the first token of its colour among the first ooo + 1.       *)
multiplexSize == 17
ooo == 3
Colour(token) == token[1]
multiplexNet(die) ==
  LET tokens  == [k \in 1 .. Iter |-> <<die[k], k - 1>>]
      Mine(i) == SelectSeq(tokens, LAMBDA t : Colour(t) = i)
  IN  Net("multiplex", [f |-> multiplexSize], Nothing, [src |-> tokens, snk0 |-> 0, snk1 |-> 1, snk2 |-> 2],
          [src |-> tokens, snk0 |-> Mine(0), snk1 |-> Mine(1), snk2 |-> Mine(2)])
multiplexNets == {multiplexNet(die) : die \in [1 .. Iter -> 0 .. 2]}
VirtFifo(i) == {k \in 1 .. Len(fifo.f) : k <= ooo + 1 /\ Colour(fifo.f[k]) = i}
multiplexNext ==
  \/ /\ at.src # <<>>
     /\ Fire("src", Nothing, [f |-> <<Head(at.src)>>], Tail(at.src), <<Head(at.src)>>)
  \/ \E a \in {"snk0", "snk1", "snk2"}, k \in 1 .. ooo + 1 :
       /\ k \in VirtFifo(at[a]) /\ \A j \in VirtFifo(at[a]) : k <= j
       /\ fifo' = [fifo EXCEPT !.f = RemoveAt(@, k)]
       /\ log' = [log EXCEPT ![a] = Append(@, fifo.f[k])]
       /\ UNCHANGED <<design, depth, golden, at>>

SrcSnkNets == multiplexNets \cup {plainNet, referencesNet, voidNet, noconsumeNet, multirateNet, multicastNet,
               hierarchyNet, multireaderNet, multiwriterNet, registerNet, registerVoidNet}
SrcSnkNext == \/ design = "plain" /\ plainNext
              \/ design = "multiplex" /\ multiplexNext
              \/ design = "references" /\ referencesNext
              \/ design = "void" /\ voidNext
              \/ design = "noconsume" /\ noconsumeNext
              \/ design = "multirate" /\ multirateNext
              \/ design = "multicast" /\ multicastNext
              \/ design = "hierarchy" /\ hierarchyNext
              \/ design = "multireader" /\ multireaderNext
              \/ design = "multiwriter" /\ multiwriterNext
              \/ design = "register" /\ registerNext
              \/ design = "register-void" /\ registerVoidNext
=============================================================================
