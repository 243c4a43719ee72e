-------------------------- MODULE TutorialDesigns --------------------------
(***************************************************************************)
(* The designs of the tutorial.  A message is cut to its first Iter        *)
(* characters, and a character is its place in the message; Nul ends it.   *)
(***************************************************************************)
EXTENDS Network

Nul == 0
Char(k) == IF k <= Iter THEN k ELSE Nul

(* A source that sends n characters of its message over channel c, one     *)
(* after the other, and a sink that prints what it gets.                   *)
Sends(a, c, n) == at[a] < n /\ Fire(a, Nothing, c :> <<Char(at[a] + 1)>>, at[a] + 1, Nothing)
Recv(a, c)     == Fire(a, c :> 1, Nothing, 0, <<fifo[c][1]>>)

(* hello-systemoc: one action, no port. *)
helloNet  == Net("hello", Nothing, Nothing, [hello |-> "state_a"], [hello |-> <<"Hello World">>])
helloNext == at.hello = "state_a" /\ Fire("hello", Nothing, Nothing, "state_b", <<"Hello World">>)

(* source-sink: for ever; watched for Iter tokens. *)
sourceSinkNet  == Net("source-sink", [f |-> 1], Nothing, [source |-> 0, sink |-> 0],
                      [source |-> Stutter(<<"X">>, Iter), sink |-> Stutter(<<"X">>, Iter)])
sourceSinkNext == \/ at.source < Iter /\ Fire("source", Nothing, [f |-> <<"X">>], at.source + 1, <<"X">>)
                  \/ Recv("sink", "f")

(* guards: the guard stops the source at the end of its message. *)
guardsNet  == Net("guards", [f |-> 1], Nothing, [source |-> 0, sink |-> 0], [sink |-> Count(Iter)])
guardsNext == Sends("source", "f", Iter) \/ Recv("sink", "f")

(* rates: two tokens at a time, also where one character is left.          *)
ratesNet  == Net("rates", [f |-> 4], Nothing, [source |-> 0, sink |-> 0],
                 [sink |-> [k \in 1 .. Iter + (Iter % 2) |-> Char(k)]])
ratesNext == \/ LET count == at.source
                IN  /\ count < Iter
                    /\ Fire("source", Nothing, [f |-> <<Char(count + 1), Char(count + 2)>>], count + 2, Nothing)
             \/ Recv("sink", "f")

(* dynamics: the guard as a function or as an expression; sizeof counts    *)
(* the closing Nul.  Only the typed sources print what they send.          *)
dynamicsNets == {Net("dynamics", [f |-> 1], Nothing, [source |-> 0, sink |-> 0],
                     [source |-> IF typed THEN Append(Count(Iter), Nul) ELSE <<>>,
                      sink |-> Append(Count(Iter), Nul)]) : typed \in BOOLEAN}
dynamicsNext ==
  \/ LET c == Char(at.source + 1)
     IN  /\ at.source < Iter + 1
         /\ Fire("source", Nothing, [f |-> <<c>>], at.source + 1,
                 IF golden.source = {<<>>} THEN <<>> ELSE <<c>>)
  \/ Recv("sink", "f")

(* data-flow: a short message of digits and a long one of letters meet in  *)
(* NDMerge, which takes from in0 whenever it can: in1 is served where its  *)
(* first transition lacks a token (both transitions need the same place).  *)
(* What the one Sink prints depends on the schedule; each of the messages  *)
(* must come through whole and in order.                                   *)
Message_123 == [k \in 1 .. Iter \div 2 |-> <<0, k>>]
Message_ABC == [k \in 1 .. Iter |-> <<1, k>>]
Interleavings(s, t) ==
  {[k \in 1 .. Len(s) + Len(t) |->
      LET taken == Cardinality(places \cap 1 .. k)
      IN  IF k \in places THEN s[taken] ELSE t[k - taken]] :
   places \in kSubset(Len(s), 1 .. Len(s) + Len(t))}
dataFlowNet == NetAnyOf("data-flow", [in0 |-> 1, in1 |-> 1, out |-> 1], Nothing,
                        [source0 |-> Message_123, source1 |-> Message_ABC, merge |-> 0, sink |-> 0],
                        [sink |-> Interleavings(Message_123, Message_ABC)])
SendsAll(a, c) == /\ at[a] # <<>>
                 /\ Fire(a, Nothing, c :> <<Head(at[a])>>, Tail(at[a]), Nothing)
NDMerge ==
  \/ Fire("merge", [in0 |-> 1], [out |-> <<fifo.in0[1]>>], 0, Nothing)
  \/ /\ ~Readable("in0", 1)
     /\ Fire("merge", [in1 |-> 1], [out |-> <<fifo.in1[1]>>], 0, Nothing)
dataFlowNext ==
  \/ SendsAll("source0", "in0") \/ SendsAll("source1", "in1") \/ NDMerge
  \/ Recv("sink", "out")

(* ping: one token circulates; watched for Iter rounds. *)
pingNet  == Net("ping", [ping2pong |-> 1, pong2ping |-> 1], [pong2ping |-> <<42>>],
                [ping |-> 0, pong |-> 0],
                [ping |-> Stutter(<<42>>, Iter), pong |-> Stutter(<<42>>, Iter)])
Passes(a, from, to) ==
  at[a] < Iter /\ Fire(a, from :> 1, to :> <<fifo[from][1]>>, at[a] + 1, <<fifo[from][1]>>)
pingNext == Passes("ping", "pong2ping", "ping2pong") \/ Passes("pong", "ping2pong", "pong2ping")

(* mini-filter: packets A, B, D; the dispatcher in the inner graph sends   *)
(* A and C to the left and B and D to the right.                           *)
isPacketAorC(p) == p \in {"A", "C"}
isPacketBorD(p) == p \in {"B", "D"}
Packets == <<"A", "B", "D">>
miniFilterNet ==
  Net("mini-filter",
      [in |-> 1, left |-> 1, right |-> 1, outLeft |-> 1, outRight |-> 1], Nothing,
      [src |-> 1, graph |-> 0, snk0 |-> 0, snk1 |-> 0],
      [snk0 |-> SelectSeq(Packets, isPacketAorC), snk1 |-> SelectSeq(Packets, isPacketBorD)])
PacketSource == at.src <= 3 /\ Fire("src", Nothing, [in |-> <<Packets[at.src]>>], at.src + 1, Nothing)
Dispatcher ==
  /\ fifo.in # <<>>
  /\ LET p == fifo.in[1]
     IN  \/ isPacketAorC(p) /\ ~isPacketBorD(p) /\ Fire("graph", [in |-> 1], [left |-> <<p>>], 0, Nothing)
         \/ ~isPacketAorC(p) /\ isPacketBorD(p) /\ Fire("graph", [in |-> 1], [right |-> <<p>>], 0, Nothing)
Forwards(from, to) == Fire("graph", from :> 1, to :> <<fifo[from][1]>>, 0, Nothing)
PacketDumper == Recv("snk0", "outLeft") \/ Recv("snk1", "outRight")
miniFilterNext == PacketSource \/ Dispatcher \/ Forwards("left", "outLeft")
                  \/ Forwards("right", "outRight") \/ PacketDumper

TutorialNets == dynamicsNets \cup
                {helloNet, sourceSinkNet, guardsNet, ratesNet, dataFlowNet, pingNet, miniFilterNet}
TutorialNext == \/ design = "hello" /\ helloNext
                \/ design = "source-sink" /\ sourceSinkNext
                \/ design = "guards" /\ guardsNext
                \/ design = "rates" /\ ratesNext
                \/ design = "dynamics" /\ dynamicsNext
                \/ design = "data-flow" /\ dataFlowNext
                \/ design = "ping" /\ pingNext
                \/ design = "mini-filter" /\ miniFilterNext
=============================================================================
