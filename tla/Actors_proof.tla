---------------------------- MODULE Actors_proof ----------------------------
(***************************************************************************)
(* Proofs about Actors, for every graph, every depth and every marking.    *)
(***************************************************************************)
EXTENDS Actors, FiniteSetTheorems, WellFoundedInduction, TLAPS

Side  == {"data", "space"}
Kinds == {"increasedCount", "decreasedCount", "decreasedCountRenotify", "reset"}

(* Everything that may stand in todo. *)
EventCall  == [call : {"notify", "reset", "renotify"}, event : Events]
ListCall   == [call : {"list"}, list : Lists, flag : BOOLEAN]
WalkCalls  == [call : {"walk"}, chan : Chan, side : Side, kind : Kinds]
CommCall   == [call : {"consume", "produce"}, chan : Chan, n : Nat]
ScopeCall  == [call : {"resetScope"}, chan : ResetChan, n : Nat]
ResetCall  == [call : {"resetChan"}, chan : Chan] \cup [call : {"resetNode"}, node : Node]
SwitchCalls == [call : {"setActive"}, node : Node, flag : BOOLEAN]
LastCall   == [call : {"executed"}, dest : UNION {DOMAIN Rules[m] : m \in Node}]

ListCallOf(P, flag) == [call |-> "list", list |-> P, flag |-> flag]
OneEvent(call, e)   == [call |-> call, event |-> e]

EventCallNames == {"notify", "reset", "renotify"}

Calls == EventCall \cup ListCall \cup WalkCalls \cup CommCall \cup ScopeCall
           \cup ResetCall \cup SwitchCalls \cup LastCall

(* How deep in the cascade a call is: lists below events, events below     *)
(* walks, walks below what a firing does.                                  *)
Rank(x) == CASE x.call = "list" -> 0
             [] x.call \in {"notify", "reset", "renotify"} -> 1
             [] x.call = "walk" -> 2
             [] OTHER -> 3

(* The walks of one change of a channel: the side that loses comes before  *)
(* the side that wins.                                                     *)
WalksFine(x, y) ==
  /\ x.kind = "increasedCount" =>
       y.kind = "increasedCount" /\ <<x.chan, x.side>> # <<y.chan, y.side>>
  /\ x.kind \in {"decreasedCount", "decreasedCountRenotify"} =>
       y.kind = "increasedCount" /\ <<x.chan, x.side>> # <<y.chan, y.side>>
  /\ x.kind = "reset" => y.kind \in {"reset", "increasedCount"}

(* No communication after one with the same FIFO in the same direction, no *)
(* input after a reset, and after a reset of its FIFO only an output that  *)
(* the initial tokens leave room for.                                      *)
FitsMarking(y) == Marking[y.chan] + y.n <= Depth[y.chan]

CommsFine(x, y) ==
  /\ y.call \in {"consume", "produce"} /\ x.call = y.call => x.chan # y.chan
  /\ y.call = "consume" => x.call \notin {"resetChan", "resetScope"}
  /\ y.call = "produce" =>
       /\ x.call = "resetChan" /\ y.chan = x.chan => FitsMarking(y)
       /\ x.call = "resetScope" /\ y.chan \in ResetScope[x.chan].chans => FitsMarking(y)

(* What can be said of any two calls of todo, x before y. *)
Fine(x, y) ==
  /\ x.call # "executed"
  /\ Rank(x) <= Rank(y)
  /\ x.call = "list" /\ y.call = "list" => x.flag = y.flag
  /\ x.call = "notify" => y.call # "reset"
  /\ x.call = "reset" => y.call # "notify"
  /\ x.call = "walk" /\ y.call = "walk" => WalksFine(x, y)
  /\ CommsFine(x, y)

Due == Range(todo)

Typed ==
  /\ tok \in [Chan -> Int]
  /\ enabled \subseteq Events /\ live \subseteq Lists
  /\ DOMAIN state = Node /\ ct \in [Node -> Nat]
  /\ \A m \in Node : state[m] \in DOMAIN Rules[m] /\ ct[m] \in 0 .. Len(Rules[m][state[m]])
  /\ on \in [Node -> BOOLEAN]
  /\ holds \subseteq Guarded(Node)
  /\ pending \subseteq Node /\ runnable \subseteq Node
  /\ running \in Node \cup {None}
  /\ todo \in Seq(Calls)

InOrder == \A i, j \in DOMAIN todo : i < j => Fine(todo[i], todo[j])

(* A firing is somebody's and ends with executed. *)
Firing ==
  /\ todo # <<>> => running # None /\ \E x \in Due : x.call = "executed"
  /\ \A x \in Due : x.call = "executed" => x.dest \in DOMAIN Rules[running]
  /\ running # None /\ todo = <<>> => canFire(running)

(* The communications still to be made fit. *)
Fits ==
  /\ \A c \in Chan : tok[c] \in 0 .. Depth[c]
  /\ \A x \in Due : /\ x.call = "consume" => x.n <= tok[x.chan]
                    /\ x.call = "produce" => tok[x.chan] + x.n <= Depth[x.chan]

(* The events as they will be when the calls to single events are done:    *)
(* those up to some number of tokens or places.  This number is what the   *)
(* walks still to come are made for.                                       *)
EventAfter(e) ==
  /\ e \in enabled \/ OneEvent("notify", e) \in Due
  /\ OneEvent("reset", e) \notin Due

UpTo(c, side, k) ==
  \A e \in Events : e[1] = c /\ e[2] = side => (EventAfter(e) <=> e[3] <= k)

Walks(c, side, kinds) == \E kind \in kinds : WalkCall(c, side, kind) \in Due

Level(c, side) ==
  IF Walks(c, side, {"reset"}) THEN Walks(c, side, {"increasedCount"})
  ELSE \E k \in Int :
         /\ UpTo(c, side, k)
         /\ Walks(c, side, {"increasedCount"}) \/ k >= Count(c, side)
         /\ Walks(c, side, {"decreasedCount", "decreasedCountRenotify"}) \/ k <= Count(c, side)

Levels == \A c \in Chan : \A side \in Side : Level(c, side)

(* The lists as they will be when the calls to lists are done. *)
ListAfter(P) ==
  /\ P \in live \/ ListCallOf(P, TRUE) \in Due
  /\ ListCallOf(P, FALSE) \notin Due

ListsFollow == \A P \in Lists : ListAfter(P) <=> P \subseteq enabled

(* An active actor's choice has its tokens and places. *)
ChoiceLive ==
  \A m \in Node : canFire(m) /\ ~Executing(m) => ListOf(Current(m)[ct[m]]) \in live

(* The last request is never lost, not even in the middle of a cascade. *)
Requested ==
  \A m \in Node : canFire(m) => m \in pending \cup runnable \cup {running}

ActorsInv ==
  Typed /\ InOrder /\ Firing /\ Fits /\ Levels /\ ListsFollow /\ ChoiceLive /\ Requested

-----------------------------------------------------------------------------
(* Sequences of calls.                                                     *)

(* The head of todo replaced by the calls it makes. *)
LEMMA Replaced ==
  ASSUME NEW t \in Seq(Calls), t # <<>>, NEW cs \in Seq(Calls), NEW u, u = cs \o Tail(t)
  PROVE  /\ u \in Seq(Calls) /\ Head(t) \in Calls /\ Tail(t) \in Seq(Calls)
         /\ Range(t) = {Head(t)} \cup Range(Tail(t))
         /\ Range(u) = Range(cs) \cup Range(Tail(t))
         /\ Range(t) \subseteq Calls /\ Range(cs) \subseteq Calls
<1>1. Len(t) \in Nat /\ Len(cs) \in Nat /\ Len(t) >= 1
  OBVIOUS
<1>2. /\ DOMAIN t = 1 .. Len(t) /\ DOMAIN cs = 1 .. Len(cs)
      /\ \A i \in 1 .. Len(t) : t[i] \in Calls
      /\ \A i \in 1 .. Len(cs) : cs[i] \in Calls
      /\ Head(t) = t[1]
  OBVIOUS
<1>3. /\ Tail(t) \in Seq(Calls) /\ Len(Tail(t)) = Len(t) - 1
      /\ DOMAIN Tail(t) = 1 .. Len(t) - 1
      /\ \A i \in 1 .. Len(t) - 1 : Tail(t)[i] = t[i + 1]
  OBVIOUS
<1>4. /\ u \in Seq(Calls) /\ DOMAIN u = 1 .. Len(cs) + (Len(t) - 1)
      /\ \A i \in 1 .. Len(cs) : u[i] = cs[i]
      /\ \A i \in 1 .. Len(t) - 1 : u[Len(cs) + i] = Tail(t)[i]
  BY <1>1, <1>3
<1>5. Range(t) = {Head(t)} \cup Range(Tail(t))
  <2>1. ASSUME NEW x \in Range(t) PROVE x \in {Head(t)} \cup Range(Tail(t))
    <3>1. PICK i \in 1 .. Len(t) : x = t[i]
      BY <1>2, <2>1 DEF Range
    <3>2. CASE i = 1
      BY <1>2, <3>1, <3>2
    <3>3. CASE i # 1
      <4>1. i - 1 \in 1 .. Len(t) - 1 /\ (i - 1) + 1 = i
        BY <1>1, <3>3
      <4>2. x = Tail(t)[i - 1]
        BY <1>3, <3>1, <4>1
      <4> QED
        BY <1>3, <4>1, <4>2 DEF Range
    <3> QED
      BY <3>2, <3>3
  <2>2. ASSUME NEW x \in Range(Tail(t)) PROVE x \in Range(t)
    <3>1. PICK i \in 1 .. Len(t) - 1 : x = t[i + 1]
      BY <1>3, <2>2 DEF Range
    <3> QED
      BY <1>1, <1>2, <3>1 DEF Range
  <2>3. Head(t) \in Range(t)
    BY <1>1, <1>2 DEF Range
  <2> QED
    BY <2>1, <2>2, <2>3
<1>6. Range(u) = Range(cs) \cup Range(Tail(t))
  <2>1. ASSUME NEW x \in Range(u) PROVE x \in Range(cs) \cup Range(Tail(t))
    <3>1. PICK i \in 1 .. Len(cs) + (Len(t) - 1) : x = u[i]
      BY <1>4, <2>1 DEF Range
    <3>2. CASE i <= Len(cs)
      BY <1>1, <1>2, <1>4, <3>1, <3>2 DEF Range
    <3>3. CASE ~(i <= Len(cs))
      <4>1. i - Len(cs) \in 1 .. Len(t) - 1 /\ Len(cs) + (i - Len(cs)) = i
        BY <1>1, <3>1, <3>3
      <4>2. x = Tail(t)[i - Len(cs)]
        BY <1>4, <3>1, <4>1
      <4> QED
        BY <1>3, <4>1, <4>2 DEF Range
    <3> QED
      BY <3>2, <3>3
  <2>2. ASSUME NEW x \in Range(cs) PROVE x \in Range(u)
    <3>1. PICK i \in 1 .. Len(cs) : x = cs[i]
      BY <1>2, <2>2 DEF Range
    <3>2. i \in 1 .. Len(cs) + (Len(t) - 1)
      BY <1>1, <3>1
    <3> QED
      BY <1>4, <3>1, <3>2 DEF Range
  <2>3. ASSUME NEW x \in Range(Tail(t)) PROVE x \in Range(u)
    <3>1. PICK i \in 1 .. Len(t) - 1 : x = Tail(t)[i]
      BY <1>3, <2>3 DEF Range
    <3>2. Len(cs) + i \in 1 .. Len(cs) + (Len(t) - 1)
      BY <1>1, <3>1
    <3> QED
      BY <1>4, <3>1, <3>2 DEF Range
  <2> QED
    BY <2>1, <2>2, <2>3
<1>7. Range(t) \subseteq Calls /\ Range(cs) \subseteq Calls
  BY <1>2 DEF Range
<1> QED
  BY <1>2, <1>3, <1>4, <1>5, <1>6, <1>7

(* What holds of any two calls holds of the head and every other call, and *)
(* it goes on to hold if the calls made are as patient as the head was.    *)
LEMMA HeadFirst ==
  ASSUME todo \in Seq(Calls), todo # <<>>, InOrder
  PROVE  \A y \in Range(Tail(todo)) : Fine(Head(todo), y)
<1>1. SUFFICES ASSUME NEW y \in Range(Tail(todo)) PROVE Fine(Head(todo), y)
  OBVIOUS
<1>2. Len(todo) \in Nat /\ Len(todo) >= 1 /\ DOMAIN todo = 1 .. Len(todo) /\ Head(todo) = todo[1]
  OBVIOUS
<1>3. /\ DOMAIN Tail(todo) = 1 .. Len(todo) - 1
      /\ \A i \in 1 .. Len(todo) - 1 : Tail(todo)[i] = todo[i + 1]
  OBVIOUS
<1>4. PICK i \in 1 .. Len(todo) - 1 : y = todo[i + 1]
  BY <1>1, <1>3 DEF Range
<1>5. 1 \in DOMAIN todo /\ i + 1 \in DOMAIN todo /\ 1 < i + 1
  BY <1>2, <1>4
<1> QED
  BY <1>2, <1>4, <1>5 DEF InOrder

LEMMA StaysInOrder ==
  ASSUME todo \in Seq(Calls), todo # <<>>, InOrder,
         NEW cs \in Seq(Calls), todo' = cs \o Tail(todo),
         \A i, j \in DOMAIN cs : i < j => Fine(cs[i], cs[j]),
         \A x \in Range(cs) : \A y \in Calls : Fine(Head(todo), y) => Fine(x, y)
  PROVE  InOrder'
<1> DEFINE n == Len(cs)
           k == Len(todo) - 1
           rest == Tail(todo)
<1>1. n \in Nat /\ k \in Nat /\ DOMAIN cs = 1 .. n
  OBVIOUS
<1>2. DOMAIN todo = 1 .. k + 1 /\ rest \in Seq(Calls) /\ DOMAIN rest = 1 .. k /\ Len(rest) = k
  OBVIOUS
<1>3. \A i \in 1 .. k : rest[i] = todo[i + 1] /\ rest[i] \in Calls
  OBVIOUS
<1>4. /\ DOMAIN todo' = 1 .. n + k
      /\ \A i \in 1 .. n : todo'[i] = cs[i]
      /\ \A i \in n + 1 .. n + k : todo'[i] = rest[i - n]
  BY <1>1, <1>2
<1> HIDE DEF n, k, rest
<1>5. SUFFICES ASSUME NEW i \in 1 .. n + k, NEW j \in 1 .. n + k, i < j
               PROVE  Fine(todo'[i], todo'[j])
  BY <1>4 DEF InOrder, Fine
<1>6. CASE j <= n
  <2>1. i \in 1 .. n /\ j \in 1 .. n
    BY <1>1, <1>5, <1>6
  <2>2. Fine(cs[i], cs[j])
    BY <1>1, <1>5, <2>1
  <2> QED
    BY <1>4, <2>1, <2>2
<1>7. CASE i <= n /\ ~(j <= n)
  <2>1. j - n \in 1 .. k /\ j \in n + 1 .. n + k /\ i \in 1 .. n
    BY <1>1, <1>5, <1>7
  <2>2. todo'[i] \in Range(cs) /\ todo'[j] = rest[j - n] /\ rest[j - n] \in Calls
    BY <1>1, <1>3, <1>4, <2>1 DEF Range
  <2>3. Fine(Head(todo), rest[j - n])
    BY <1>2, <2>1, HeadFirst DEF Range, rest
  <2> QED
    BY <2>2, <2>3
<1>8. CASE ~(i <= n)
  <2>1. /\ i - n \in 1 .. k /\ i \in n + 1 .. n + k
        /\ j - n \in 1 .. k /\ j \in n + 1 .. n + k
    BY <1>1, <1>5, <1>8
  <2>2. todo'[i] = todo[(i - n) + 1] /\ todo'[j] = todo[(j - n) + 1]
    BY <1>3, <1>4, <2>1
  <2>3. (i - n) + 1 \in DOMAIN todo /\ (j - n) + 1 \in DOMAIN todo /\ (i - n) + 1 < (j - n) + 1
    BY <1>1, <1>2, <1>5, <2>1
  <2>4. Fine(todo[(i - n) + 1], todo[(j - n) + 1])
    BY <2>3 DEF InOrder
  <2> QED
    BY <2>2, <2>4
<1> QED
  BY <1>1, <1>5, <1>6, <1>7, <1>8

-----------------------------------------------------------------------------
(* The graph is finite.                                                    *)

LEMMA RangeFinite ==
  ASSUME NEW f, IsFiniteSet(DOMAIN f), f = [x \in DOMAIN f |-> f[x]]
  PROVE  IsFiniteSet(Range(f))
<1>1. f \in [DOMAIN f -> Range(f)]
  BY DEF Range
<1>2. f \in Surjection(DOMAIN f, Range(f))
  BY <1>1 DEF Range, Surjection
<1> QED
  BY <1>2, FS_Surjection

LEMMA SeqElements ==
  ASSUME NEW S, NEW t \in Seq(S)
  PROVE  /\ \A i \in DOMAIN t : t[i] \in S
         /\ \A x \in Range(t) : x \in S
<1>1. \A i \in DOMAIN t : t[i] \in S
  OBVIOUS
<1> QED
  BY <1>1 DEF Range

LEMMA SeqRangeFinite ==
  ASSUME NEW S, NEW t \in Seq(S)
  PROVE  IsFiniteSet(Range(t))
<1>1. Len(t) \in Nat /\ DOMAIN t = 1 .. Len(t) /\ t = [x \in DOMAIN t |-> t[x]]
  OBVIOUS
<1>2. 1 \in Int /\ Len(t) \in Int
  OBVIOUS
<1>3. IsFiniteSet(1 .. Len(t))
  BY <1>2, FS_Interval
<1> QED
  BY <1>1, <1>3, RangeFinite

LEMMA TransitionFacts ==
  /\ \A m \in Node : \A s \in DOMAIN Rules[m] : \A i \in DOMAIN Rules[m][s] :
       /\ <<m, s, i>> \in Transitions
       /\ RuleOf(<<m, s, i>>) = Rules[m][s][i]
       /\ Rules[m][s][i] \in RuleSet(m) /\ WellFormed(Rules[m][s][i])
  /\ \A t \in Transitions :
       /\ t[1] \in Node
       /\ RuleOf(t) \in RuleSet(t[1])
<1>1. ASSUME NEW m \in Node, NEW s \in DOMAIN Rules[m], NEW i \in DOMAIN Rules[m][s]
      PROVE  <<m, s, i>> \in Transitions /\ Rules[m][s][i] \in RuleSet(m)
  <2>1. <<m, s, i>> \in Transitions
    BY DEF Transitions
  <2>2. Rules[m][s] \in Seq(RuleSet(m))
    BY ActorsAssumption
  <2> QED
    BY <2>1, <2>2, SeqElements
<1>2. \A m, s, i : RuleOf(<<m, s, i>>) = Rules[m][s][i]
  BY DEF RuleOf
<1>3. ASSUME NEW t \in Transitions PROVE t[1] \in Node /\ RuleOf(t) \in RuleSet(t[1])
  <2>1. PICK m \in Node : t \in UNION {{<<m, s, i>> : i \in DOMAIN Rules[m][s]} : s \in DOMAIN Rules[m]}
    BY DEF Transitions
  <2>2. PICK s \in DOMAIN Rules[m] : t \in {<<m, s, i>> : i \in DOMAIN Rules[m][s]}
    BY <2>1
  <2>3. PICK i \in DOMAIN Rules[m][s] : t = <<m, s, i>>
    BY <2>2
  <2> QED
    BY <1>1, <1>2, <2>3
<1>4. \A t \in Transitions : WellFormed(RuleOf(t))
  BY ActorsAssumption
<1> QED
  BY <1>1, <1>2, <1>3, <1>4

LEMMA PortFacts ==
  ASSUME NEW t \in Transitions
  PROVE  /\ RuleOf(t).in \in Seq([chan : Chan, c : Nat, r : Nat])
         /\ RuleOf(t).out \in Seq([chan : Chan \cup ResetChan, n : Nat])
         /\ \A p \in Range(RuleOf(t).in) : p \in [chan : Chan, c : Nat, r : Nat]
         /\ \A p \in Range(RuleOf(t).out) : p \in [chan : Chan \cup ResetChan, n : Nat]
<1>1. RuleOf(t) \in RuleSet(t[1])
  BY TransitionFacts
<1>2. /\ RuleOf(t).in \in Seq([chan : Chan, c : Nat, r : Nat])
      /\ RuleOf(t).out \in Seq([chan : Chan \cup ResetChan, n : Nat])
  BY <1>1 DEF RuleSet
<1> QED
  BY <1>2, SeqElements

(* An event belongs to a FIFO, one of its sides and a number. *)
LEMMA EventFacts ==
  ASSUME NEW e \in Events
  PROVE  e[1] \in Chan /\ e[2] \in Side /\ e[3] \in Nat /\ e = <<e[1], e[2], e[3]>>
<1>1. PICK t \in Transitions : e \in ListOf(RuleOf(t))
  BY DEF Events, Lists
<1>2. CASE e \in {dataEvent(p) : p \in Range(RuleOf(t).in)}
  BY <1>2, PortFacts DEF dataEvent, Side
<1>3. CASE e \in {spaceEvent(p) : p \in {o \in Range(RuleOf(t).out) : ~resetEntry(o)}}
  BY <1>3, PortFacts DEF spaceEvent, resetEntry, Side
<1> QED
  BY <1>1, <1>2, <1>3 DEF ListOf

LEMMA GraphFinite == IsFiniteSet(Lists) /\ IsFiniteSet(Events)
<1>1. ASSUME NEW t \in Transitions PROVE IsFiniteSet(ListOf(RuleOf(t)))
  <2> DEFINE inp == Range(RuleOf(t).in)
             outp == {o \in Range(RuleOf(t).out) : ~resetEntry(o)}
             din  == [p \in inp |-> dataEvent(p)]
             dout == [p \in outp |-> spaceEvent(p)]
  <2>1. IsFiniteSet(inp) /\ IsFiniteSet(Range(RuleOf(t).out))
    BY PortFacts, SeqRangeFinite
  <2>2. IsFiniteSet(outp)
    BY <2>1, FS_Subset
  <2>3. IsFiniteSet(Range(din)) /\ IsFiniteSet(Range(dout))
    BY <2>1, <2>2, RangeFinite
  <2>4. Range(din) = {dataEvent(p) : p \in inp} /\ Range(dout) = {spaceEvent(p) : p \in outp}
    BY DEF Range
  <2>5. ListOf(RuleOf(t)) = Range(din) \cup Range(dout)
    BY <2>4 DEF ListOf
  <2> QED
    BY <2>3, <2>5, FS_Union
<1> DEFINE listOf == [t \in Transitions |-> ListOf(RuleOf(t))]
<1>2. IsFiniteSet(Range(listOf)) /\ Range(listOf) = Lists
  <2>1. IsFiniteSet(Transitions)
    BY ActorsAssumption
  <2> QED
    BY <2>1, RangeFinite DEF Range, Lists
<1>3. \A P \in Lists : IsFiniteSet(P)
  BY <1>1 DEF Lists
<1> QED
  BY <1>2, <1>3, FS_UNION DEF Events

(* A finite set in some order. *)
LEMMA Orders ==
  ASSUME NEW S, IsFiniteSet(S), NEW order \in SetToSeqs(S)
  PROVE  /\ order \in Seq(S) /\ Range(order) = S
         /\ \A i, j \in DOMAIN order : i # j => order[i] # order[j]
<1> DEFINE D == 1 .. Cardinality(S)
<1>1. Cardinality(S) \in Nat
  BY FS_CardinalityType
<1>2. order \in [D -> S] /\ \A i, j \in D : i # j => order[i] # order[j]
  BY DEF SetToSeqs
<1>3. order \in Injection(D, S)
  BY <1>2 DEF Injection, IsInjective
<1>4. Cardinality(D) = Cardinality(S)
  BY <1>1, FS_Interval
<1>5. order \in Surjection(D, S)
  BY <1>3, <1>4, FS_Injection
<1>6. Range(order) = S
  BY <1>2, <1>5 DEF Range, Surjection
<1> QED
  BY <1>1, <1>2, <1>6

-----------------------------------------------------------------------------
(* The calls.                                                              *)

LEMMA CallKinds ==
  ASSUME NEW x \in Calls
  PROVE  /\ x.call = "list" => x \in ListCall
         /\ x.call \in EventCallNames => x \in EventCall
         /\ x.call = "walk" => x \in WalkCalls
         /\ x.call \in {"consume", "produce"} => x \in CommCall
         /\ x.call = "resetScope" => x \in ScopeCall
         /\ x.call \in {"resetChan", "resetNode"} => x \in ResetCall
         /\ x.call = "setActive" => x \in SwitchCalls
         /\ x.call = "executed" => x \in LastCall
         /\ x.call \in {"list", "walk", "consume", "produce", "resetScope", "resetChan",
                        "resetNode", "setActive", "executed"} \cup EventCallNames
  BY DEF Calls, EventCall, ListCall, WalkCalls, CommCall, ScopeCall, ResetCall, SwitchCalls,
         LastCall, EventCallNames

LEMMA ListCallForm ==
  ASSUME NEW x \in Calls, x.call = "list"
  PROVE  x = ListCallOf(x.list, x.flag) /\ x.list \in Lists /\ x.flag \in BOOLEAN
  BY CallKinds DEF ListCall, ListCallOf

LEMMA EventCallForm ==
  ASSUME NEW x \in Calls, x.call \in EventCallNames
  PROVE  x = OneEvent(x.call, x.event) /\ x.event \in Events
  BY CallKinds DEF EventCall, OneEvent

LEMMA WalkCallForm ==
  ASSUME NEW x \in Calls, x.call = "walk"
  PROVE  /\ x = WalkCall(x.chan, x.side, x.kind)
         /\ x.chan \in Chan /\ x.side \in Side /\ x.kind \in Kinds
  BY CallKinds DEF WalkCalls, WalkCall

LEMMA ResetCallForm ==
  ASSUME NEW x \in Calls
  PROVE  /\ x.call = "resetChan" => x.chan \in Chan
         /\ x.call = "resetNode" => x.node \in Node
  BY CallKinds DEF ResetCall

LEMMA RankFacts ==
  ASSUME NEW x \in Calls
  PROVE  /\ Rank(x) \in 0 .. 3
         /\ Rank(x) = 0 <=> x.call = "list"
         /\ Rank(x) = 1 <=> x.call \in EventCallNames
         /\ Rank(x) = 2 <=> x.call = "walk"
  BY DEF Rank, EventCallNames

(* One call for each element of a set, in some order. *)
LEMMA CallEach ==
  ASSUME NEW S, IsFiniteSet(S), NEW order \in SetToSeqs(S),
         NEW g \in [S -> Calls], \A a, b \in S : Fine(g[a], g[b]),
         NEW cs, cs = [i \in DOMAIN order |-> g[order[i]]]
  PROVE  /\ cs \in Seq(Calls)
         /\ Range(cs) = {g[a] : a \in S}
         /\ \A i, j \in DOMAIN cs : i < j => Fine(cs[i], cs[j])
<1>1. order \in Seq(S) /\ Range(order) = S
  BY Orders
<1>2. \A i \in DOMAIN order : order[i] \in S
  BY <1>1, SeqElements
<1>3. Len(order) \in Nat /\ DOMAIN order = 1 .. Len(order)
  BY <1>1
<1>4. \A i \in DOMAIN order : cs[i] = g[order[i]] /\ g[order[i]] \in Calls
  BY <1>2
<1>5. cs \in Seq(Calls)
  BY <1>3, <1>4
<1>6. Range(cs) = {g[a] : a \in S}
  BY <1>1, <1>2 DEF Range
<1>7. \A i, j \in DOMAIN cs : Fine(cs[i], cs[j])
  BY <1>2, <1>4
<1> QED
  BY <1>5, <1>6, <1>7

(* The calls of an event to its lists. *)
LEMMA ListCalls ==
  ASSUME NEW S \in SUBSET Lists, NEW order \in SetToSeqs(S), NEW flag \in BOOLEAN
  PROVE  /\ AndLists(order, flag) \in Seq(Calls)
         /\ Range(AndLists(order, flag)) = {ListCallOf(P, flag) : P \in S}
         /\ \A i, j \in DOMAIN AndLists(order, flag) :
              i < j => Fine(AndLists(order, flag)[i], AndLists(order, flag)[j])
<1> DEFINE g == [P \in S |-> ListCallOf(P, flag)]
<1>1. IsFiniteSet(S)
  BY GraphFinite, FS_Subset
<1>2. \A i \in DOMAIN order : order[i] \in S
  BY <1>1, Orders, SeqElements
<1>3. AndLists(order, flag) = [i \in DOMAIN order |-> g[order[i]]]
  BY <1>2 DEF AndLists, Each, ListCallOf
<1>4. g \in [S -> Calls]
  BY DEF ListCallOf, Calls, ListCall
<1>5. \A P, Q \in S : Fine(g[P], g[Q])
  BY DEF Fine, ListCallOf, Rank, CommsFine
<1>6. {g[P] : P \in S} = {ListCallOf(P, flag) : P \in S}
  OBVIOUS
<1> DEFINE cs == AndLists(order, flag)
<1> HIDE DEF g, cs
<1>7. cs = [i \in DOMAIN order |-> g[order[i]]]
  BY <1>3 DEF cs
<1>8. /\ cs \in Seq(Calls)
      /\ Range(cs) = {g[P] : P \in S}
      /\ \A i, j \in DOMAIN cs : i < j => Fine(cs[i], cs[j])
  BY <1>1, <1>4, <1>5, <1>7, CallEach
<1> QED
  BY <1>6, <1>8 DEF cs

(* The calls of a walk to its events, name[n] to the event of n. *)
EventSeq(name, c, side, order) ==
  [i \in DOMAIN order |-> OneEvent(name[order[i]], <<c, side, order[i]>>)]

LEMMA WalkedEvents ==
  ASSUME NEW S, IsFiniteSet(S), NEW order \in SetToSeqs(S),
         NEW c, NEW side,
         NEW name, \A n \in S : name[n] \in EventCallNames,
         \A m, n \in S : ~(name[m] = "notify" /\ name[n] = "reset"),
         \A n \in S : <<c, side, n>> \in Events
  PROVE  LET cs == EventSeq(name, c, side, order)
         IN  /\ cs \in Seq(Calls)
             /\ Range(cs) = {OneEvent(name[n], <<c, side, n>>) : n \in S}
             /\ \A i, j \in DOMAIN cs : i < j => Fine(cs[i], cs[j])
<1> DEFINE cs == EventSeq(name, c, side, order)
           g == [n \in S |-> OneEvent(name[n], <<c, side, n>>)]
<1>1. \A i \in DOMAIN order : order[i] \in S
  BY Orders, SeqElements
<1>2. cs = [i \in DOMAIN order |-> g[order[i]]]
  BY <1>1 DEF EventSeq
<1>3. g \in [S -> Calls]
  BY DEF OneEvent, Calls, EventCall, EventCallNames
<1>4. ASSUME NEW m \in S, NEW n \in S PROVE Fine(g[m], g[n])
  <2>1. /\ Rank(g[m]) = 1 /\ g[m].call = name[m]
        /\ Rank(g[n]) = 1 /\ g[n].call = name[n]
    BY DEF OneEvent, Rank, EventCallNames
  <2>2. /\ name[m] \in EventCallNames /\ name[n] \in EventCallNames
        /\ ~(name[m] = "notify" /\ name[n] = "reset")
        /\ ~(name[n] = "notify" /\ name[m] = "reset")
    OBVIOUS
  <2> HIDE DEF g
  <2> QED
    BY <2>1, <2>2 DEF Fine, CommsFine, EventCallNames
<1>5. {g[n] : n \in S} = {OneEvent(name[n], <<c, side, n>>) : n \in S}
  OBVIOUS
<1> HIDE DEF g, cs
<1>6. \A m, n \in S : Fine(g[m], g[n])
  BY <1>4
<1>7. /\ cs \in Seq(Calls)
      /\ Range(cs) = {g[n] : n \in S}
      /\ \A i, j \in DOMAIN cs : i < j => Fine(cs[i], cs[j])
  <2>1. IsFiniteSet(S) /\ order \in SetToSeqs(S)
    OBVIOUS
  <2> QED
    BY ONLY <2>1, <1>2, <1>3, <1>6, CallEach
<1> QED
  BY <1>5, <1>7 DEF cs

-----------------------------------------------------------------------------
(* Searching a transition.                                                 *)

LEMMA MinIn ==
  ASSUME NEW S \in SUBSET Nat, S # {}
  PROVE  Min(S) \in S /\ \A y \in S : Min(S) <= y
<1>1. PICK x \in S : \A y \in S : ~(<<y, x>> \in OpToRel(<, Nat))
  BY NatLessThanWellFounded, WFMin
<1>2. \A y \in S : ~(y < x)
  BY <1>1, Zenon DEF OpToRel
<1>3. \A y \in S : x <= y
  BY <1>2
<1> QED
  BY <1>3 DEF Min

(* What the search returns is 0 or a transition that passes the check, and *)
(* none before it does.                                                    *)
LEMMA SearchFacts ==
  ASSUME NEW n \in Nat, NEW ready \in SUBSET (1 .. n), NEW k,
         k = IF ready = {} THEN 0 ELSE Min(ready)
  PROVE  /\ k \in 0 .. n
         /\ k # 0 => k \in ready
         /\ k = 0 => ready = {}
         /\ \A i \in ready : k <= i
<1>1. CASE ready = {}
  BY <1>1
<1>2. CASE ready # {}
  <2>1. ready \in SUBSET Nat
    OBVIOUS
  <2>2. Min(ready) \in ready /\ \A y \in ready : Min(ready) <= y
    BY <1>2, <2>1, MinIn
  <2> QED
    BY <1>2, <2>2
<1> QED
  BY <1>1, <1>2

-----------------------------------------------------------------------------
(* What a call leaves alone.                                               *)

(* The head of todo replaced by the calls it makes. *)
LEMMA Popped ==
  ASSUME todo \in Seq(Calls), InOrder, todo # <<>>,
         NEW cs \in Seq(Calls), todo' = cs \o Tail(todo)
  PROVE  /\ todo' \in Seq(Calls) /\ Head(todo) \in Calls /\ Head(todo) \in Due
         /\ Due = {Head(todo)} \cup Range(Tail(todo))
         /\ Due' = Range(cs) \cup Range(Tail(todo))
         /\ Due \subseteq Calls /\ Range(cs) \subseteq Calls
         /\ \A y \in Range(Tail(todo)) : y \in Calls /\ Fine(Head(todo), y)
<1>0. ASSUME NEW u, u = cs \o Tail(todo)
      PROVE  /\ u \in Seq(Calls) /\ Head(todo) \in Calls
             /\ Range(todo) = {Head(todo)} \cup Range(Tail(todo))
             /\ Range(u) = Range(cs) \cup Range(Tail(todo))
             /\ Range(todo) \subseteq Calls /\ Range(cs) \subseteq Calls
  BY <1>0, Replaced
<1>1. /\ todo' \in Seq(Calls) /\ Head(todo) \in Calls
      /\ Range(todo) = {Head(todo)} \cup Range(Tail(todo))
      /\ Range(todo') = Range(cs) \cup Range(Tail(todo))
      /\ Range(todo) \subseteq Calls /\ Range(cs) \subseteq Calls
  BY <1>0
<1>2. \A y \in Range(Tail(todo)) : Fine(Head(todo), y)
  BY HeadFirst
<1> QED
  BY <1>1, <1>2 DEF Due

LEMMA Nothing == <<>> \in Seq(Calls) /\ Range(<<>>) = {} /\ DOMAIN <<>> = {}
  BY DEF Range

LEMMA LevelKept ==
  ASSUME NEW c \in Chan, NEW side \in Side, Level(c, side),
         Count(c, side)' = Count(c, side),
         \A e \in Events : e[1] = c /\ e[2] = side => (EventAfter(e)' <=> EventAfter(e)),
         \A kind \in Kinds : WalkCall(c, side, kind) \in Due' <=> WalkCall(c, side, kind) \in Due
  PROVE  Level(c, side)'
<1>1. \A kinds \in SUBSET Kinds : Walks(c, side, kinds)' <=> Walks(c, side, kinds)
  BY DEF Walks, WalkCall
<1>2. \A k : UpTo(c, side, k)' <=> UpTo(c, side, k)
  BY DEF UpTo
<1>3. /\ Walks(c, side, {"reset"})' <=> Walks(c, side, {"reset"})
      /\ Walks(c, side, {"increasedCount"})' <=> Walks(c, side, {"increasedCount"})
      /\ Walks(c, side, {"decreasedCount", "decreasedCountRenotify"})'
           <=> Walks(c, side, {"decreasedCount", "decreasedCountRenotify"})
  BY <1>1 DEF Kinds
<1> QED
  BY <1>2, <1>3 DEF Level

LEMMA LevelsKept ==
  ASSUME Levels, tok' = tok,
         \A e \in Events : EventAfter(e)' <=> EventAfter(e),
         \A c \in Chan : \A side \in Side : \A kind \in Kinds :
           WalkCall(c, side, kind) \in Due' <=> WalkCall(c, side, kind) \in Due
  PROVE  Levels'
<1>1. \A c \in Chan : \A side \in Side : Count(c, side)' = Count(c, side)
  BY DEF Count
<1>2. ASSUME NEW c \in Chan, NEW side \in Side PROVE Level(c, side)'
  <2>1. Level(c, side)
    BY DEF Levels
  <2> QED
    BY <1>1, <2>1, LevelKept
<1> QED
  BY <1>2 DEF Levels

(* The calls of other kinds. *)
LEMMA Kept ==
  ASSUME NEW h, NEW C, NEW R, NEW names, h.call \in names, \A x \in C : x.call \in names
  PROVE  \A y : y.call \notin names => (y \in C \cup R <=> y \in {h} \cup R)
  OBVIOUS

LEMMA EventsKept ==
  ASSUME NEW h, NEW C, NEW R, Due = {h} \cup R, Due' = C \cup R,
         h.call \notin {"notify", "reset"}, \A x \in C : x.call \notin {"notify", "reset"},
         enabled' = enabled
  PROVE  \A e \in Events : EventAfter(e)' <=> EventAfter(e)
<1>1. \A y : y.call \in {"notify", "reset"} => (y \in Due' <=> y \in Due)
  OBVIOUS
<1>2. \A e : OneEvent("notify", e).call = "notify" /\ OneEvent("reset", e).call = "reset"
  BY DEF OneEvent
<1> QED
  BY <1>1, <1>2 DEF EventAfter, OneEvent

LEMMA WalksKept ==
  ASSUME NEW h, NEW C, NEW R, Due = {h} \cup R, Due' = C \cup R,
         h.call # "walk", \A x \in C : x.call # "walk"
  PROVE  \A c \in Chan : \A side \in Side : \A kind \in Kinds :
           WalkCall(c, side, kind) \in Due' <=> WalkCall(c, side, kind) \in Due
  BY DEF WalkCall

LEMMA ListsKept ==
  ASSUME NEW h, NEW C, NEW R, Due = {h} \cup R, Due' = C \cup R,
         h.call # "list", \A x \in C : x.call # "list",
         live' = live, enabled' = enabled, ListsFollow
  PROVE  ListsFollow'
<1>1. \A P, flag : ListCallOf(P, flag) \in Due' <=> ListCallOf(P, flag) \in Due
  BY DEF ListCallOf
<1> QED
  BY <1>1 DEF ListsFollow, ListAfter, ListCallOf

(* A call that is no communication and makes none leaves the others        *)
(* possible.                                                               *)
LEMMA FitsKept ==
  ASSUME NEW h, NEW C, NEW R, Due = {h} \cup R, Due' = C \cup R, tok' = tok, Fits,
         \A x \in C : x.call \notin {"consume", "produce"}
  PROVE  Fits'
  BY DEF Fits

LEMMA FiringKept ==
  ASSUME NEW h, NEW C, NEW R, Due = {h} \cup R, Due' = C \cup R, todo # <<>>, Firing,
         h.call # "executed", \A x \in C : x.call # "executed", running' = running
  PROVE  Firing' /\ todo' # <<>>
<1>1. \A x : x.call = "executed" => (x \in Due' <=> x \in Due)
  OBVIOUS
<1>2. \E x \in Due' : x.call = "executed"
  BY <1>1 DEF Firing
<1>3. todo' # <<>>
  BY <1>2, Nothing DEF Due
<1> QED
  BY <1>1, <1>2, <1>3 DEF Firing

(* A step of the cascade in which no actor is told anything. *)
LEMMA Cascade ==
  ASSUME ActorsInv, todo # <<>>, NEW cs \in Seq(Calls), todo' = cs \o Tail(todo),
         Head(todo).call # "executed", \A x \in Range(cs) : x.call # "executed",
         \A i, j \in DOMAIN cs : i < j => Fine(cs[i], cs[j]),
         \A x \in Range(cs) : \A y \in Calls : Fine(Head(todo), y) => Fine(x, y),
         UNCHANGED <<live, state, ct, on, pending, runnable, running>>
  PROVE  InOrder' /\ Firing' /\ ChoiceLive' /\ Requested'
<1>1. todo \in Seq(Calls) /\ InOrder
  BY DEF ActorsInv, Typed
<1>2. InOrder'
  BY <1>1, StaysInOrder
<1>3. Due = {Head(todo)} \cup Range(Tail(todo)) /\ Due' = Range(cs) \cup Range(Tail(todo))
  BY <1>1, Popped
<1>4. Firing' /\ todo' # <<>>
  BY <1>3, FiringKept DEF ActorsInv
<1>5. ChoiceLive' /\ Requested'
  BY <1>4 DEF ActorsInv, ChoiceLive, Requested, canFire, Executing, Current
<1> QED
  BY <1>2, <1>4, <1>5

-----------------------------------------------------------------------------
(* Events and lists.                                                       *)

(* The lists an event calls may stand in for the call to the event.        *)
LEMMA ListsPatient ==
  ASSUME NEW h, h.call \in EventCallNames, NEW P, NEW flag
  PROVE  \A y \in Calls : Fine(h, y) => Fine(ListCallOf(P, flag), y)
<1>1. Rank(h) = 1 /\ Rank(ListCallOf(P, flag)) = 0 /\ ListCallOf(P, flag).call = "list"
  BY DEF Rank, EventCallNames, ListCallOf
<1>2. SUFFICES ASSUME NEW y \in Calls, Fine(h, y) PROVE Fine(ListCallOf(P, flag), y)
  OBVIOUS
<1>3. Rank(y) \in 0 .. 3 /\ (Rank(y) = 0 <=> y.call = "list") /\ Rank(h) <= Rank(y)
  BY <1>2, RankFacts DEF Fine
<1>4. y.call # "list" /\ Rank(ListCallOf(P, flag)) <= Rank(y)
  BY <1>1, <1>3
<1> QED
  BY <1>1, <1>4 DEF Fine, CommsFine

(* An event's turn, whatever it makes of its lists.                        *)
LEMMA EventTurn ==
  ASSUME ActorsInv, todo # <<>>, Head(todo).call \in EventCallNames,
         NEW S \in SUBSET Lists, NEW order \in SetToSeqs(S), NEW flag \in BOOLEAN,
         Instead(AndLists(order, flag)),
         UNCHANGED <<tok, live, state, ct, on, holds, pending, runnable, running>>,
         enabled' \in SUBSET Events
  PROVE  /\ Typed' /\ InOrder' /\ Firing' /\ Fits' /\ ChoiceLive' /\ Requested'
         /\ Due = {Head(todo)} \cup Range(Tail(todo))
         /\ Due' = {ListCallOf(P, flag) : P \in S} \cup Range(Tail(todo))
         /\ \A y \in Range(Tail(todo)) : y \in Calls /\ Fine(Head(todo), y)
<1> DEFINE cs == AndLists(order, flag)
<1>1. /\ cs \in Seq(Calls)
      /\ Range(cs) = {ListCallOf(P, flag) : P \in S}
      /\ \A i, j \in DOMAIN cs : i < j => Fine(cs[i], cs[j])
  BY ListCalls
<1> HIDE DEF cs
<1>2. todo \in Seq(Calls) /\ InOrder /\ todo' = cs \o Tail(todo)
  BY DEF ActorsInv, Typed, Instead, cs
<1>3. /\ todo' \in Seq(Calls)
      /\ Due = {Head(todo)} \cup Range(Tail(todo))
      /\ Due' = Range(cs) \cup Range(Tail(todo))
      /\ \A y \in Range(Tail(todo)) : y \in Calls /\ Fine(Head(todo), y)
  BY <1>1, <1>2, Popped
<1>4. \A x \in Range(cs) : x.call = "list"
  BY <1>1 DEF ListCallOf
<1>5. \A x \in Range(cs) : \A y \in Calls : Fine(Head(todo), y) => Fine(x, y)
  BY <1>1, ListsPatient
<1>6. Head(todo).call # "executed"
  BY DEF EventCallNames
<1>7. InOrder' /\ Firing' /\ ChoiceLive' /\ Requested'
  BY <1>1, <1>2, <1>4, <1>5, <1>6, Cascade
<1>8. Typed'
  BY <1>3 DEF ActorsInv, Typed
<1>9. Fits'
  BY <1>3, <1>4, FitsKept DEF ActorsInv
<1> QED
  BY <1>1, <1>3, <1>7, <1>8, <1>9

(* Below an event's call nothing is on its way. *)
LEMMA NoListsDue ==
  ASSUME NEW h, NEW R, Due = {h} \cup R, \A y \in R : y \in Calls /\ Fine(h, y), Rank(h) \in 1 .. 3
  PROVE  \A P, flag : ListCallOf(P, flag) \notin Due
<1>1. \A P, flag : Rank(ListCallOf(P, flag)) = 0
  BY DEF Rank, ListCallOf
<1>2. \A y \in R : Rank(y) \in 0 .. 3 /\ Rank(h) <= Rank(y)
  BY RankFacts DEF Fine
<1> QED
  BY <1>1, <1>2

LEMMA NoEventsDue ==
  ASSUME NEW h, NEW R, Due = {h} \cup R, \A y \in R : y \in Calls /\ Fine(h, y), Rank(h) \in 2 .. 3
  PROVE  \A e : \A name \in EventCallNames : OneEvent(name, e) \notin Due
<1>1. \A e : \A name \in EventCallNames : Rank(OneEvent(name, e)) = 1
  BY DEF Rank, OneEvent, EventCallNames
<1>2. \A y \in R : Rank(y) \in 0 .. 3 /\ Rank(h) <= Rank(y)
  BY RankFacts DEF Fine
<1> QED
  BY <1>1, <1>2

LEMMA NotifyStep ==
  ASSUME ActorsInv, notify
  PROVE  ActorsInv'
<1> DEFINE e == Head(todo).event
           R == Range(Tail(todo))
           S == {P \in Lists : e \in P /\ P \subseteq enabled'}
<1>1. todo # <<>> /\ Head(todo).call = "notify" /\ todo \in Seq(Calls) /\ InOrder
  BY DEF notify, Doing, ActorsInv, Typed
<1>2. Head(todo) \in Calls /\ Head(todo) = OneEvent("notify", e) /\ e \in Events
  BY <1>1, EventCallForm DEF EventCallNames
<1>3. PICK order \in SetToSeqs(S) : Instead(AndLists(order, TRUE))
  BY DEF notify
<1>4. /\ enabled' = enabled \cup {e} /\ enabled' \in SUBSET Events
      /\ UNCHANGED <<tok, live, state, ct, on, holds, pending, runnable, running>>
  BY <1>2 DEF notify, ActorsInv, Typed
<1>5. S \in SUBSET Lists
  OBVIOUS
<1> HIDE DEF e, R, S
<1>6. /\ Typed' /\ InOrder' /\ Firing' /\ Fits' /\ ChoiceLive' /\ Requested'
      /\ Due = {Head(todo)} \cup R
      /\ Due' = {ListCallOf(P, TRUE) : P \in S} \cup R
      /\ \A y \in R : y \in Calls /\ Fine(Head(todo), y)
  BY <1>1, <1>3, <1>4, <1>5, EventTurn DEF EventCallNames, R
<1>7. Levels'
  <2>1. \A d : OneEvent("reset", d) \notin Due
    <3>1. \A y \in R : y.call # "reset"
      BY <1>1, <1>6 DEF Fine
    <3> QED
      BY <1>1, <1>6, <3>1 DEF OneEvent
  <2>2. \A x \in {ListCallOf(P, TRUE) : P \in S} : x.call = "list"
    BY DEF ListCallOf
  <2>3. \A d, name : name # "list" => OneEvent(name, d) \notin {ListCallOf(P, TRUE) : P \in S}
    BY <2>2 DEF OneEvent
  <2>4. \A d : OneEvent("reset", d) \notin Due'
    BY <1>6, <2>1, <2>3
  <2>5. \A d : OneEvent("notify", d) \in Due <=> OneEvent("notify", d) \in Due' \/ d = e
    <3>1. \A d : OneEvent("notify", d) = OneEvent("notify", e) => d = e
      BY DEF OneEvent
    <3> QED
      BY <1>2, <1>6, <2>3, <3>1
  <2>6. \A d \in Events : EventAfter(d)' <=> EventAfter(d)
    BY <1>4, <2>1, <2>4, <2>5 DEF EventAfter
  <2>7. \A c \in Chan : \A side \in Side : \A kind \in Kinds :
          WalkCall(c, side, kind) \in Due' <=> WalkCall(c, side, kind) \in Due
    BY <1>1, <1>6, <2>2, WalksKept
  <2> QED
    BY <1>4, <2>6, <2>7, LevelsKept DEF ActorsInv
<1>8. ListsFollow'
  <2>1. \A P, flag : ListCallOf(P, flag) \notin Due
    <3>1. Rank(Head(todo)) \in 1 .. 3
      BY <1>1 DEF Rank
    <3> QED
      BY <1>6, <3>1, NoListsDue
  <2>2. \A P, flag : ListCallOf(P, flag) \notin R
    BY <1>6, <2>1
  <2>3. \A P : ListCallOf(P, FALSE) \notin Due' /\ (ListCallOf(P, TRUE) \in Due' <=> P \in S)
    BY <1>6, <2>2 DEF ListCallOf
  <2>4. \A P \in Lists : P \in live <=> P \subseteq enabled
    BY <2>1 DEF ActorsInv, ListsFollow, ListAfter
  <2>5. \A P \in Lists : (P \in live \/ P \in S) <=> P \subseteq enabled'
    BY <1>4, <2>4 DEF S
  <2> QED
    BY <1>4, <2>3, <2>5 DEF ListsFollow, ListAfter
<1> QED
  BY <1>6, <1>7, <1>8 DEF ActorsInv

LEMMA ResetEventStep ==
  ASSUME ActorsInv, resetEvent
  PROVE  ActorsInv'
<1> DEFINE e == Head(todo).event
           R == Range(Tail(todo))
           S == {P \in live : e \in P}
<1>1. todo # <<>> /\ Head(todo).call = "reset" /\ todo \in Seq(Calls) /\ InOrder
  BY DEF resetEvent, Doing, ActorsInv, Typed
<1>2. Head(todo) \in Calls /\ Head(todo) = OneEvent("reset", e) /\ e \in Events
  BY <1>1, EventCallForm DEF EventCallNames
<1>3. PICK order \in SetToSeqs(S) : Instead(AndLists(order, FALSE))
  BY DEF resetEvent
<1>4. /\ enabled' = enabled \ {e} /\ enabled' \in SUBSET Events
      /\ UNCHANGED <<tok, live, state, ct, on, holds, pending, runnable, running>>
  BY <1>2 DEF resetEvent, ActorsInv, Typed
<1>5. S \in SUBSET Lists
  BY DEF ActorsInv, Typed
<1> HIDE DEF e, R, S
<1>6. /\ Typed' /\ InOrder' /\ Firing' /\ Fits' /\ ChoiceLive' /\ Requested'
      /\ Due = {Head(todo)} \cup R
      /\ Due' = {ListCallOf(P, FALSE) : P \in S} \cup R
      /\ \A y \in R : y \in Calls /\ Fine(Head(todo), y)
  BY <1>1, <1>3, <1>4, <1>5, EventTurn DEF EventCallNames, R
<1>7. Levels'
  <2>1. \A d : OneEvent("notify", d) \notin Due
    <3>1. \A y \in R : y.call # "notify"
      BY <1>1, <1>6 DEF Fine
    <3> QED
      BY <1>1, <1>6, <3>1 DEF OneEvent
  <2>2. \A x \in {ListCallOf(P, FALSE) : P \in S} : x.call = "list"
    BY DEF ListCallOf
  <2>3. \A d, name : name # "list" => OneEvent(name, d) \notin {ListCallOf(P, FALSE) : P \in S}
    BY <2>2 DEF OneEvent
  <2>4. \A d : OneEvent("notify", d) \notin Due'
    BY <1>6, <2>1, <2>3
  <2>5. \A d : OneEvent("reset", d) \in Due <=> OneEvent("reset", d) \in Due' \/ d = e
    <3>1. \A d : OneEvent("reset", d) = OneEvent("reset", e) => d = e
      BY DEF OneEvent
    <3> QED
      BY <1>2, <1>6, <2>3, <3>1
  <2>6. \A d \in Events : EventAfter(d)' <=> EventAfter(d)
    BY <1>4, <2>1, <2>4, <2>5 DEF EventAfter
  <2>7. \A c \in Chan : \A side \in Side : \A kind \in Kinds :
          WalkCall(c, side, kind) \in Due' <=> WalkCall(c, side, kind) \in Due
    BY <1>1, <1>6, <2>2, WalksKept
  <2> QED
    BY <1>4, <2>6, <2>7, LevelsKept DEF ActorsInv
<1>8. ListsFollow'
  <2>1. \A P, flag : ListCallOf(P, flag) \notin Due
    <3>1. Rank(Head(todo)) \in 1 .. 3
      BY <1>1 DEF Rank
    <3> QED
      BY <1>6, <3>1, NoListsDue
  <2>2. \A P, flag : ListCallOf(P, flag) \notin R
    BY <1>6, <2>1
  <2>3. \A P : ListCallOf(P, TRUE) \notin Due' /\ (ListCallOf(P, FALSE) \in Due' <=> P \in S)
    BY <1>6, <2>2 DEF ListCallOf
  <2>4. \A P \in Lists : P \in live <=> P \subseteq enabled
    BY <2>1 DEF ActorsInv, ListsFollow, ListAfter
  <2>5. \A P \in Lists : (P \in live /\ P \notin S) <=> P \subseteq enabled'
    BY <1>4, <2>4 DEF S
  <2> QED
    BY <1>4, <2>3, <2>5 DEF ListsFollow, ListAfter
<1> QED
  BY <1>6, <1>7, <1>8 DEF ActorsInv

LEMMA RenotifyStep ==
  ASSUME ActorsInv, renotifyListener
  PROVE  ActorsInv'
<1> DEFINE R == Range(Tail(todo))
           S == {P \in live : Head(todo).event \in P}
<1>1. todo # <<>> /\ Head(todo).call = "renotify" /\ todo \in Seq(Calls) /\ InOrder
  BY DEF renotifyListener, Doing, ActorsInv, Typed
<1>2. PICK order \in SetToSeqs(S) : Instead(AndLists(order, TRUE))
  BY DEF renotifyListener
<1>3. UNCHANGED <<tok, enabled, live, state, ct, on, holds, pending, runnable, running>>
  BY DEF renotifyListener
<1>4. S \in SUBSET Lists /\ enabled' \in SUBSET Events
  BY <1>3 DEF ActorsInv, Typed
<1>5. S \subseteq live
  OBVIOUS
<1> HIDE DEF R, S
<1>6. /\ Typed' /\ InOrder' /\ Firing' /\ Fits' /\ ChoiceLive' /\ Requested'
      /\ Due = {Head(todo)} \cup R
      /\ Due' = {ListCallOf(P, TRUE) : P \in S} \cup R
      /\ \A y \in R : y \in Calls /\ Fine(Head(todo), y)
  BY <1>1, <1>2, <1>3, <1>4, EventTurn DEF EventCallNames, R
<1>7. Levels'
  <2>1. \A x \in {ListCallOf(P, TRUE) : P \in S} : x.call = "list"
    BY DEF ListCallOf
  <2>2. \A d \in Events : EventAfter(d)' <=> EventAfter(d)
    BY <1>1, <1>3, <1>6, <2>1, EventsKept
  <2>3. \A c \in Chan : \A side \in Side : \A kind \in Kinds :
          WalkCall(c, side, kind) \in Due' <=> WalkCall(c, side, kind) \in Due
    BY <1>1, <1>6, <2>1, WalksKept
  <2> QED
    BY <1>3, <2>2, <2>3, LevelsKept DEF ActorsInv
<1>8. ListsFollow'
  <2>1. \A P, flag : ListCallOf(P, flag) \notin Due
    <3>1. Rank(Head(todo)) \in 1 .. 3
      BY <1>1 DEF Rank
    <3> QED
      BY <1>6, <3>1, NoListsDue
  <2>2. \A P, flag : ListCallOf(P, flag) \notin R
    BY <1>6, <2>1
  <2>3. \A P : ListCallOf(P, FALSE) \notin Due' /\ (ListCallOf(P, TRUE) \in Due' => P \in live)
    BY <1>5, <1>6, <2>2 DEF ListCallOf
  <2>4. \A P \in Lists : P \in live <=> P \subseteq enabled
    BY <2>1 DEF ActorsInv, ListsFollow, ListAfter
  <2> QED
    BY <1>3, <2>3, <2>4 DEF ListsFollow, ListAfter
<1> QED
  BY <1>6, <1>7, <1>8 DEF ActorsInv

(* What a listener's search finds. *)
LEMMA Found ==
  ASSUME NEW m \in Node, state'[m] \in DOMAIN Rules[m]
  PROVE  /\ FirstReady(m)' \in 0 .. Len(Rules[m][state'[m]])
         /\ FirstReady(m)' # 0 => ListOf(Rules[m][state'[m]][FirstReady(m)']) \in live'
<1> DEFINE rules == Rules[m][state'[m]]
           ready == {i \in DOMAIN rules : check(m, i)'}
<1>1. rules \in Seq(RuleSet(m))
  BY ActorsAssumption
<1>2. Len(rules) \in Nat /\ ready \in SUBSET (1 .. Len(rules))
  BY <1>1
<1>3. FirstReady(m)' = IF ready = {} THEN 0 ELSE Min(ready)
  BY DEF FirstReady, Current
<1>4. \A i \in ready : ListOf(rules[i]) \in live'
  BY DEF check, Current
<1> HIDE DEF rules, ready
<1>5. FirstReady(m)' \in 0 .. Len(rules) /\ (FirstReady(m)' # 0 => FirstReady(m)' \in ready)
  BY <1>2, <1>3, SearchFacts
<1> QED
  BY <1>4, <1>5 DEF rules

LEMMA SignaledStep ==
  ASSUME ActorsInv, signaled
  PROVE  ActorsInv'
<1> DEFINE P == Head(todo).list
           flag == Head(todo).flag
           R == Range(Tail(todo))
           hears == {m \in Node : Hears(m, P, flag)}
           none  == {}
<1>1. todo # <<>> /\ Head(todo).call = "list" /\ todo \in Seq(Calls) /\ InOrder
  BY DEF signaled, Doing, ActorsInv, Typed
<1>2. Head(todo) \in Calls /\ Head(todo) = ListCallOf(P, flag) /\ P \in Lists /\ flag \in BOOLEAN
  BY <1>1, ListCallForm
<1>3. /\ live' = IF flag THEN live \cup {P} ELSE live \ {P}
      /\ UNCHANGED <<tok, enabled, state, on, holds, runnable, running>>
      /\ ct' = [m \in Node |-> IF m \in hears THEN FirstReady(m)' ELSE ct[m]]
      /\ pending' = Answered(hears, flag)
      /\ todo' = <<>> \o Tail(todo)
  BY DEF signaled, Instead
<1>4. hears \subseteq Node
  OBVIOUS
<1>5. /\ todo' \in Seq(Calls)
      /\ Due = {Head(todo)} \cup R /\ Due' = none \cup R /\ (\A x : x \notin none)
      /\ \A y \in R : y \in Calls /\ Fine(Head(todo), y)
  BY <1>1, <1>3, Popped, Nothing
<1>6. \A m \in Node : state[m] \in DOMAIN Rules[m] /\ state'[m] = state[m]
  BY <1>3 DEF ActorsInv, Typed
<1> HIDE DEF P, flag, R, hears, none
<1>7. \A m \in Node : /\ FirstReady(m)' \in 0 .. Len(Rules[m][state[m]])
                      /\ FirstReady(m)' # 0 => ListOf(Rules[m][state[m]][FirstReady(m)']) \in live'
  BY <1>6, Found
<1>8. Typed'
  <2>1. \A m \in Node : ct'[m] \in 0 .. Len(Rules[m][state[m]]) /\ ct'[m] \in Nat
    BY <1>3, <1>7 DEF ActorsInv, Typed
  <2>2. ct' \in [Node -> Nat]
    BY <1>3, <2>1
  <2>3. live' \subseteq Lists
    BY <1>2, <1>3 DEF ActorsInv, Typed
  <2>4. pending' \subseteq Node
    BY <1>3, <1>4 DEF ActorsInv, Typed, Answered
  <2> QED
    BY <1>3, <1>5, <2>1, <2>2, <2>3, <2>4 DEF ActorsInv, Typed
<1>9. InOrder'
  BY <1>1, <1>3, StaysInOrder, Nothing
<1>10. Firing' /\ todo' # <<>>
  BY <1>1, <1>3, <1>5, FiringKept DEF ActorsInv
<1>11. Fits'
  BY <1>3, <1>5, FitsKept DEF ActorsInv
<1>12. Levels'
  <2>1. \A d \in Events : EventAfter(d)' <=> EventAfter(d)
    BY <1>1, <1>3, <1>5, EventsKept
  <2>2. \A c \in Chan : \A side \in Side : \A kind \in Kinds :
          WalkCall(c, side, kind) \in Due' <=> WalkCall(c, side, kind) \in Due
    BY <1>1, <1>5, WalksKept
  <2> QED
    BY <1>3, <2>1, <2>2, LevelsKept DEF ActorsInv
<1>13. ListsFollow'
  <2>1. \A Q : ListCallOf(Q, ~flag) \notin Due
    <3>1. \A y \in R : y.call = "list" => y.flag = flag
      BY <1>1, <1>5 DEF Fine, flag
    <3> QED
      BY <1>1, <1>2, <1>5, <3>1 DEF ListCallOf, flag
  <2>2. \A Q : ListCallOf(Q, ~flag) \notin Due'
    BY <1>5, <2>1
  <2>3. \A Q : ListCallOf(Q, flag) \in Due <=> ListCallOf(Q, flag) \in Due' \/ Q = P
    <3>1. \A Q : ListCallOf(Q, flag) = ListCallOf(P, flag) => Q = P
      BY DEF ListCallOf
    <3> QED
      BY <1>2, <1>5, <3>1
  <2>4. \A Q \in Lists : ListAfter(Q)' <=> ListAfter(Q)
    <3>1. CASE flag = TRUE
      BY <1>3, <2>1, <2>2, <2>3, <3>1 DEF ListAfter
    <3>2. CASE flag = FALSE
      BY <1>3, <2>1, <2>2, <2>3, <3>2 DEF ListAfter
    <3> QED
      BY <1>2, <3>1, <3>2
  <2> QED
    BY <1>3, <2>4 DEF ActorsInv, ListsFollow
<1>14. ChoiceLive'
  <2>1. SUFFICES ASSUME NEW m \in Node, canFire(m)', ~Executing(m)'
                 PROVE  ListOf(Rules[m][state[m]][ct'[m]]) \in live'
    BY <1>3 DEF ChoiceLive, Current
  <2>2. on[m] /\ m # running /\ ~Executing(m) /\ ct'[m] # 0
    BY <1>1, <1>3, <1>10, <2>1 DEF canFire, Executing
  <2>3. CASE m \in hears
    BY <1>3, <1>7, <2>2, <2>3
  <2>4. CASE m \notin hears
    <3>1. ct'[m] = ct[m] /\ ct[m] # 0
      BY <1>3, <2>2, <2>4
    <3>2. ListOf(Rules[m][state[m]][ct[m]]) \in live
      BY <2>2, <3>1 DEF ActorsInv, ChoiceLive, canFire, Current
    <3>3. ct[m] \in DOMAIN Rules[m][state[m]]
      <4>1. Rules[m][state[m]] \in Seq(RuleSet(m)) /\ ct[m] \in 0 .. Len(Rules[m][state[m]])
        BY <1>6, ActorsAssumption DEF ActorsInv, Typed
      <4> QED
        BY <3>1, <4>1
    <3>4. ListOf(Rules[m][state[m]][ct[m]]) # P
      BY <2>2, <2>4, <3>1, <3>3 DEF hears, Hears, Current
    <3> QED
      BY <1>3, <3>1, <3>2, <3>4
  <2> QED
    BY <2>3, <2>4
<1>15. Requested'
  <2>1. SUFFICES ASSUME NEW m \in Node, canFire(m)'
                 PROVE  m \in pending' \cup runnable \cup {running}
    BY <1>3 DEF Requested
  <2>2. on[m] /\ ct'[m] # 0
    BY <1>3, <2>1 DEF canFire
  <2>3. CASE ct[m] # 0
    <3>1. m \in pending \cup runnable \cup {running}
      BY <2>2, <2>3 DEF ActorsInv, Requested, canFire
    <3> QED
      BY <1>3, <2>2, <3>1 DEF Answered
  <2>4. CASE ct[m] = 0
    <3>1. m \in hears /\ flag
      BY <1>3, <2>2, <2>4 DEF hears, Hears
    <3> QED
      BY <1>3, <2>2, <3>1 DEF Answered
  <2> QED
    BY <2>3, <2>4
<1> QED
  BY <1>8, <1>9, <1>10, <1>11, <1>12, <1>13, <1>14, <1>15 DEF ActorsInv

-----------------------------------------------------------------------------
(* The walks of the event maps.                                            *)

Thresholds(c, side) == DOMAIN EventMapOf(c, side)

LEMMA MapFacts ==
  ASSUME NEW c, NEW side
  PROVE  /\ IsFiniteSet(Thresholds(c, side))
         /\ Thresholds(c, side) \subseteq Nat
         /\ \A n \in Thresholds(c, side) : <<c, side, n>> \in Events
         /\ \A e \in Events : e[1] = c /\ e[2] = side =>
              e[3] \in Thresholds(c, side) /\ e = <<c, side, e[3]>>
         /\ \A n \in Thresholds(c, side) :
              EventMapOf(c, side)[n] <=> <<c, side, n>> \in enabled
<1> DEFINE E == {x \in Events : x[1] = c /\ x[2] = side}
           third == [e \in E |-> e[3]]
<1>1. IsFiniteSet(E)
  BY GraphFinite, FS_Subset
<1>2. IsFiniteSet(Range(third)) /\ Range(third) = {e[3] : e \in E}
  BY <1>1, RangeFinite DEF Range
<1>3. Thresholds(c, side) = {e[3] : e \in E}
  BY DEF Thresholds, EventMapOf
<1>4. \A e \in E : e[3] \in Nat /\ e = <<c, side, e[3]>>
  BY EventFacts
<1>5. \A n \in Thresholds(c, side) : EventMapOf(c, side)[n] <=> <<c, side, n>> \in enabled
  BY DEF Thresholds, EventMapOf
<1>6. \A n \in Thresholds(c, side) : n \in Nat /\ <<c, side, n>> \in Events
  BY <1>3, <1>4
<1>7. \A e \in Events : e[1] = c /\ e[2] = side =>
              e[3] \in Thresholds(c, side) /\ e = <<c, side, e[3]>>
  BY <1>3, <1>4
<1> QED
  BY <1>2, <1>3, <1>5, <1>6, <1>7

(* The calls to events may stand in for the walk. *)
LEMMA EventsPatient ==
  ASSUME NEW h, h.call = "walk", NEW name \in EventCallNames, NEW e
  PROVE  \A y \in Calls : Fine(h, y) => Fine(OneEvent(name, e), y)
<1>1. Rank(h) = 2 /\ Rank(OneEvent(name, e)) = 1 /\ OneEvent(name, e).call = name
  BY DEF Rank, EventCallNames, OneEvent
<1>2. SUFFICES ASSUME NEW y \in Calls, Fine(h, y) PROVE Fine(OneEvent(name, e), y)
  OBVIOUS
<1>3. /\ Rank(y) \in 0 .. 3 /\ (Rank(y) = 0 <=> y.call = "list")
      /\ (Rank(y) = 1 <=> y.call \in EventCallNames) /\ Rank(h) <= Rank(y)
  BY <1>2, RankFacts DEF Fine
<1>4. y.call # "list" /\ y.call \notin EventCallNames /\ Rank(OneEvent(name, e)) <= Rank(y)
  BY <1>1, <1>3
<1> QED
  BY <1>1, <1>4 DEF Fine, CommsFine, EventCallNames

(* The events that a walk, name[n] for the event of n, leaves enabled. *)
LEMMA WalkTurn ==
  ASSUME ActorsInv, todo # <<>>,
         NEW c \in Chan, NEW side \in Side, NEW kind \in Kinds, Head(todo) = WalkCall(c, side, kind),
         NEW S \in SUBSET Thresholds(c, side), NEW order \in SetToSeqs(S),
         NEW name, \A n \in S : name[n] \in EventCallNames,
         \A m, n \in S : ~(name[m] = "notify" /\ name[n] = "reset"),
         todo' = EventSeq(name, c, side, order) \o Tail(todo),
         UNCHANGED <<tok, enabled, live, state, ct, on, holds, pending, runnable, running>>
  PROVE  /\ Typed' /\ InOrder' /\ Firing' /\ Fits' /\ ListsFollow' /\ ChoiceLive' /\ Requested'
         /\ \A d \in Chan : \A far \in Side : <<d, far>> # <<c, side>> => Level(d, far)'
         /\ \A e \in Events : e[1] = c /\ e[2] = side =>
              /\ EventAfter(e) <=> e \in enabled
              /\ EventAfter(e)' <=> /\ e \in enabled \/ (e[3] \in S /\ name[e[3]] = "notify")
                                    /\ ~(e[3] \in S /\ name[e[3]] = "reset")
         /\ Due = {Head(todo)} \cup Range(Tail(todo))
         /\ \A k : WalkCall(c, side, k) \in Due' <=> WalkCall(c, side, k) \in Range(Tail(todo))
         /\ \A y \in Range(Tail(todo)) : y \in Calls /\ Fine(Head(todo), y)
<1> DEFINE cs == EventSeq(name, c, side, order)
           C  == {OneEvent(name[n], <<c, side, n>>) : n \in S}
           R  == Range(Tail(todo))
<1>1. IsFiniteSet(S) /\ \A n \in S : <<c, side, n>> \in Events /\ n \in Nat
  BY MapFacts, FS_Subset
<1>2. /\ cs \in Seq(Calls)
      /\ Range(cs) = C
      /\ \A i, j \in DOMAIN cs : i < j => Fine(cs[i], cs[j])
  BY <1>1, WalkedEvents
<1>3. /\ todo \in Seq(Calls) /\ InOrder /\ todo' = cs \o Tail(todo)
  BY DEF ActorsInv, Typed
<1>4. Head(todo).call = "walk" /\ Rank(Head(todo)) = 2
  BY DEF WalkCall, Rank
<1>5. \A n \in S : name[n] \in EventCallNames
  OBVIOUS
<1>6. \A x \in C : x.call \in EventCallNames
  BY <1>5 DEF OneEvent
<1>7. \A x \in C : \A y \in Calls : Fine(Head(todo), y) => Fine(x, y)
  <2>1. \A n \in S : \A y \in Calls :
          Fine(Head(todo), y) => Fine(OneEvent(name[n], <<c, side, n>>), y)
    BY <1>4, <1>5, EventsPatient
  <2> QED
    BY <2>1
<1> HIDE DEF cs, C, R
<1>8. /\ todo' \in Seq(Calls)
      /\ Due = {Head(todo)} \cup R /\ Due' = C \cup R
      /\ \A y \in R : y \in Calls /\ Fine(Head(todo), y)
  BY <1>2, <1>3, Popped DEF R
<1>9. InOrder' /\ Firing' /\ ChoiceLive' /\ Requested'
  BY <1>2, <1>3, <1>4, <1>6, <1>7, Cascade DEF EventCallNames
<1>10. Typed'
  BY <1>8 DEF ActorsInv, Typed
<1>11. Fits'
  BY <1>6, <1>8, FitsKept DEF ActorsInv, EventCallNames
<1>12. ListsFollow'
  BY <1>4, <1>6, <1>8, ListsKept DEF ActorsInv, EventCallNames
<1>13. \A e : \A x \in EventCallNames : OneEvent(x, e) \notin Due
  <2>1. Rank(Head(todo)) \in 2 .. 3
    BY <1>4
  <2> QED
    BY <1>8, <2>1, NoEventsDue
<1>14. \A e : \A x \in EventCallNames :
         OneEvent(x, e) \in Due' <=> \E n \in S : x = name[n] /\ e = <<c, side, n>>
  <2>1. \A e : \A x \in EventCallNames : OneEvent(x, e) \in Due' <=> OneEvent(x, e) \in C
    BY <1>8, <1>13
  <2> QED
    BY <2>1 DEF C, OneEvent
<1>15. \A e \in Events : e[1] = c /\ e[2] = side =>
         /\ EventAfter(e) <=> e \in enabled
         /\ EventAfter(e)' <=> /\ e \in enabled \/ (e[3] \in S /\ name[e[3]] = "notify")
                               /\ ~(e[3] \in S /\ name[e[3]] = "reset")
  <2>1. SUFFICES ASSUME NEW e \in Events, e[1] = c, e[2] = side
                 PROVE  /\ EventAfter(e) <=> e \in enabled
                        /\ EventAfter(e)' <=> /\ e \in enabled \/ (e[3] \in S /\ name[e[3]] = "notify")
                                              /\ ~(e[3] \in S /\ name[e[3]] = "reset")
    OBVIOUS
  <2>2. e = <<c, side, e[3]>>
    BY <2>1, MapFacts
  <2>3. \A x \in EventCallNames : OneEvent(x, e) \in Due' <=> e[3] \in S /\ x = name[e[3]]
    <3>1. \A n : e = <<c, side, n>> => n = e[3]
      OBVIOUS
    <3> QED
      BY <1>14, <2>2, <3>1
  <2> QED
    BY <1>13, <2>3 DEF EventAfter, EventCallNames
<1>16. \A d \in Chan : \A far \in Side : <<d, far>> # <<c, side>> => Level(d, far)'
  <2>1. SUFFICES ASSUME NEW d \in Chan, NEW far \in Side, <<d, far>> # <<c, side>>
                 PROVE  Level(d, far)'
    OBVIOUS
  <2>2. Level(d, far)
    BY DEF ActorsInv, Levels
  <2>3. \A e \in Events : e[1] = d /\ e[2] = far => (EventAfter(e)' <=> EventAfter(e))
    <3>1. SUFFICES ASSUME NEW e \in Events, e[1] = d, e[2] = far
                   PROVE  EventAfter(e)' <=> EventAfter(e)
      OBVIOUS
    <3>2. \A n : e # <<c, side, n>>
      BY <2>1, <3>1
    <3> QED
      BY <1>13, <1>14, <3>2 DEF EventAfter, EventCallNames
  <2>4. \A k \in Kinds : WalkCall(d, far, k) \in Due' <=> WalkCall(d, far, k) \in Due
    <3>1. \A k : WalkCall(d, far, k).call = "walk" /\ WalkCall(d, far, k) # WalkCall(c, side, kind)
      BY <2>1 DEF WalkCall
    <3>2. \A k : WalkCall(d, far, k) \notin C
      BY <1>6, <3>1 DEF EventCallNames
    <3> QED
      BY <1>8, <3>1, <3>2
  <2>5. Count(d, far)' = Count(d, far)
    BY DEF Count
  <2> QED
    BY <2>2, <2>3, <2>4, <2>5, LevelKept
<1>17. \A k : WalkCall(c, side, k) \in Due' <=> WalkCall(c, side, k) \in R
  <2>1. \A k : WalkCall(c, side, k).call = "walk"
    BY DEF WalkCall
  <2> QED
    BY <1>6, <1>8, <2>1 DEF EventCallNames
<1> QED
  BY <1>8, <1>9, <1>10, <1>11, <1>12, <1>15, <1>16, <1>17 DEF R

LEMMA NamedCalls ==
  ASSUME NEW S, IsFiniteSet(S), NEW order \in SetToSeqs(S), NEW c, NEW side, NEW call,
         NEW name, \A n \in S : name[n] = call
  PROVE  EachEvent(call, c, side, order) = EventSeq(name, c, side, order)
<1>1. \A i \in DOMAIN order : order[i] \in S
  BY Orders, SeqElements
<1> QED
  BY <1>1 DEF EachEvent, Each, EventSeq, OneEvent

LEMMA NamedAgain ==
  ASSUME NEW S, IsFiniteSet(S), NEW order \in SetToSeqs(S), NEW c, NEW side, NEW k,
         NEW name, \A n \in S : name[n] = IF n <= k THEN "renotify" ELSE "reset"
  PROVE  EachAgain(c, side, order, k) = EventSeq(name, c, side, order)
<1>1. \A i \in DOMAIN order : order[i] \in S
  BY Orders, SeqElements
<1> QED
  BY <1>1 DEF EachAgain, Each, EventSeq, OneEvent

(* Which events a walk calls, and how. *)
WalkSet(c, side, kind) ==
  CASE kind = "increasedCount" -> notifiedBy(EventMapOf(c, side), Count(c, side))
    [] kind = "decreasedCount" -> resetBy(EventMapOf(c, side), Count(c, side))
    [] OTHER -> Thresholds(c, side)

WalkName(c, side, kind) ==
  [n \in WalkSet(c, side, kind) |->
     CASE kind = "increasedCount" -> "notify"
       [] kind = "decreasedCountRenotify" /\ n <= Count(c, side) -> "renotify"
       [] OTHER -> "reset"]

LEMMA WalkShape ==
  ASSUME NEW c \in Chan, NEW side \in Side, NEW kind \in Kinds, NEW calls \in Walk(c, side, kind)
  PROVE  /\ WalkSet(c, side, kind) \in SUBSET Thresholds(c, side)
         /\ \E order \in SetToSeqs(WalkSet(c, side, kind)) :
              calls = EventSeq(WalkName(c, side, kind), c, side, order)
<1> DEFINE S == WalkSet(c, side, kind)
           n == Count(c, side)
           name == WalkName(c, side, kind)
<1>1. S \in SUBSET Thresholds(c, side)
  BY DEF WalkSet, notifiedBy, resetBy, Thresholds
<1>2. IsFiniteSet(S)
  BY <1>1, MapFacts, FS_Subset
<1>3. CASE kind = "increasedCount"
  <2>1. PICK order \in SetToSeqs(S) : calls = EachEvent("notify", c, side, order)
    BY <1>3 DEF Walk, EventCalls, Downwards, WalkSet
  <2>2. \A k \in S : name[k] = "notify"
    BY <1>3 DEF WalkName
  <2> HIDE DEF S, name
  <2>3. calls = EventSeq(name, c, side, order)
    BY <1>2, <2>1, <2>2, NamedCalls
  <2> QED
    BY <1>1, <2>1, <2>3 DEF S, name
<1>4. CASE kind = "decreasedCount"
  <2>1. PICK order \in SetToSeqs(S) : calls = EachEvent("reset", c, side, order)
    BY <1>4 DEF Walk, EventCalls, Upwards, WalkSet
  <2>2. \A k \in S : name[k] = "reset"
    BY <1>4 DEF WalkName
  <2> HIDE DEF S, name
  <2>3. calls = EventSeq(name, c, side, order)
    BY <1>2, <2>1, <2>2, NamedCalls
  <2> QED
    BY <1>1, <2>1, <2>3 DEF S, name
<1>5. CASE kind = "reset"
  <2>1. PICK order \in SetToSeqs(S) : calls = EachEvent("reset", c, side, order)
    BY <1>5 DEF Walk, EventCalls, Upwards, WalkSet, Thresholds
  <2>2. \A k \in S : name[k] = "reset"
    BY <1>5 DEF WalkName
  <2> HIDE DEF S, name
  <2>3. calls = EventSeq(name, c, side, order)
    BY <1>2, <2>1, <2>2, NamedCalls
  <2> QED
    BY <1>1, <2>1, <2>3 DEF S, name
<1>6. CASE kind = "decreasedCountRenotify"
  <2>1. PICK order \in SetToSeqs(S) :
          calls = EachAgain(c, side, order, n)
    BY <1>6 DEF Walk, Upwards, WalkSet, Thresholds
  <2>2. \A k \in S : name[k] = IF k <= n THEN "renotify" ELSE "reset"
    BY <1>6 DEF WalkName
  <2> HIDE DEF S, n, name
  <2>3. calls = EventSeq(name, c, side, order)
    BY <1>2, <2>1, <2>2, NamedAgain
  <2> QED
    BY <1>1, <2>1, <2>3 DEF S, name
<1> QED
  BY <1>3, <1>4, <1>5, <1>6 DEF Kinds

(* Any walk makes the level of its side exact; a reset drops all events    *)
(* and waits for the walk up that is still to come.                        *)
LEMMA WalkOf ==
  ASSUME ActorsInv, walk,
         NEW c \in Chan, NEW side \in Side, NEW kind \in Kinds, Head(todo) = WalkCall(c, side, kind)
  PROVE  ActorsInv'
<1> DEFINE S == WalkSet(c, side, kind)
           name == WalkName(c, side, kind)
           R == Range(Tail(todo))
           n == Count(c, side)
<1>1. todo # <<>> /\ Head(todo).call = "walk" /\ todo \in Seq(Calls) /\ InOrder
  BY DEF walk, Doing, ActorsInv, Typed
<1>2. /\ Head(todo) = WalkCall(c, side, kind)
      /\ c \in Chan /\ side \in Side /\ kind \in Kinds
  OBVIOUS
<1>3. UNCHANGED <<tok, enabled, live, state, ct, on, holds, pending, runnable, running>>
  BY DEF walk
<1>4. PICK calls \in Walk(c, side, kind) : todo' = calls \o Tail(todo)
  <2>1. Head(todo).chan = c /\ Head(todo).side = side /\ Head(todo).kind = kind
    BY DEF WalkCall
  <2>2. \E calls \in Walk(Head(todo).chan, Head(todo).side, Head(todo).kind) : Instead(calls)
    BY DEF walk
  <2>3. \E calls \in Walk(c, side, kind) : Instead(calls)
    BY <2>1, <2>2
  <2> QED
    BY <2>3 DEF Instead
<1>5. S \in SUBSET Thresholds(c, side)
  BY <1>2, WalkShape
<1>6. PICK order \in SetToSeqs(S) : calls = EventSeq(name, c, side, order)
  BY <1>2, WalkShape
<1>7. /\ \A k \in S : name[k] \in EventCallNames
      /\ \A j, k \in S : ~(name[j] = "notify" /\ name[k] = "reset")
  <2>1. \A k \in S : /\ name[k] \in EventCallNames
                     /\ kind = "increasedCount" => name[k] = "notify"
                     /\ kind # "increasedCount" => name[k] # "notify"
    BY DEF WalkName, EventCallNames
  <2> QED
    BY <2>1
<1>8. n \in Int /\ n' = n
  BY <1>2, <1>3, ActorsAssumption DEF Count, ActorsInv, Typed
<1>9. /\ \A k \in S : name[k] = "notify" <=> kind = "increasedCount"
      /\ \A k \in S : name[k] = "reset" <=> \/ kind \in {"decreasedCount", "reset"}
                                            \/ kind = "decreasedCountRenotify" /\ ~(k <= n)
  BY <1>2 DEF WalkName, Kinds
<1>10. \A e \in Events : e[1] = c /\ e[2] = side =>
         /\ e[3] \in Thresholds(c, side) /\ e[3] \in Nat
         /\ EventMapOf(c, side)[e[3]] <=> e \in enabled
  BY MapFacts
<1> HIDE DEF name, R, S, n
<1>11. /\ Typed' /\ InOrder' /\ Firing' /\ Fits' /\ ListsFollow' /\ ChoiceLive' /\ Requested'
       /\ \A d \in Chan : \A far \in Side : <<d, far>> # <<c, side>> => Level(d, far)'
       /\ \A e \in Events : e[1] = c /\ e[2] = side =>
            /\ EventAfter(e) <=> e \in enabled
            /\ EventAfter(e)' <=> /\ e \in enabled \/ (e[3] \in S /\ name[e[3]] = "notify")
                                  /\ ~(e[3] \in S /\ name[e[3]] = "reset")
       /\ Due = {Head(todo)} \cup R
       /\ \A k : WalkCall(c, side, k) \in Due' <=> WalkCall(c, side, k) \in R
       /\ \A y \in R : y \in Calls /\ Fine(Head(todo), y)
  BY <1>1, <1>2, <1>3, <1>4, <1>5, <1>6, <1>7, WalkTurn DEF R
<1>12. Level(c, side)
  BY <1>2 DEF ActorsInv, Levels
<1>13. Level(c, side)'
  <2>1. \A k \in Kinds : WalkCall(c, side, k) \in R => WalksFine(WalkCall(c, side, kind), WalkCall(c, side, k))
    BY <1>1, <1>2, <1>11 DEF Fine, WalkCall
  <2>2. CASE kind = "reset"
    <3>1. WalkCall(c, side, "increasedCount") \in Due'
      <4>1. WalkCall(c, side, "reset") \in Due
        BY <1>2, <1>11, <2>2
      <4>2. WalkCall(c, side, "increasedCount") \in Due
        BY <1>12, <4>1 DEF Level, Walks
      <4>3. WalkCall(c, side, "increasedCount") # Head(todo)
        BY <1>2, <2>2 DEF WalkCall
      <4> QED
        BY <1>11, <4>2, <4>3
    <3>2. Walks(c, side, {"increasedCount"})'
      BY <3>1 DEF Walks, WalkCall
    <3>3. S = Thresholds(c, side)
      BY <2>2 DEF S, WalkSet
    <3>4. \A e \in Events : e[1] = c /\ e[2] = side => ~EventAfter(e)'
      BY <1>9, <1>10, <1>11, <2>2, <3>3
    <3>5. PICK k \in Int : k < 0 /\ k <= n
      <4>1. CASE n < 0
        BY <1>8, <4>1
      <4>2. CASE ~(n < 0)
        <5>1. -1 \in Int /\ -1 < 0 /\ -1 <= n
          BY <1>8, <4>2
        <5> QED
          BY <5>1
      <4> QED
        BY <4>1, <4>2
    <3>6. UpTo(c, side, k)'
      BY <1>10, <3>4, <3>5 DEF UpTo
    <3> QED
      BY <1>8, <3>2, <3>5, <3>6 DEF Level, n
  <2>3. CASE kind # "reset"
    <3>1. \A k \in Kinds : WalkCall(c, side, k) \notin R
      BY <1>2, <2>1, <2>3 DEF WalksFine, WalkCall, Kinds
    <3>2. \A k \in Kinds : WalkCall(c, side, k) \in Due <=> k = kind
      BY <1>2, <1>11, <3>1 DEF WalkCall
    <3>3. PICK k \in Int :
            /\ UpTo(c, side, k)
            /\ kind = "increasedCount" \/ k >= n
            /\ kind \in {"decreasedCount", "decreasedCountRenotify"} \/ k <= n
      BY <1>12, <2>3, <3>2 DEF Level, Walks, Kinds, n
    <3>4. \A e \in Events : e[1] = c /\ e[2] = side =>
            (EventAfter(e)' <=> e[3] <= n)
      <4>1. SUFFICES ASSUME NEW e \in Events, e[1] = c, e[2] = side
                     PROVE  EventAfter(e)' <=> e[3] <= n
        OBVIOUS
      <4>2. e \in enabled <=> e[3] <= k
        BY <1>11, <3>3, <4>1 DEF UpTo
      <4>3. \A t \in Thresholds(c, side) : t \in Nat /\ (EventMapOf(c, side)[t] <=> t <= k)
        <5>1. SUFFICES ASSUME NEW t \in Thresholds(c, side)
                       PROVE  t \in Nat /\ (EventMapOf(c, side)[t] <=> t <= k)
          OBVIOUS
        <5>2. t \in Nat /\ <<c, side, t>> \in Events /\ (EventMapOf(c, side)[t] <=> <<c, side, t>> \in enabled)
          BY MapFacts
        <5>3. <<c, side, t>> \in enabled <=> t <= k
          BY <1>11, <3>3, <5>2 DEF UpTo
        <5> QED
          BY <5>2, <5>3
      <4>4. e[3] \in Thresholds(c, side) /\ e[3] \in Nat
        BY <1>10, <4>1
      <4>5. CASE kind = "increasedCount"
        <5>1. e[3] \in S <=> k < e[3] /\ e[3] <= n
          <6>1. S = {t \in Thresholds(c, side) :
                       t <= n /\ \A u \in Thresholds(c, side) : t <= u /\ u <= n => ~(u <= k)}
            BY <4>3, <4>5 DEF S, WalkSet, notifiedBy, Thresholds, n
          <6> QED
            BY <1>8, <4>3, <4>4, <6>1
        <5> QED
          BY <1>8, <1>9, <1>11, <3>3, <4>1, <4>2, <4>4, <4>5, <5>1
      <4>6. CASE kind = "decreasedCount"
        <5>1. e[3] \in S <=> n < e[3] /\ e[3] <= k
          <6>1. S = {t \in Thresholds(c, side) :
                       n < t /\ \A u \in Thresholds(c, side) : n < u /\ u <= t => u <= k}
            BY <4>3, <4>6 DEF S, WalkSet, resetBy, Thresholds, n
          <6> QED
            BY <1>8, <4>3, <4>4, <6>1
        <5> QED
          BY <1>8, <1>9, <1>11, <3>3, <4>1, <4>2, <4>4, <4>6, <5>1
      <4>7. CASE kind = "decreasedCountRenotify"
        <5>1. e[3] \in S
          BY <4>4, <4>7 DEF S, WalkSet
        <5> QED
          BY <1>8, <1>9, <1>11, <3>3, <4>1, <4>2, <4>4, <4>7, <5>1
      <4> QED
        BY <1>2, <2>3, <4>5, <4>6, <4>7 DEF Kinds
    <3>5. UpTo(c, side, n)'
      BY <1>8, <3>4 DEF UpTo
    <3>6. ~Walks(c, side, {"reset"})'
      BY <1>11, <3>1 DEF Walks, Kinds, WalkCall
    <3> QED
      BY <1>8, <3>5, <3>6 DEF Level, n
  <2> QED
    BY <2>2, <2>3
<1>14. Levels'
  <2>1. \A d \in Chan : \A far \in Side : Level(d, far)'
    BY <1>11, <1>13
  <2> QED
    BY <2>1 DEF Levels
<1> QED
  BY <1>11, <1>14 DEF ActorsInv

LEMMA WalkStep ==
  ASSUME ActorsInv, walk
  PROVE  ActorsInv'
<1>1. todo # <<>> /\ Head(todo).call = "walk" /\ todo \in Seq(Calls)
  BY DEF walk, Doing, ActorsInv, Typed
<1>2. Head(todo) \in Calls
  BY <1>1
<1>3. PICK c \in Chan, side \in Side, kind \in Kinds : Head(todo) = WalkCall(c, side, kind)
  BY <1>1, <1>2, WalkCallForm
<1> QED
  BY <1>3, WalkOf

-----------------------------------------------------------------------------
(* The communications.                                                     *)

(* When no call to a walk, an event or a list is due, the events and the   *)
(* lists say what is.                                                      *)
AtRest == \A x \in Due : Rank(x) = 3

LEMMA RestFacts ==
  ASSUME ActorsInv, AtRest
  PROVE  /\ \A e \in Events : EventAfter(e) <=> e \in enabled
         /\ \A c \in Chan : \A side \in Side :
              UpTo(c, side, Count(c, side)) /\ Count(c, side) \in Int
         /\ \A P \in Lists : P \in live <=> P \subseteq enabled
         /\ \A c, side, kind : WalkCall(c, side, kind) \notin Due
<1>1. \A e : OneEvent("notify", e) \notin Due /\ OneEvent("reset", e) \notin Due
  BY DEF AtRest, Rank, OneEvent
<1>2. \A P, flag : ListCallOf(P, flag) \notin Due
  BY DEF AtRest, Rank, ListCallOf
<1>3. \A c, side, kind : WalkCall(c, side, kind) \notin Due
  BY DEF AtRest, Rank, WalkCall
<1>4. ASSUME NEW c \in Chan, NEW side \in Side
      PROVE  UpTo(c, side, Count(c, side)) /\ Count(c, side) \in Int
  <2>1. Level(c, side)
    BY DEF ActorsInv, Levels
  <2>2. Count(c, side) \in Int
    BY ActorsAssumption DEF Count, ActorsInv, Typed
  <2>3. PICK k \in Int : UpTo(c, side, k) /\ k >= Count(c, side) /\ k <= Count(c, side)
    BY <1>3, <2>1 DEF Level, Walks
  <2>4. k = Count(c, side)
    BY <2>2, <2>3
  <2> QED
    BY <2>2, <2>3, <2>4
<1> QED
  BY <1>1, <1>2, <1>3, <1>4 DEF EventAfter, ActorsInv, ListsFollow, ListAfter

LEMMA HeadAtRest ==
  ASSUME NEW h, NEW R, Due = {h} \cup R, \A y \in R : y \in Calls /\ Fine(h, y), Rank(h) = 3
  PROVE  AtRest
<1>1. \A y \in R : Rank(y) \in 0 .. 3 /\ Rank(h) <= Rank(y)
  BY RankFacts DEF Fine
<1>2. \A y \in R : Rank(y) = 3
  BY <1>1
<1> QED
  BY <1>2 DEF AtRest

(* Between two communications nothing of a cascade is due any more. *)
LEMMA SettledAtRest ==
  ASSUME ActorsInv, Settled
  PROVE  AtRest
<1>1. CASE todo = <<>>
  BY <1>1 DEF AtRest, Due, Range
<1>2. CASE todo # <<>>
  <2> DEFINE R == Range(Tail(todo))
  <2>1. todo \in Seq(Calls) /\ InOrder
    BY DEF ActorsInv, Typed
  <2>2. \A y \in R : Fine(Head(todo), y)
    BY <1>2, <2>1, HeadFirst
  <2>3. Head(todo) \in Calls /\ Due = {Head(todo)} \cup R /\ Due \subseteq Calls
    BY <1>2, <2>1, Replaced, Nothing DEF Due
  <2>4. Rank(Head(todo)) = 3
    <3>1. Head(todo).call \notin {"list", "walk"} \cup EventCallNames
      BY <1>2 DEF Settled, EventCallNames
    <3>2. Rank(Head(todo)) \in 0 .. 3
      BY <2>3, RankFacts
    <3> QED
      BY <2>3, <3>1, <3>2, RankFacts
  <2> HIDE DEF R
  <2>5. \A y \in R : y \in Calls /\ Fine(Head(todo), y)
    BY <2>2, <2>3
  <2> QED
    BY <2>3, <2>4, <2>5, HeadAtRest
<1> QED
  BY <1>1, <1>2

(* The walks of a channel may stand in for the call that changed it. *)
LEMMA WalksPatient ==
  ASSUME NEW h, Rank(h) = 3, NEW c, NEW side, NEW kind
  PROVE  \A y \in Calls : Fine(h, y) => Fine(WalkCall(c, side, kind), y)
<1>1. Rank(WalkCall(c, side, kind)) = 2 /\ WalkCall(c, side, kind).call = "walk"
  BY DEF Rank, WalkCall
<1>2. SUFFICES ASSUME NEW y \in Calls, Fine(h, y) PROVE Fine(WalkCall(c, side, kind), y)
  OBVIOUS
<1>3. Rank(y) \in 0 .. 3 /\ (Rank(y) = 2 <=> y.call = "walk") /\ Rank(h) <= Rank(y)
  BY <1>2, RankFacts DEF Fine
<1>4. y.call # "walk" /\ Rank(WalkCall(c, side, kind)) <= Rank(y)
  BY <1>1, <1>3
<1> QED
  BY <1>1, <1>4 DEF Fine, CommsFine

WalksOf(c, kinds) == {WalkCall(c, side, kind) : side \in Side, kind \in kinds}

(* What any change of a channel c does, but for c's own levels and the     *)
(* communications to come.                                                 *)
LEMMA ChanTurn ==
  ASSUME ActorsInv, todo # <<>>, Rank(Head(todo)) = 3, Head(todo).call # "executed",
         NEW c \in Chan, NEW cs \in Seq(Calls), todo' = cs \o Tail(todo),
         Range(cs) \subseteq WalksOf(c, Kinds),
         \A i, j \in DOMAIN cs : i < j => Fine(cs[i], cs[j]),
         tok' \in [Chan -> Int], \A d \in Chan : d # c => tok'[d] = tok[d],
         holds' \subseteq Guarded(Node),
         UNCHANGED <<enabled, live, state, ct, on, pending, runnable, running>>
  PROVE  /\ Typed' /\ InOrder' /\ Firing' /\ ListsFollow' /\ ChoiceLive' /\ Requested'
         /\ \A d \in Chan : \A side \in Side : d # c => Level(d, side)'
         /\ \A side \in Side : \A k : k = Count(c, side) => k \in Int /\ UpTo(c, side, k)'
         /\ \A side, kind : WalkCall(c, side, kind) \in Due' <=> WalkCall(c, side, kind) \in Range(cs)
         /\ Due = {Head(todo)} \cup Range(Tail(todo))
         /\ Due' = Range(cs) \cup Range(Tail(todo))
         /\ \A y \in Range(Tail(todo)) : y \in Calls /\ Fine(Head(todo), y)
<1> DEFINE C == Range(cs)
           R == Range(Tail(todo))
<1>1. todo \in Seq(Calls) /\ InOrder
  BY DEF ActorsInv, Typed
<1>2. /\ todo' \in Seq(Calls)
      /\ Due = {Head(todo)} \cup R /\ Due' = C \cup R
      /\ \A y \in R : y \in Calls /\ Fine(Head(todo), y)
  BY <1>1, Popped
<1>3. \A x \in C : x.call = "walk"
  BY DEF WalksOf, WalkCall
<1>4. \A x \in C : \A y \in Calls : Fine(Head(todo), y) => Fine(x, y)
  BY WalksPatient DEF WalksOf
<1>5. \A d, side, kind : WalkCall(d, side, kind) \in C => d = c
  BY DEF WalksOf, WalkCall
<1>6. Head(todo).call \notin {"walk", "list", "notify", "reset"}
  BY DEF Rank
<1> HIDE DEF C, R
<1>7. InOrder' /\ Firing' /\ ChoiceLive' /\ Requested'
  <2>1. \A x \in Range(cs) : x.call # "executed"
    BY <1>3 DEF C
  <2>2. \A x \in Range(cs) : \A y \in Calls : Fine(Head(todo), y) => Fine(x, y)
    BY <1>4 DEF C
  <2> QED
    BY <2>1, <2>2, Cascade
<1>8. Typed'
  BY <1>2 DEF ActorsInv, Typed
<1>9. ListsFollow'
  BY <1>2, <1>3, <1>6, ListsKept DEF ActorsInv
<1>10. AtRest
  BY <1>2, HeadAtRest
<1>11. \A e \in Events : EventAfter(e)' <=> EventAfter(e)
  BY <1>2, <1>3, <1>6, EventsKept
<1>12. \A d, side, kind : WalkCall(d, side, kind) \notin Due
  BY <1>10, RestFacts
<1>13. \A d, side, kind : WalkCall(d, side, kind) \in Due' <=> WalkCall(d, side, kind) \in C
  BY <1>2, <1>12
<1>14. \A d \in Chan : \A side \in Side : d # c => Level(d, side)'
  <2>1. SUFFICES ASSUME NEW d \in Chan, NEW side \in Side, d # c
                 PROVE  Level(d, side)'
    OBVIOUS
  <2>2. Level(d, side)
    BY DEF ActorsInv, Levels
  <2>3. \A kind \in Kinds : WalkCall(d, side, kind) \in Due' <=> WalkCall(d, side, kind) \in Due
    BY <1>5, <1>12, <1>13, <2>1
  <2>4. Count(d, side)' = Count(d, side)
    BY <2>1 DEF Count
  <2> QED
    BY <1>11, <2>2, <2>3, <2>4, LevelKept
<1>15. \A side \in Side : \A k : k = Count(c, side) => k \in Int /\ UpTo(c, side, k)'
  <2>1. \A side \in Side : UpTo(c, side, Count(c, side)) /\ Count(c, side) \in Int
    BY <1>10, RestFacts
  <2> QED
    BY <1>11, <2>1 DEF UpTo
<1> QED
  BY <1>2, <1>7, <1>8, <1>9, <1>13, <1>14, <1>15 DEF C, R

(* Guard functions may change, but the guarded transitions are the same. *)
LEMMA GuardsTyped ==
  ASSUME Typed, NEW G \in SUBSET Guarded(Node), GuardsChange(G)
  PROVE  /\ holds' \subseteq Guarded(Node)
         /\ \A t : t \notin G => (t \in holds' <=> t \in holds)
  BY DEF GuardsChange, Typed

LEMMA GuardSets ==
  /\ \A c : Reading(c) \subseteq Guarded(Node)
  /\ \A m \in Node : Guarded({m}) \subseteq Guarded(Node)
  BY DEF Reading, Guarded

(* The two walks of a change: the side that loses, then the side that wins. *)
LEMMA TwoWalks ==
  ASSUME NEW c \in Chan, NEW lose \in Side, NEW win \in Side, lose # win,
         NEW kind \in {"decreasedCount", "decreasedCountRenotify"},
         NEW cs, cs = <<WalkCall(c, lose, kind), WalkCall(c, win, "increasedCount")>>
  PROVE  /\ cs \in Seq(Calls)
         /\ Range(cs) = {WalkCall(c, lose, kind), WalkCall(c, win, "increasedCount")}
         /\ Range(cs) \subseteq WalksOf(c, Kinds)
         /\ \A i, j \in DOMAIN cs : i < j => Fine(cs[i], cs[j])
<1>1. WalkCall(c, lose, kind) \in Calls /\ WalkCall(c, win, "increasedCount") \in Calls
  BY DEF WalkCall, Calls, WalkCalls, Kinds
<1>2. Fine(WalkCall(c, lose, kind), WalkCall(c, win, "increasedCount"))
  BY DEF Fine, WalkCall, Rank, WalksFine, CommsFine
<1>3. DOMAIN cs = 1 .. 2 /\ cs[1] = WalkCall(c, lose, kind) /\ cs[2] = WalkCall(c, win, "increasedCount")
  OBVIOUS
<1>4. cs \in Seq(Calls)
  BY <1>1
<1>5. Range(cs) = {WalkCall(c, lose, kind), WalkCall(c, win, "increasedCount")}
  BY <1>3 DEF Range
<1>6. Range(cs) \subseteq WalksOf(c, Kinds)
  BY <1>5 DEF WalksOf, Kinds
<1>7. \A i, j \in DOMAIN cs : i < j => Fine(cs[i], cs[j])
  <2>1. \A i, j \in 1 .. 2 : i < j => i = 1 /\ j = 2
    OBVIOUS
  <2> QED
    BY <1>2, <1>3, <2>1
<1> QED
  BY <1>4, <1>5, <1>6, <1>7

(* Communicating n tokens moves the two sides apart by n. *)
LEMMA CommLevels ==
  ASSUME NEW c \in Chan, NEW lose \in Side, NEW win \in Side, lose # win,
         NEW kind \in {"decreasedCount", "decreasedCountRenotify"}, NEW k \in Int, NEW l \in Int,
         NEW C, C = {WalkCall(c, lose, kind), WalkCall(c, win, "increasedCount")},
         \A side, x : WalkCall(c, side, x) \in Due' <=> WalkCall(c, side, x) \in C,
         UpTo(c, lose, k)', k >= Count(c, lose)',
         UpTo(c, win, l)', l <= Count(c, win)'
  PROVE  Level(c, lose)' /\ Level(c, win)'
<1>1. \A side, x : WalkCall(c, side, x) \in Due' <=>
        (side = lose /\ x = kind) \/ (side = win /\ x = "increasedCount")
  BY DEF WalkCall
<1>2. /\ ~Walks(c, lose, {"reset"})' /\ ~Walks(c, win, {"reset"})'
      /\ Walks(c, lose, {"decreasedCount", "decreasedCountRenotify"})'
      /\ Walks(c, win, {"increasedCount"})'
  BY <1>1 DEF Walks, WalkCall
<1> QED
  BY <1>2 DEF Level

LEMMA CountFacts ==
  ASSUME NEW c
  PROVE  /\ Count(c, "data") = tok[c] /\ Count(c, "space") = Depth[c] - tok[c]
         /\ Count(c, "data")' = tok'[c] /\ Count(c, "space")' = Depth[c] - tok'[c]
  BY DEF Count

LEMMA CommCallForm ==
  ASSUME ActorsInv, todo # <<>>, Head(todo).call \in {"consume", "produce"}
  PROVE  Head(todo).chan \in Chan /\ Head(todo).n \in Nat /\ Head(todo) \in Due
<1>1. todo \in Seq(Calls) /\ todo # <<>>
  BY DEF ActorsInv, Typed
<1>2. Head(todo) \in Calls /\ Head(todo) \in Due
  <2>1. Head(todo) \in Calls /\ Head(todo) = todo[1] /\ 1 \in DOMAIN todo
    BY <1>1
  <2> QED
    BY <2>1 DEF Due, Range
<1> QED
  BY <1>2, CallKinds DEF CommCall

LEMMA ConsumeOf ==
  ASSUME ActorsInv, consume, NEW c, c = Head(todo).chan, NEW n, n = Head(todo).n,
         NEW kind, kind = ConsumeWalk(c)
  PROVE  ActorsInv'
<1> DEFINE cs   == <<WalkCall(c, "data", kind), WalkCall(c, "space", "increasedCount")>>
           R    == Range(Tail(todo))
<1>1. todo # <<>> /\ Head(todo).call = "consume" /\ Rank(Head(todo)) = 3
  BY DEF consume, Doing, Rank
<1>2. c \in Chan /\ n \in Nat /\ Head(todo) \in Due
  BY <1>1, CommCallForm
<1>3. /\ tok' = [tok EXCEPT ![c] = tok[c] - n]
      /\ UNCHANGED <<enabled, live, state, ct, on, pending, runnable, running>>
      /\ todo' = cs \o Tail(todo)
  BY DEF consume, Instead
<1>4. tok \in [Chan -> Int] /\ tok[c] \in 0 .. Depth[c] /\ n <= tok[c] /\ Depth[c] \in Nat
  BY <1>1, <1>2, ActorsAssumption DEF ActorsInv, Typed, Fits
<1>5. tok' \in [Chan -> Int] /\ tok'[c] = tok[c] - n /\ \A d \in Chan : d # c => tok'[d] = tok[d]
  BY <1>2, <1>3, <1>4
<1>6. holds' \subseteq Guarded(Node)
  <2>1. GuardsChange(IF c \in Shared THEN Reading(c) \ Guarded({running}) ELSE {})
    BY DEF consume
  <2>2. (IF c \in Shared THEN Reading(c) \ Guarded({running}) ELSE {}) \in SUBSET Guarded(Node)
    BY GuardSets
  <2> QED
    BY <2>1, <2>2, GuardsTyped DEF ActorsInv
<1>7. kind \in {"decreasedCount", "decreasedCountRenotify"}
  BY DEF ConsumeWalk
<1>8. /\ cs \in Seq(Calls)
      /\ Range(cs) = {WalkCall(c, "data", kind), WalkCall(c, "space", "increasedCount")}
      /\ Range(cs) \subseteq WalksOf(c, Kinds)
      /\ \A i, j \in DOMAIN cs : i < j => Fine(cs[i], cs[j])
  BY <1>2, <1>7, TwoWalks DEF Side
<1> HIDE DEF cs, R
<1>9. /\ Typed' /\ InOrder' /\ Firing' /\ ListsFollow' /\ ChoiceLive' /\ Requested'
      /\ \A d \in Chan : \A side \in Side : d # c => Level(d, side)'
      /\ \A side \in Side : \A m : m = Count(c, side) => m \in Int /\ UpTo(c, side, m)'
      /\ \A side, x : WalkCall(c, side, x) \in Due' <=> WalkCall(c, side, x) \in Range(cs)
      /\ Due = {Head(todo)} \cup R
      /\ Due' = Range(cs) \cup R
      /\ \A y \in R : y \in Calls /\ Fine(Head(todo), y)
  BY <1>1, <1>2, <1>3, <1>5, <1>6, <1>8, ChanTurn DEF R
<1>10. Level(c, "data")' /\ Level(c, "space")'
  <2>1. PICK m : m = Count(c, "data")
    OBVIOUS
  <2>2. PICK o : o = Count(c, "space")
    OBVIOUS
  <2>3. m \in Int /\ UpTo(c, "data", m)' /\ o \in Int /\ UpTo(c, "space", o)'
    BY <1>9, <2>1, <2>2 DEF Side
  <2>4. m >= Count(c, "data")' /\ o <= Count(c, "space")'
    BY <1>2, <1>4, <1>5, <2>1, <2>2, CountFacts
  <2>5. "data" \in Side /\ "space" \in Side /\ "data" # "space"
    BY DEF Side
  <2>6. PICK C : C = Range(cs)
    OBVIOUS
  <2>7. /\ C = {WalkCall(c, "data", kind), WalkCall(c, "space", "increasedCount")}
        /\ \A side, x : WalkCall(c, side, x) \in Due' <=> WalkCall(c, side, x) \in C
    BY <1>8, <1>9, <2>6
  <2>8. kind \in {"decreasedCount", "decreasedCountRenotify"}
    BY <1>7
  <2> QED
    BY ONLY <1>2, <2>3, <2>4, <2>5, <2>7, <2>8, CommLevels
<1>11. Levels'
  BY <1>9, <1>10 DEF Levels, Side
<1>12. Fits'
  <2>1. \A d \in Chan : tok'[d] \in 0 .. Depth[d]
    <3>1. \A d \in Chan : tok[d] \in 0 .. Depth[d]
      BY DEF ActorsInv, Fits
    <3>2. tok'[c] \in 0 .. Depth[c]
      BY <1>2, <1>4, <1>5
    <3> QED
      BY <1>5, <3>1, <3>2
  <2>2. ASSUME NEW x \in R, x.call \in {"consume", "produce"}
        PROVE  /\ x.call = "consume" => x.n <= tok'[x.chan]
               /\ x.call = "produce" => tok'[x.chan] + x.n <= Depth[x.chan]
    <3>1. x \in Calls /\ x.chan \in Chan /\ x.n \in Nat
      BY <1>9, <2>2, CallKinds DEF CommCall
    <3>2. x.call = "consume" => x.chan # c
      BY <1>1, <1>9, <2>2 DEF Fine, CommsFine
    <3>3. /\ x.call = "consume" => x.n <= tok[x.chan]
          /\ x.call = "produce" => tok[x.chan] + x.n <= Depth[x.chan]
      BY <1>9 DEF ActorsInv, Fits
    <3>4. CASE x.chan = c
      BY <1>2, <1>4, <1>5, <3>1, <3>2, <3>3, <3>4
    <3>5. CASE x.chan # c
      BY <1>5, <3>1, <3>3, <3>5
    <3> QED
      BY <3>4, <3>5
  <2>3. \A x \in Range(cs) : x.call = "walk"
    BY <1>8 DEF WalkCall
  <2> QED
    BY <1>9, <2>1, <2>2, <2>3 DEF Fits
<1> QED
  BY <1>9, <1>11, <1>12 DEF ActorsInv

LEMMA ConsumeStep == ASSUME ActorsInv, consume PROVE ActorsInv'
<1>1. PICK c : c = Head(todo).chan
  OBVIOUS
<1>2. PICK n : n = Head(todo).n
  OBVIOUS
<1>3. PICK kind : kind = ConsumeWalk(c)
  OBVIOUS
<1> QED
  BY <1>1, <1>2, <1>3, ConsumeOf

LEMMA ProduceOf ==
  ASSUME ActorsInv, produce, NEW c, c = Head(todo).chan, NEW n, n = Head(todo).n
  PROVE  ActorsInv'
<1> DEFINE cs == <<WalkCall(c, "space", "decreasedCount"), WalkCall(c, "data", "increasedCount")>>
           R  == Range(Tail(todo))
<1>1. todo # <<>> /\ Head(todo).call = "produce" /\ Rank(Head(todo)) = 3
  BY DEF produce, Doing, Rank
<1>2. c \in Chan /\ n \in Nat /\ Head(todo) \in Due
  BY <1>1, CommCallForm
<1>3. /\ tok' = [tok EXCEPT ![c] = tok[c] + n]
      /\ UNCHANGED <<enabled, live, state, ct, on, holds, pending, runnable, running>>
      /\ todo' = cs \o Tail(todo)
  BY DEF produce, Instead
<1>4. tok \in [Chan -> Int] /\ tok[c] \in 0 .. Depth[c] /\ tok[c] + n <= Depth[c] /\ Depth[c] \in Nat
  BY <1>1, <1>2, ActorsAssumption DEF ActorsInv, Typed, Fits
<1>5. tok' \in [Chan -> Int] /\ tok'[c] = tok[c] + n /\ \A d \in Chan : d # c => tok'[d] = tok[d]
  BY <1>2, <1>3, <1>4
<1>6. holds' \subseteq Guarded(Node)
  BY <1>3 DEF ActorsInv, Typed
<1>8. /\ cs \in Seq(Calls)
      /\ Range(cs) = {WalkCall(c, "space", "decreasedCount"), WalkCall(c, "data", "increasedCount")}
      /\ Range(cs) \subseteq WalksOf(c, Kinds)
      /\ \A i, j \in DOMAIN cs : i < j => Fine(cs[i], cs[j])
  BY <1>2, TwoWalks DEF Side
<1> HIDE DEF cs, R
<1>9. /\ Typed' /\ InOrder' /\ Firing' /\ ListsFollow' /\ ChoiceLive' /\ Requested'
      /\ \A d \in Chan : \A side \in Side : d # c => Level(d, side)'
      /\ \A side \in Side : \A m : m = Count(c, side) => m \in Int /\ UpTo(c, side, m)'
      /\ \A side, x : WalkCall(c, side, x) \in Due' <=> WalkCall(c, side, x) \in Range(cs)
      /\ Due = {Head(todo)} \cup R
      /\ Due' = Range(cs) \cup R
      /\ \A y \in R : y \in Calls /\ Fine(Head(todo), y)
  BY <1>1, <1>2, <1>3, <1>5, <1>6, <1>8, ChanTurn DEF R
<1>10. Level(c, "data")' /\ Level(c, "space")'
  <2>1. PICK m : m = Count(c, "data")
    OBVIOUS
  <2>2. PICK o : o = Count(c, "space")
    OBVIOUS
  <2>3. m \in Int /\ UpTo(c, "data", m)' /\ o \in Int /\ UpTo(c, "space", o)'
    BY <1>9, <2>1, <2>2 DEF Side
  <2>4. m <= Count(c, "data")' /\ o >= Count(c, "space")'
    BY <1>2, <1>4, <1>5, <2>1, <2>2, CountFacts
  <2>5. "data" \in Side /\ "space" \in Side /\ "data" # "space"
    BY DEF Side
  <2> QED
    BY <1>2, <1>8, <1>9, <2>3, <2>4, <2>5, CommLevels
<1>11. Levels'
  BY <1>9, <1>10 DEF Levels, Side
<1>12. Fits'
  <2>1. \A d \in Chan : tok'[d] \in 0 .. Depth[d]
    <3>1. \A d \in Chan : tok[d] \in 0 .. Depth[d]
      BY DEF ActorsInv, Fits
    <3>2. tok'[c] \in 0 .. Depth[c]
      BY <1>2, <1>4, <1>5
    <3> QED
      BY <1>5, <3>1, <3>2
  <2>2. ASSUME NEW x \in R, x.call \in {"consume", "produce"}
        PROVE  /\ x.call = "consume" => x.n <= tok'[x.chan]
               /\ x.call = "produce" => tok'[x.chan] + x.n <= Depth[x.chan]
    <3>1. x \in Calls /\ x.chan \in Chan /\ x.n \in Nat
      BY <1>9, <2>2, CallKinds DEF CommCall
    <3>2. x.call = "produce" => x.chan # c
      BY <1>1, <1>9, <2>2 DEF Fine, CommsFine
    <3>3. /\ x.call = "consume" => x.n <= tok[x.chan]
          /\ x.call = "produce" => tok[x.chan] + x.n <= Depth[x.chan]
      BY <1>9 DEF ActorsInv, Fits
    <3>4. CASE x.chan = c
      BY <1>2, <1>4, <1>5, <3>1, <3>2, <3>3, <3>4
    <3>5. CASE x.chan # c
      BY <1>5, <3>1, <3>3, <3>5
    <3> QED
      BY <3>4, <3>5
  <2>3. \A x \in Range(cs) : x.call = "walk"
    BY <1>8 DEF WalkCall
  <2> QED
    BY <1>9, <2>1, <2>2, <2>3 DEF Fits
<1> QED
  BY <1>9, <1>11, <1>12 DEF ActorsInv

LEMMA ProduceStep == ASSUME ActorsInv, produce PROVE ActorsInv'
<1>1. PICK c : c = Head(todo).chan
  OBVIOUS
<1>2. PICK n : n = Head(todo).n
  OBVIOUS
<1> QED
  BY <1>1, <1>2, ProduceOf

-----------------------------------------------------------------------------
(* The resets.                                                             *)

LEMMA FourWalks ==
  ASSUME NEW c \in Chan
  PROVE  /\ ResetWalks(c) \in Seq(Calls)
         /\ Range(ResetWalks(c)) \subseteq WalksOf(c, Kinds)
         /\ \A side \in Side : \A kind \in {"reset", "increasedCount"} :
              WalkCall(c, side, kind) \in Range(ResetWalks(c))
         /\ \A i, j \in DOMAIN ResetWalks(c) :
              i < j => Fine(ResetWalks(c)[i], ResetWalks(c)[j])
<1> DEFINE w1 == WalkCall(c, "space", "reset")
           w2 == WalkCall(c, "data", "reset")
           w3 == WalkCall(c, "space", "increasedCount")
           w4 == WalkCall(c, "data", "increasedCount")
<1>1. \A w \in {w1, w2, w3, w4} : w \in Calls /\ w \in WalksOf(c, Kinds)
  BY DEF WalkCall, Calls, WalkCalls, WalksOf, Side, Kinds
<1>2. /\ \A x \in {w1, w2} : \A y \in {w1, w2, w3, w4} : Fine(x, y)
      /\ Fine(w3, w4)
  BY DEF WalkCall, Fine, Rank, WalksFine, CommsFine
<1>3. \A side \in Side : \A kind \in {"reset", "increasedCount"} :
        WalkCall(c, side, kind) \in {w1, w2, w3, w4}
  BY DEF Side
<1>4. ResetWalks(c) = <<w1, w2, w3, w4>>
  BY DEF ResetWalks
<1> HIDE DEF w1, w2, w3, w4
<1> DEFINE cs == ResetWalks(c)
<1>5. /\ DOMAIN cs = {1, 2, 3, 4}
      /\ cs[1] = w1 /\ cs[2] = w2 /\ cs[3] = w3 /\ cs[4] = w4
  BY <1>4
<1>6. cs \in Seq(Calls)
  BY <1>1, <1>4
<1> HIDE DEF cs
<1>7. Range(cs) = {w1, w2, w3, w4}
  BY <1>5 DEF Range
<1>8. \A i, j \in DOMAIN cs : i < j => Fine(cs[i], cs[j])
  BY <1>2, <1>5
<1> QED
  BY <1>1, <1>3, <1>6, <1>7, <1>8 DEF cs

LEMMA ResetChanOf ==
  ASSUME ActorsInv, resetChan, NEW c, c = Head(todo).chan
  PROVE  ActorsInv'
<1> DEFINE cs == ResetWalks(c)
           R  == Range(Tail(todo))
<1>1. todo # <<>> /\ Head(todo).call = "resetChan" /\ Rank(Head(todo)) = 3
  BY DEF resetChan, Doing, Rank
<1>2. c \in Chan
  <2>1. Head(todo) \in Calls
    BY <1>1 DEF ActorsInv, Typed
  <2> QED
    BY <1>1, <2>1, ResetCallForm
<1>3. /\ tok' = [tok EXCEPT ![c] = Marking[c]]
      /\ UNCHANGED <<enabled, live, state, ct, on, pending, runnable, running>>
      /\ todo' = cs \o Tail(todo)
  BY DEF resetChan, Instead
<1>4. tok \in [Chan -> Int] /\ Marking[c] \in 0 .. Depth[c] /\ Depth[c] \in Nat
  BY <1>2, ActorsAssumption DEF ActorsInv, Typed
<1>5. tok' \in [Chan -> Int] /\ tok'[c] = Marking[c] /\ \A d \in Chan : d # c => tok'[d] = tok[d]
  BY <1>2, <1>3, <1>4
<1>6. holds' \subseteq Guarded(Node)
  <2>1. GuardsChange(Reading(c))
    BY DEF resetChan
  <2>2. Reading(c) \in SUBSET Guarded(Node)
    BY GuardSets
  <2> QED
    BY <2>1, <2>2, GuardsTyped DEF ActorsInv
<1>7. /\ cs \in Seq(Calls)
      /\ Range(cs) \subseteq WalksOf(c, Kinds)
      /\ \A side \in Side : \A kind \in {"reset", "increasedCount"} :
           WalkCall(c, side, kind) \in Range(cs)
      /\ \A i, j \in DOMAIN cs : i < j => Fine(cs[i], cs[j])
  BY <1>2, FourWalks
<1> HIDE DEF cs, R
<1>8. /\ Typed' /\ InOrder' /\ Firing' /\ ListsFollow' /\ ChoiceLive' /\ Requested'
      /\ \A d \in Chan : \A side \in Side : d # c => Level(d, side)'
      /\ \A side, x : WalkCall(c, side, x) \in Due' <=> WalkCall(c, side, x) \in Range(cs)
      /\ Due = {Head(todo)} \cup R
      /\ Due' = Range(cs) \cup R
      /\ \A y \in R : y \in Calls /\ Fine(Head(todo), y)
  BY <1>1, <1>2, <1>3, <1>5, <1>6, <1>7, ChanTurn DEF R
<1>9. Levels'
  <2>1. \A side \in Side : Walks(c, side, {"reset"})' /\ Walks(c, side, {"increasedCount"})'
    BY <1>7, <1>8 DEF Walks, WalkCall
  <2>2. \A side \in Side : Level(c, side)'
    BY <2>1 DEF Level
  <2> QED
    BY <1>8, <2>2 DEF Levels
<1>10. Fits'
  <2>1. \A d \in Chan : tok'[d] \in 0 .. Depth[d]
    <3>1. \A d \in Chan : tok[d] \in 0 .. Depth[d]
      BY DEF ActorsInv, Fits
    <3> QED
      BY <1>4, <1>5, <3>1
  <2>2. ASSUME NEW x \in R, x.call \in {"consume", "produce"}
        PROVE  /\ x.call = "consume" => x.n <= tok'[x.chan]
               /\ x.call = "produce" => tok'[x.chan] + x.n <= Depth[x.chan]
    <3>1. x \in Calls /\ x.chan \in Chan /\ Fine(Head(todo), x)
      BY <1>8, <2>2, CallKinds DEF CommCall
    <3>2. x.call = "produce" /\ (x.chan = c => Marking[c] + x.n <= Depth[c])
      BY <1>1, <2>2, <3>1 DEF Fine, CommsFine, FitsMarking
    <3>3. tok[x.chan] + x.n <= Depth[x.chan]
      BY <1>8, <3>2 DEF ActorsInv, Fits
    <3> QED
      BY <1>5, <3>1, <3>2, <3>3
  <2>3. \A x \in Range(cs) : x.call = "walk"
    BY <1>7 DEF WalkCall, WalksOf
  <2> QED
    BY <1>8, <2>1, <2>2, <2>3 DEF Fits
<1> QED
  BY <1>8, <1>9, <1>10 DEF ActorsInv

LEMMA ResetChanStep == ASSUME ActorsInv, resetChan PROVE ActorsInv'
<1>1. PICK c : c = Head(todo).chan
  OBVIOUS
<1> QED
  BY <1>1, ResetChanOf

(* smoc_reset_chan's calls: first the FIFOs, then the actors. *)
ChanReset(c) == [call |-> "resetChan", chan |-> c]
NodeReset(m) == [call |-> "resetNode", node |-> m]
ChanResets(chans) == Each(chans, ChanReset)
NodeResets(nodes) == Each(nodes, NodeReset)
ScopeResets(chans, nodes) == ChanResets(chans) \o NodeResets(nodes)

LEMMA ResetCalls ==
  ASSUME NEW C, C \subseteq Chan, NEW M, M \subseteq Node,
         NEW chans, chans \in SetToSeqs(C), NEW nodes, nodes \in SetToSeqs(M),
         NEW cs, cs = ScopeResets(chans, nodes)
  PROVE  /\ cs \in Seq(Calls)
         /\ \A x \in Range(cs) : \/ \E c \in C : x = ChanReset(c)
                                 \/ \E m \in M : x = NodeReset(m)
<1>1. IsFiniteSet(C) /\ IsFiniteSet(M)
  BY ActorsAssumption, FS_Subset
<1>2. chans \in Seq(C) /\ nodes \in Seq(M)
  BY <1>1, Orders
<1>3. /\ \A i \in DOMAIN chans : chans[i] \in C
      /\ \A i \in DOMAIN nodes : nodes[i] \in M
  BY <1>2, SeqElements
<1>4. PICK a : a = ChanResets(chans)
  OBVIOUS
<1>5. PICK b : b = NodeResets(nodes)
  OBVIOUS
<1>6. /\ \A i \in DOMAIN chans : a[i] = ChanReset(chans[i])
      /\ DOMAIN a = DOMAIN chans /\ a = [i \in DOMAIN chans |-> a[i]]
  BY <1>4 DEF Each, ChanResets
<1>7. /\ \A i \in DOMAIN nodes : b[i] = NodeReset(nodes[i])
      /\ DOMAIN b = DOMAIN nodes /\ b = [i \in DOMAIN nodes |-> b[i]]
  BY <1>5 DEF Each, NodeResets
<1>8. /\ \A c \in C : ChanReset(c) \in Calls
      /\ \A m \in M : NodeReset(m) \in Calls
  BY DEF ChanReset, NodeReset, Calls, ResetCall
<1>9. /\ Len(chans) \in Nat /\ DOMAIN chans = 1 .. Len(chans)
      /\ Len(nodes) \in Nat /\ DOMAIN nodes = 1 .. Len(nodes)
  BY <1>2
<1>10. a \in Seq(Calls) /\ Len(a) = Len(chans)
  BY <1>3, <1>6, <1>8, <1>9
<1>11. b \in Seq(Calls) /\ Len(b) = Len(nodes)
  BY <1>3, <1>7, <1>8, <1>9
<1>12. cs = a \o b
  BY <1>4, <1>5 DEF ScopeResets
<1>13. cs \in Seq(Calls)
  BY <1>10, <1>11, <1>12
<1>14. \A x \in Range(cs) : x \in Range(a) \/ x \in Range(b)
  <2>1. SUFFICES ASSUME NEW i \in DOMAIN cs PROVE cs[i] \in Range(a) \/ cs[i] \in Range(b)
    BY DEF Range
  <2>5. DOMAIN a = 1 .. Len(a) /\ DOMAIN b = 1 .. Len(b) /\ Len(a) \in Nat /\ Len(b) \in Nat
    BY <1>10, <1>11
  <2>6. DOMAIN cs = 1 .. Len(a) + Len(b)
    <3>1. Len(a \o b) = Len(a) + Len(b)
      BY ONLY <1>10, <1>11
    <3> QED
      BY <1>12, <1>13, <3>1
  <2>2. /\ DOMAIN a = 1 .. Len(a) /\ DOMAIN b = 1 .. Len(b) /\ Len(a) \in Nat /\ Len(b) \in Nat
        /\ DOMAIN cs = 1 .. Len(a) + Len(b)
        /\ i <= Len(a) => cs[i] = a[i]
        /\ ~(i <= Len(a)) => cs[i] = b[i - Len(a)]
    <3>1. i \in 1 .. Len(a) + Len(b)
      BY <2>6
    <3>2. \A k \in 1 .. Len(a) + Len(b) :
            cs[k] = IF k <= Len(a) THEN a[k] ELSE b[k - Len(a)]
      BY <1>10, <1>11, <1>12, <2>5
    <3> QED
      BY <2>5, <2>6, <3>1, <3>2
  <2>3. CASE i <= Len(a)
    BY <2>1, <2>2, <2>3 DEF Range
  <2>4. CASE ~(i <= Len(a))
    <3>1. i - Len(a) \in DOMAIN b
      BY <2>1, <2>2, <2>4
    <3> QED
      BY <2>2, <2>4, <3>1 DEF Range
  <2> QED
    BY <2>3, <2>4
<1>15. /\ \A x \in Range(a) : \E c \in C : x = ChanReset(c)
       /\ \A x \in Range(b) : \E m \in M : x = NodeReset(m)
  BY <1>3, <1>6, <1>7 DEF Range
<1> QED
  BY <1>13, <1>14, <1>15

(* Calls that are no walk, event or list, and change no FIFO.              *)
LEMMA Undisturbed ==
  ASSUME Levels, ListsFollow, UNCHANGED <<tok, enabled, live>>,
         \A y : y.call \in {"walk", "notify", "reset", "list"} => (y \in Due' <=> y \in Due)
  PROVE  Levels' /\ ListsFollow'
<1>1. \A e : /\ OneEvent("notify", e) \in Due' <=> OneEvent("notify", e) \in Due
             /\ OneEvent("reset", e) \in Due' <=> OneEvent("reset", e) \in Due
  BY DEF OneEvent
<1>2. \A c, side, kind : WalkCall(c, side, kind) \in Due' <=> WalkCall(c, side, kind) \in Due
  BY DEF WalkCall
<1>3. \A P, flag : ListCallOf(P, flag) \in Due' <=> ListCallOf(P, flag) \in Due
  BY DEF ListCallOf
<1>4. \A e \in Events : EventAfter(e)' <=> EventAfter(e)
  BY <1>1 DEF EventAfter
<1>5. Levels'
  BY <1>2, <1>4, LevelsKept
<1>6. ListsFollow'
  BY <1>3 DEF ListsFollow, ListAfter
<1> QED
  BY <1>5, <1>6

(* A reset of what a reset channel resets may stand in for its production. *)
LEMMA ResetsPatient ==
  ASSUME NEW h, h.call = "resetScope", NEW x,
         \/ \E c \in ResetScope[h.chan].chans : x = ChanReset(c)
         \/ \E m : x = NodeReset(m)
  PROVE  \A y \in Calls : Fine(h, y) => Fine(x, y)
<1>1. Rank(h) = 3 /\ Rank(x) = 3 /\ x.call \in {"resetChan", "resetNode"}
  BY DEF Rank, ChanReset, NodeReset
<1>2. SUFFICES ASSUME NEW y \in Calls, Fine(h, y) PROVE Fine(x, y)
  OBVIOUS
<1>3. CommsFine(x, y)
  BY <1>2 DEF Fine, CommsFine, ChanReset, NodeReset
<1>4. Rank(x) <= Rank(y)
  BY <1>1, <1>2 DEF Fine
<1> QED
  BY <1>1, <1>3, <1>4 DEF Fine

LEMMA ResetScopeStep ==
  ASSUME ActorsInv, resetScope
  PROVE  ActorsInv'
<1> DEFINE R == Range(Tail(todo))
<1>1. todo # <<>> /\ Head(todo).call = "resetScope" /\ todo \in Seq(Calls) /\ InOrder
  BY DEF resetScope, Doing, ActorsInv, Typed
<1>2. PICK C : C = ResetScope[Head(todo).chan].chans
  OBVIOUS
<1>3. PICK M : M = ResetScope[Head(todo).chan].nodes
  OBVIOUS
<1>4. C \subseteq Chan /\ M \subseteq Node
  <2>1. Head(todo).chan \in ResetChan
    BY <1>1, CallKinds DEF ScopeCall
  <2> QED
    BY <1>2, <1>3, <2>1, ActorsAssumption
<1>5. PICK chans \in SetToSeqs(C) : \E nodes \in SetToSeqs(M) :
        todo' = ScopeResets(chans, nodes) \o Tail(todo)
  BY <1>2, <1>3 DEF resetScope, Instead, Each, ChanReset, NodeReset, ChanResets, NodeResets, ScopeResets
<1>6. PICK nodes \in SetToSeqs(M) :
        todo' = ScopeResets(chans, nodes) \o Tail(todo)
  BY <1>5
<1>7. PICK cs : cs = ScopeResets(chans, nodes)
  OBVIOUS
<1>8. todo' = cs \o Tail(todo)
  BY <1>6, <1>7
<1>9. /\ cs \in Seq(Calls)
      /\ \A x \in Range(cs) : \/ \E c \in C : x = ChanReset(c)
                              \/ \E m \in M : x = NodeReset(m)
  <2>1. chans \in SetToSeqs(C) /\ nodes \in SetToSeqs(M)
    OBVIOUS
  <2> QED
    BY ONLY <1>4, <1>7, <2>1, ResetCalls
<1>10. \A x \in Range(cs) : x.call \in {"resetChan", "resetNode"}
  BY <1>9 DEF ChanReset, NodeReset
<1>11. \A x \in Range(cs) : \A y \in Calls : Fine(Head(todo), y) => Fine(x, y)
  BY <1>1, <1>2, <1>9, ResetsPatient
<1>12. \A i, j \in DOMAIN cs : i < j => Fine(cs[i], cs[j])
  <2>1. \A x, y \in Range(cs) : Fine(x, y)
    BY <1>10 DEF Fine, Rank, CommsFine
  <2> QED
    BY <2>1 DEF Range
<1>13. UNCHANGED <<tok, enabled, live, state, ct, on, holds, pending, runnable, running>>
  BY DEF resetScope
<1> HIDE DEF R
<1>14. /\ todo' \in Seq(Calls)
       /\ Due = {Head(todo)} \cup R /\ Due' = Range(cs) \cup R
  BY <1>1, <1>8, <1>9, Popped DEF R
<1>15. InOrder' /\ Firing' /\ ChoiceLive' /\ Requested'
  BY <1>1, <1>8, <1>9, <1>10, <1>11, <1>12, <1>13, Cascade
<1>16. Typed'
  BY <1>13, <1>14 DEF ActorsInv, Typed
<1>17. Fits'
  BY <1>10, <1>13, <1>14, FitsKept DEF ActorsInv
<1>18. Levels' /\ ListsFollow'
  <2>1. \A y : y.call \in {"walk", "notify", "reset", "list"} => (y \in Due' <=> y \in Due)
    BY <1>1, <1>10, <1>14
  <2> QED
    BY <1>13, <2>1, Undisturbed DEF ActorsInv
<1> QED
  BY <1>15, <1>16, <1>17, <1>18 DEF ActorsInv

-----------------------------------------------------------------------------
(* Calls to single actors.                                                 *)

(* A call that makes no others and tells one actor m.                      *)
LEMMA ActorTurn ==
  ASSUME ActorsInv, todo # <<>>,
         Head(todo).call \in {"resetNode", "setActive", "executed"},
         todo' = <<>> \o Tail(todo), UNCHANGED <<tok, enabled, live>>
  PROVE  /\ todo' \in Seq(Calls) /\ InOrder' /\ Fits' /\ Levels' /\ ListsFollow'
         /\ Due = {Head(todo)} \cup Range(Tail(todo)) /\ Due' = Range(Tail(todo))
         /\ \A y \in Range(Tail(todo)) : y \in Calls /\ Fine(Head(todo), y)
<1> DEFINE R == Range(Tail(todo))
           none == {}
<1>1. todo \in Seq(Calls) /\ InOrder
  BY DEF ActorsInv, Typed
<1>2. /\ todo' \in Seq(Calls)
      /\ Due = {Head(todo)} \cup R /\ Due' = none \cup R /\ (\A x : x \notin none)
      /\ \A y \in R : y \in Calls /\ Fine(Head(todo), y)
  BY <1>1, Popped, Nothing
<1>3. none \cup R = R
  OBVIOUS
<1>4. InOrder'
  BY <1>1, StaysInOrder, Nothing
<1> HIDE DEF R, none
<1>5. Fits'
  BY <1>2, FitsKept DEF ActorsInv
<1>6. Levels' /\ ListsFollow'
  <2>1. \A y : y.call \in {"walk", "notify", "reset", "list"} => (y \in Due' <=> y \in Due)
    BY <1>2
  <2> QED
    BY <2>1, Undisturbed DEF ActorsInv
<1> QED
  BY <1>2, <1>3, <1>4, <1>5, <1>6 DEF R

(* ... and its types, and what it says of the other actors.                *)
LEMMA ActorTyped ==
  ASSUME ActorsInv, NEW m \in Node, todo' \in Seq(Calls), UNCHANGED <<tok, enabled, live, runnable>>,
         DOMAIN state' = Node, ct' \in [Node -> Nat], on' \in [Node -> BOOLEAN],
         holds' \subseteq Guarded(Node), pending' \subseteq Node, running' \in Node \cup {None},
         \A n \in Node : n # m => state'[n] = state[n] /\ ct'[n] = ct[n] /\ on'[n] = on[n],
         state'[m] \in DOMAIN Rules[m], ct'[m] \in 0 .. Len(Rules[m][state'[m]])
  PROVE  /\ Typed'
         /\ \A n \in Node : n # m =>
              /\ canFire(n)' <=> canFire(n)
              /\ Current(n)' = Current(n)
<1>1. \A n \in Node : state'[n] \in DOMAIN Rules[n] /\ ct'[n] \in 0 .. Len(Rules[n][state'[n]])
  BY DEF ActorsInv, Typed
<1>2. Typed'
  BY <1>1 DEF ActorsInv, Typed
<1> QED
  BY <1>2 DEF canFire, Current

LEMMA ResetNodeStep ==
  ASSUME ActorsInv, NEW m \in Node, resetNode(m)
  PROVE  ActorsInv'
<1> DEFINE R == Range(Tail(todo))
<1>1. todo # <<>> /\ Head(todo).call = "resetNode" /\ todo' = <<>> \o Tail(todo)
  BY DEF resetNode, Doing, Instead
<1>2. /\ state' = [state EXCEPT ![m] = Initial[m]]
      /\ UNCHANGED <<tok, enabled, live, on, runnable, running>>
      /\ ct' = [ct EXCEPT ![m] = IF on[m] THEN FirstReady(m)' ELSE 0]
      /\ pending' = IF ~on[m] THEN pending
                    ELSE IF ct'[m] # 0 THEN pending \cup {m} ELSE pending \ {m}
  BY DEF resetNode
<1>3. /\ todo' \in Seq(Calls) /\ InOrder' /\ Fits' /\ Levels' /\ ListsFollow'
      /\ Due = {Head(todo)} \cup R /\ Due' = R
  BY <1>1, <1>2, ActorTurn
<1> HIDE DEF R
<1>4. Firing' /\ todo' # <<>>
  <2> DEFINE none == {}
  <2>1. Due' = none \cup R /\ \A x : x \notin none
    BY <1>3
  <2> HIDE DEF none
  <2> QED
    BY <1>1, <1>2, <1>3, <2>1, FiringKept DEF ActorsInv
<1>5. /\ DOMAIN state' = Node /\ state'[m] = Initial[m] /\ Initial[m] \in DOMAIN Rules[m]
      /\ \A n \in Node : n # m => state'[n] = state[n]
  BY <1>2, ActorsAssumption DEF ActorsInv, Typed
<1>6. /\ FirstReady(m)' \in 0 .. Len(Rules[m][state'[m]])
      /\ FirstReady(m)' # 0 => ListOf(Rules[m][state'[m]][FirstReady(m)']) \in live'
  BY <1>5, Found
<1>7. Len(Rules[m][state'[m]]) \in Nat
  <2>1. Rules[m][state'[m]] \in Seq(RuleSet(m))
    BY <1>5, ActorsAssumption
  <2> QED
    BY <2>1
<1>8. /\ ct'[m] \in 0 .. Len(Rules[m][state'[m]])
      /\ ct' \in [Node -> Nat] /\ ct'[m] = (IF on[m] THEN FirstReady(m)' ELSE 0)
      /\ \A n \in Node : n # m => ct'[n] = ct[n]
  <2>1. PICK k : k = IF on[m] THEN FirstReady(m)' ELSE 0
    OBVIOUS
  <2>2. k \in 0 .. Len(Rules[m][state'[m]]) /\ k \in Nat
    BY <1>6, <1>7, <2>1
  <2>3. ct' = [ct EXCEPT ![m] = k] /\ ct \in [Node -> Nat]
    BY <1>2, <2>1 DEF ActorsInv, Typed
  <2> QED
    BY <2>1, <2>2, <2>3
<1>9. holds' \subseteq Guarded(Node)
  <2>1. GuardsChange(Guarded({m})) /\ Guarded({m}) \in SUBSET Guarded(Node)
    BY GuardSets DEF resetNode
  <2> QED
    BY <2>1, GuardsTyped DEF ActorsInv
<1>10. pending' \subseteq Node /\ on' \in [Node -> BOOLEAN] /\ running' \in Node \cup {None}
  BY <1>2 DEF ActorsInv, Typed
<1>11. /\ Typed'
       /\ \A n \in Node : n # m => (canFire(n)' <=> canFire(n)) /\ Current(n)' = Current(n)
  BY <1>2, <1>3, <1>5, <1>8, <1>9, <1>10, ActorTyped
<1>12. ChoiceLive'
  <2>1. SUFFICES ASSUME NEW n \in Node, canFire(n)', ~Executing(n)'
                 PROVE  ListOf(Current(n)'[ct'[n]]) \in live'
    BY DEF ChoiceLive
  <2>2. CASE n = m
    BY <1>2, <1>6, <1>8, <2>1, <2>2 DEF canFire, Current
  <2>3. CASE n # m
    <3>1. canFire(n) /\ ~Executing(n)
      BY <1>1, <1>2, <1>4, <1>11, <2>1, <2>3 DEF Executing
    <3> QED
      BY <1>2, <1>8, <1>11, <2>3, <3>1 DEF ActorsInv, ChoiceLive
  <2> QED
    BY <2>2, <2>3
<1>13. Requested'
  BY <1>2, <1>11 DEF ActorsInv, Requested, canFire
<1> QED
  BY <1>3, <1>4, <1>11, <1>12, <1>13 DEF ActorsInv

LEMMA SetActiveStep ==
  ASSUME ActorsInv, NEW m \in Node, NEW flag \in BOOLEAN, setActive(m, flag)
  PROVE  ActorsInv'
<1> DEFINE R == Range(Tail(todo))
           none == {}
<1>1. todo # <<>> /\ Head(todo).call = "setActive" /\ todo' = <<>> \o Tail(todo)
  BY DEF setActive, Doing, Instead
<1>2. /\ on' = [on EXCEPT ![m] = flag]
      /\ UNCHANGED <<tok, enabled, live, state, holds, runnable, running>>
      /\ ct' = IF flag /\ ~on[m] THEN [ct EXCEPT ![m] = FirstReady(m)'] ELSE ct
      /\ pending' = IF on[m] = flag THEN pending
                    ELSE IF flag /\ ct'[m] # 0 THEN pending \cup {m}
                    ELSE IF flag \/ m # running THEN pending \ {m}
                    ELSE pending
  BY DEF setActive
<1>3. /\ todo' \in Seq(Calls) /\ InOrder' /\ Fits' /\ Levels' /\ ListsFollow'
      /\ Due = {Head(todo)} \cup R /\ Due' = R
  BY <1>1, <1>2, ActorTurn
<1>4. Due' = none \cup R /\ \A x : x \notin none
  BY <1>3
<1> HIDE DEF R, none
<1>5. Firing' /\ todo' # <<>>
  BY <1>1, <1>2, <1>3, <1>4, FiringKept DEF ActorsInv
<1>6. /\ DOMAIN state' = Node /\ state'[m] \in DOMAIN Rules[m]
      /\ \A n \in Node : n # m => state'[n] = state[n]
  BY <1>2 DEF ActorsInv, Typed
<1>7. /\ FirstReady(m)' \in 0 .. Len(Rules[m][state'[m]])
      /\ FirstReady(m)' # 0 => ListOf(Rules[m][state'[m]][FirstReady(m)']) \in live'
  BY <1>6, Found
<1>8. Len(Rules[m][state'[m]]) \in Nat
  <2>1. Rules[m][state'[m]] \in Seq(RuleSet(m))
    BY <1>6, ActorsAssumption
  <2> QED
    BY <2>1
<1>9. /\ ct'[m] \in 0 .. Len(Rules[m][state'[m]])
      /\ ct' \in [Node -> Nat] /\ ct'[m] = (IF flag /\ ~on[m] THEN FirstReady(m)' ELSE ct[m])
      /\ \A n \in Node : n # m => ct'[n] = ct[n]
  <2>1. PICK k : k = FirstReady(m)'
    OBVIOUS
  <2>2. k \in 0 .. Len(Rules[m][state'[m]]) /\ k \in Nat
    BY <1>7, <1>8, <2>1
  <2>3. ct' = (IF flag /\ ~on[m] THEN [ct EXCEPT ![m] = k] ELSE ct) /\ ct \in [Node -> Nat]
    BY <1>2, <2>1 DEF ActorsInv, Typed
  <2>4. ct[m] \in 0 .. Len(Rules[m][state'[m]])
    BY <1>2 DEF ActorsInv, Typed
  <2> QED
    BY <2>1, <2>2, <2>3, <2>4
<1>10. /\ on \in [Node -> BOOLEAN] /\ on' \in [Node -> BOOLEAN] /\ on'[m] = flag
       /\ \A n \in Node : n # m => on'[n] = on[n]
  BY <1>2 DEF ActorsInv, Typed
<1>11. pending' \subseteq Node /\ running' \in Node \cup {None} /\ holds' \subseteq Guarded(Node)
  BY <1>2 DEF ActorsInv, Typed
<1>12. /\ Typed'
       /\ \A n \in Node : n # m => (canFire(n)' <=> canFire(n)) /\ Current(n)' = Current(n)
  BY <1>2, <1>3, <1>6, <1>9, <1>10, <1>11, ActorTyped
<1>13. ChoiceLive'
  <2>1. SUFFICES ASSUME NEW n \in Node, canFire(n)', ~Executing(n)'
                 PROVE  ListOf(Current(n)'[ct'[n]]) \in live'
    BY DEF ChoiceLive
  <2>2. ~Executing(n) /\ Current(n)' = Current(n)
    BY <1>1, <1>2, <1>5, <2>1 DEF Executing, Current
  <2>3. CASE n = m /\ ~on[m]
    BY <1>7, <1>9, <1>10, <2>1, <2>3 DEF canFire, Current
  <2>4. CASE n # m \/ on[m]
    <3>1. canFire(n) /\ ct'[n] = ct[n]
      BY <1>9, <1>12, <2>1, <2>4 DEF canFire
    <3> QED
      BY <1>2, <2>2, <3>1 DEF ActorsInv, ChoiceLive
  <2> QED
    BY <2>3, <2>4
<1>14. Requested'
  <2>1. SUFFICES ASSUME NEW n \in Node, canFire(n)'
                 PROVE  n \in pending' \cup runnable \cup {running}
    BY <1>2 DEF Requested
  <2>2. CASE n # m
    BY <1>2, <1>12, <2>1, <2>2 DEF ActorsInv, Requested
  <2>3. CASE n = m
    <3>1. flag = TRUE /\ ct'[m] # 0
      BY <1>10, <2>1, <2>3 DEF canFire
    <3>2. CASE on[m]
      <4>1. canFire(m)
        BY <1>9, <3>1, <3>2 DEF canFire
      <4>2. pending' = pending
        BY <1>2, <3>1, <3>2, <1>10
      <4> QED
        BY <2>3, <4>1, <4>2 DEF ActorsInv, Requested
    <3>3. CASE ~on[m]
      <4>1. pending' = pending \cup {m}
        BY <1>2, <3>1, <3>3
      <4> QED
        BY <2>3, <4>1
    <3> QED
      BY <3>2, <3>3
  <2> QED
    BY <2>2, <2>3
<1> QED
  BY <1>3, <1>5, <1>12, <1>13, <1>14 DEF ActorsInv

(* Nothing comes after executed. *)
LEMMA ExecutedLast ==
  ASSUME NEW h, h.call = "executed", NEW R, \A y \in R : Fine(h, y)
  PROVE  R = {}
  BY DEF Fine

LEMMA ExecutedStep ==
  ASSUME ActorsInv, NEW m \in Node, executed(m)
  PROVE  ActorsInv'
<1> DEFINE R == Range(Tail(todo))
           dest == Head(todo).dest
<1>1. todo # <<>> /\ Head(todo).call = "executed" /\ todo' = <<>> \o Tail(todo) /\ running = m
  BY DEF executed, Doing, Instead
<1>2. /\ state' = [state EXCEPT ![m] = dest]
      /\ UNCHANGED <<tok, enabled, live, on, holds, pending, runnable>>
      /\ ct' = [ct EXCEPT ![m] = FirstReady(m)']
      /\ running' = IF canFire(m)' THEN m ELSE None
  BY DEF executed
<1>3. /\ todo' \in Seq(Calls) /\ InOrder' /\ Fits' /\ Levels' /\ ListsFollow'
      /\ Due = {Head(todo)} \cup R /\ Due' = R
      /\ \A y \in R : y \in Calls /\ Fine(Head(todo), y)
  BY <1>1, <1>2, ActorTurn
<1>4. dest \in DOMAIN Rules[m]
  BY <1>1, <1>3 DEF ActorsInv, Firing
<1> HIDE DEF R, dest
<1>5. Due' = {}
  BY <1>1, <1>3, ExecutedLast
<1>6. todo' = <<>>
  <2>1. PICK t \in Seq(Calls) : t = todo'
    BY <1>3
  <2>2. Range(t) = {}
    BY <1>5, <2>1 DEF Due
  <2>3. CASE t # <<>>
    <3>1. 1 \in DOMAIN t
      BY <2>3
    <3> QED
      BY <2>2, <3>1 DEF Range
  <2> QED
    BY <2>1, <2>3
<1>7. /\ DOMAIN state' = Node /\ state'[m] = dest /\ state'[m] \in DOMAIN Rules[m]
      /\ \A n \in Node : n # m => state'[n] = state[n]
  BY <1>2, <1>4 DEF ActorsInv, Typed
<1>8. /\ FirstReady(m)' \in 0 .. Len(Rules[m][state'[m]])
      /\ FirstReady(m)' # 0 => ListOf(Rules[m][state'[m]][FirstReady(m)']) \in live'
  BY <1>7, Found
<1>9. Len(Rules[m][state'[m]]) \in Nat
  <2>1. Rules[m][state'[m]] \in Seq(RuleSet(m))
    BY <1>7, ActorsAssumption
  <2> QED
    BY <2>1
<1>10. /\ ct'[m] \in 0 .. Len(Rules[m][state'[m]])
       /\ ct' \in [Node -> Nat] /\ ct'[m] = FirstReady(m)'
       /\ \A n \in Node : n # m => ct'[n] = ct[n]
  <2>1. PICK k : k = FirstReady(m)'
    OBVIOUS
  <2>2. k \in 0 .. Len(Rules[m][state'[m]]) /\ k \in Nat
    BY <1>8, <1>9, <2>1
  <2>3. ct' = [ct EXCEPT ![m] = k] /\ ct \in [Node -> Nat]
    BY <1>2, <2>1 DEF ActorsInv, Typed
  <2> QED
    BY <2>1, <2>2, <2>3
<1>11. /\ pending' \subseteq Node /\ on' \in [Node -> BOOLEAN] /\ running' \in Node \cup {None}
       /\ holds' \subseteq Guarded(Node) /\ \A n \in Node : on'[n] = on[n]
  BY <1>2 DEF ActorsInv, Typed
<1>12. /\ Typed'
       /\ \A n \in Node : n # m => (canFire(n)' <=> canFire(n)) /\ Current(n)' = Current(n)
  BY <1>2, <1>3, <1>7, <1>10, <1>11, ActorTyped
<1>13. m # None
  BY ActorsAssumption
<1>14. Firing'
  <2>1. running' # None => running' = m /\ canFire(m)'
    BY <1>2
  <2>2. running' # None /\ todo' = <<>> => canFire(running)'
    BY <2>1 DEF canFire
  <2> QED
    BY <1>5, <1>6, <2>2 DEF Firing
<1>15. ChoiceLive'
  <2>1. SUFFICES ASSUME NEW n \in Node, canFire(n)'
                 PROVE  ListOf(Current(n)'[ct'[n]]) \in live'
    BY DEF ChoiceLive
  <2>2. CASE n = m
    BY <1>8, <1>10, <2>1, <2>2 DEF canFire, Current
  <2>3. CASE n # m
    <3>1. canFire(n) /\ ~Executing(n)
      BY <1>1, <1>12, <2>1, <2>3 DEF Executing
    <3> QED
      BY <1>2, <1>10, <1>12, <2>3, <3>1 DEF ActorsInv, ChoiceLive
  <2> QED
    BY <2>2, <2>3
<1>16. Requested'
  <2>1. SUFFICES ASSUME NEW n \in Node, canFire(n)'
                 PROVE  n \in pending \cup runnable \cup {running'}
    BY <1>2 DEF Requested
  <2>2. CASE n = m
    BY <1>2, <2>1, <2>2
  <2>3. CASE n # m
    BY <1>1, <1>12, <2>1, <2>3 DEF ActorsInv, Requested
  <2> QED
    BY <2>2, <2>3
<1> QED
  BY <1>3, <1>12, <1>14, <1>15, <1>16 DEF ActorsInv

-----------------------------------------------------------------------------
(* A firing starts.                                                        *)

InCall(p)  == [call |-> "consume", chan |-> p.chan, n |-> p.c]
OutCall(p) == [call |-> IF resetEntry(p) THEN "resetScope" ELSE "produce",
               chan |-> p.chan, n |-> p.n]

Switching(rule) == Each(rule.switch, SwitchCall)
Consuming(rule) == Each(rule.in, InCall)
Producing(rule) == Each(rule.out, OutCall)
Ending(rule)    == <<[call |-> "executed", dest |-> rule.dest]>>
Joined(a, b)    == a \o b

LEMMA ExecutionParts ==
  ASSUME NEW rule
  PROVE  Execution(rule) =
           Joined(Joined(Joined(Switching(rule), Consuming(rule)), Producing(rule)), Ending(rule))
  BY DEF Execution, Switching, Consuming, Producing, Ending, Joined, Each, InCall, OutCall

(* What is in order by itself is in order when the one follows the other   *)
(* and no call of the one disturbs the other.                              *)
LEMMA JoinedFine ==
  ASSUME NEW a, a \in Seq(Calls), NEW b, b \in Seq(Calls), NEW cs, cs = Joined(a, b),
         \A i, j \in DOMAIN a : i < j => Fine(a[i], a[j]),
         \A i, j \in DOMAIN b : i < j => Fine(b[i], b[j]),
         \A x \in Range(a) : \A y \in Range(b) : Fine(x, y)
  PROVE  /\ cs \in Seq(Calls)
         /\ Range(cs) = Range(a) \cup Range(b)
         /\ \A i, j \in DOMAIN cs : i < j => Fine(cs[i], cs[j])
<1> DEFINE n == Len(a)
           k == Len(b)
<1>1. n \in Nat /\ k \in Nat /\ DOMAIN a = 1 .. n /\ DOMAIN b = 1 .. k
  OBVIOUS
<1>2. /\ cs \in Seq(Calls) /\ Len(cs) = n + k
      /\ \A i \in 1 .. n : cs[i] = a[i]
      /\ \A i \in 1 .. k : cs[n + i] = b[i]
  BY DEF Joined
<1>3. DOMAIN cs = 1 .. n + k
  BY <1>2
<1> HIDE DEF n, k
<1>4. \A i \in n + 1 .. n + k : i - n \in 1 .. k /\ cs[i] = b[i - n]
  <2>1. SUFFICES ASSUME NEW i \in n + 1 .. n + k PROVE i - n \in 1 .. k /\ cs[i] = b[i - n]
    OBVIOUS
  <2>2. i - n \in 1 .. k /\ n + (i - n) = i
    BY <1>1
  <2> QED
    BY <1>2, <2>2
<1>5. Range(cs) = Range(a) \cup Range(b)
  <2>1. ASSUME NEW i \in 1 .. n + k PROVE cs[i] \in Range(a) \cup Range(b)
    <3>1. CASE i <= n
      <4>1. i \in 1 .. n
        BY <1>1, <2>1, <3>1
      <4>2. cs[i] = a[i] /\ i \in DOMAIN a
        BY <1>1, <1>2, <4>1
      <4> QED
        BY <4>2 DEF Range
    <3>2. CASE ~(i <= n)
      <4>1. i \in n + 1 .. n + k
        BY <1>1, <3>2
      <4> QED
        BY <1>1, <1>4, <4>1 DEF Range
    <3> QED
      BY <3>1, <3>2
  <2>2. ASSUME NEW i \in 1 .. n PROVE a[i] \in Range(cs)
    <3>1. i \in 1 .. n + k
      BY <1>1
    <3> QED
      BY <1>2, <1>3, <3>1 DEF Range
  <2>3. ASSUME NEW i \in 1 .. k PROVE b[i] \in Range(cs)
    <3>1. n + i \in 1 .. n + k
      BY <1>1
    <3> QED
      BY <1>2, <1>3, <3>1 DEF Range
  <2> QED
    BY <1>1, <1>3, <2>1, <2>2, <2>3 DEF Range
<1>6. ASSUME NEW i \in 1 .. n + k, NEW j \in 1 .. n + k, i < j
      PROVE  Fine(cs[i], cs[j])
  <2>1. CASE j <= n
    <3>1. i \in 1 .. n /\ j \in 1 .. n
      BY <1>1, <1>6, <2>1
    <3> QED
      BY <1>1, <1>2, <1>6, <3>1
  <2>2. CASE i <= n /\ ~(j <= n)
    <3>1. i \in 1 .. n /\ j \in n + 1 .. n + k
      BY <1>1, <1>6, <2>2
    <3>2. cs[i] \in Range(a) /\ cs[j] \in Range(b)
      BY <1>1, <1>2, <1>4, <3>1 DEF Range
    <3> QED
      BY <3>2
  <2>3. CASE ~(i <= n)
    <3>1. i \in n + 1 .. n + k /\ j \in n + 1 .. n + k
      BY <1>1, <1>6, <2>3
    <3>2. i - n \in 1 .. k /\ j - n \in 1 .. k /\ i - n < j - n
      BY <1>1, <1>4, <1>6, <3>1
    <3>3. Fine(b[i - n], b[j - n])
      BY <1>1, <3>2
    <3> QED
      BY <1>4, <3>1, <3>3
  <2> QED
    BY <2>1, <2>2, <2>3
<1> QED
  BY <1>2, <1>3, <1>5, <1>6

LEMMA SwitchingFine ==
  ASSUME NEW m \in Node, NEW rule \in RuleSet(m)
  PROVE  /\ Switching(rule) \in Seq(Calls)
         /\ \A x \in Range(Switching(rule)) : x.call = "setActive"
<1>1. rule.switch \in Seq([node : Node, flag : BOOLEAN])
  BY DEF RuleSet
<1>2. PICK seq : seq = rule.switch
  OBVIOUS
<1>3. /\ Len(seq) \in Nat /\ DOMAIN seq = 1 .. Len(seq)
      /\ \A i \in DOMAIN seq : seq[i] \in [node : Node, flag : BOOLEAN]
  <2>1. seq \in Seq([node : Node, flag : BOOLEAN])
    BY <1>1, <1>2
  <2>2. Len(seq) \in Nat /\ DOMAIN seq = 1 .. Len(seq)
    BY <2>1
  <2>3. \A i \in DOMAIN seq : seq[i] \in [node : Node, flag : BOOLEAN]
    BY <2>1, SeqElements
  <2> QED
    BY <2>2, <2>3
<1>4. PICK cs : cs = Switching(rule)
  OBVIOUS
<1>5. /\ cs = [i \in DOMAIN seq |-> cs[i]]
      /\ \A i \in DOMAIN seq : cs[i] = SwitchCall(seq[i])
  BY <1>2, <1>4 DEF Switching, Each
<1>6. \A s \in [node : Node, flag : BOOLEAN] : SwitchCall(s) \in Calls /\ SwitchCall(s).call = "setActive"
  BY DEF SwitchCall, Calls, SwitchCalls
<1>7. \A i \in DOMAIN seq : cs[i] \in Calls /\ cs[i].call = "setActive"
  BY <1>3, <1>5, <1>6
<1>8. cs \in Seq(Calls)
  BY <1>3, <1>5, <1>7
<1>9. \A x \in Range(cs) : x.call = "setActive"
  BY <1>5, <1>7 DEF Range
<1> QED
  BY <1>4, <1>8, <1>9

LEMMA ConsumingFine ==
  ASSUME NEW m \in Node, NEW rule \in RuleSet(m), WellFormed(rule)
  PROVE  /\ Consuming(rule) \in Seq(Calls)
         /\ \A x \in Range(Consuming(rule)) : \E p \in Range(rule.in) : x = InCall(p)
         /\ \A i, j \in DOMAIN Consuming(rule) :
              i < j => Fine(Consuming(rule)[i], Consuming(rule)[j])
<1>1. rule.in \in Seq([chan : Chan, c : Nat, r : Nat])
  BY DEF RuleSet
<1>2. PICK seq : seq = rule.in
  OBVIOUS
<1>3. /\ Len(seq) \in Nat /\ DOMAIN seq = 1 .. Len(seq)
      /\ \A i \in DOMAIN seq : seq[i] \in [chan : Chan, c : Nat, r : Nat]
      /\ \A i, j \in DOMAIN seq : i < j => seq[i].chan # seq[j].chan
  <2>1. seq \in Seq([chan : Chan, c : Nat, r : Nat])
    BY <1>1, <1>2
  <2>2. Len(seq) \in Nat /\ DOMAIN seq = 1 .. Len(seq)
    BY <2>1
  <2>3. \A i \in DOMAIN seq : seq[i] \in [chan : Chan, c : Nat, r : Nat]
    BY <2>1, SeqElements
  <2>4. \A i, j \in DOMAIN seq : i < j => seq[i].chan # seq[j].chan
    BY <1>2 DEF WellFormed
  <2> QED
    BY <2>2, <2>3, <2>4
<1>4. PICK cs : cs = Consuming(rule)
  OBVIOUS
<1>5. /\ cs = [i \in DOMAIN seq |-> cs[i]] /\ DOMAIN cs = DOMAIN seq
      /\ \A i \in DOMAIN seq : cs[i] = InCall(seq[i])
  BY <1>2, <1>4 DEF Consuming, Each
<1>6. \A p \in [chan : Chan, c : Nat, r : Nat] : InCall(p) \in Calls
  BY DEF InCall, Calls, CommCall
<1>7. \A i \in DOMAIN seq : cs[i] \in Calls
  BY <1>3, <1>5, <1>6
<1>8. cs \in Seq(Calls)
  BY <1>3, <1>5, <1>7
<1>9. \A x \in Range(cs) : \E p \in Range(seq) : x = InCall(p)
  BY <1>5 DEF Range
<1>10. \A p, q : p.chan # q.chan => Fine(InCall(p), InCall(q))
  BY DEF Fine, InCall, Rank, CommsFine
<1>11. \A i, j \in DOMAIN cs : i < j => Fine(cs[i], cs[j])
  BY <1>3, <1>5, <1>10
<1> QED
  BY <1>2, <1>4, <1>8, <1>9, <1>11

LEMMA ProducingFine ==
  ASSUME NEW m \in Node, NEW rule \in RuleSet(m), WellFormed(rule)
  PROVE  /\ Producing(rule) \in Seq(Calls)
         /\ \A x \in Range(Producing(rule)) : \E p \in Range(rule.out) : x = OutCall(p)
         /\ \A i, j \in DOMAIN Producing(rule) :
              i < j => Fine(Producing(rule)[i], Producing(rule)[j])
<1>1. rule.out \in Seq([chan : Chan \cup ResetChan, n : Nat])
  BY DEF RuleSet
<1>2. PICK seq : seq = rule.out
  OBVIOUS
<1>3. /\ Len(seq) \in Nat /\ DOMAIN seq = 1 .. Len(seq)
      /\ \A i \in DOMAIN seq : seq[i] \in [chan : Chan \cup ResetChan, n : Nat]
      /\ \A i, j \in DOMAIN seq : i < j =>
           /\ seq[i].chan \in Chan => seq[i].chan # seq[j].chan
           /\ seq[i].chan \in ResetChan /\ seq[j].chan \in ResetScope[seq[i].chan].chans =>
                Marking[seq[j].chan] + seq[j].n <= Depth[seq[j].chan]
  <2>1. seq \in Seq([chan : Chan \cup ResetChan, n : Nat])
    BY <1>1, <1>2
  <2>2. Len(seq) \in Nat /\ DOMAIN seq = 1 .. Len(seq)
    BY <2>1
  <2>3. \A i \in DOMAIN seq : seq[i] \in [chan : Chan \cup ResetChan, n : Nat]
    BY <2>1, SeqElements
  <2>4. \A i, j \in DOMAIN seq : i < j =>
         /\ seq[i].chan \in Chan => seq[i].chan # seq[j].chan
         /\ seq[i].chan \in ResetChan /\ seq[j].chan \in ResetScope[seq[i].chan].chans =>
              Marking[seq[j].chan] + seq[j].n <= Depth[seq[j].chan]
    BY <1>2 DEF WellFormed
  <2> QED
    BY <2>2, <2>3, <2>4
<1>4. PICK cs : cs = Producing(rule)
  OBVIOUS
<1>5. /\ cs = [i \in DOMAIN seq |-> cs[i]] /\ DOMAIN cs = DOMAIN seq
      /\ \A i \in DOMAIN seq : cs[i] = OutCall(seq[i])
  BY <1>2, <1>4 DEF Producing, Each
<1>6. \A p \in [chan : Chan \cup ResetChan, n : Nat] : OutCall(p) \in Calls
  BY DEF OutCall, Calls, CommCall, ScopeCall, resetEntry
<1>7. \A i \in DOMAIN seq : cs[i] \in Calls
  BY <1>3, <1>5, <1>6
<1>8. cs \in Seq(Calls)
  BY <1>3, <1>5, <1>7
<1>9. \A x \in Range(cs) : \E p \in Range(seq) : x = OutCall(p)
  BY <1>5 DEF Range
<1>10. ASSUME NEW p \in [chan : Chan \cup ResetChan, n : Nat], NEW q,
              p.chan \in Chan => p.chan # q.chan,
              p.chan \in ResetChan /\ q.chan \in ResetScope[p.chan].chans =>
                Marking[q.chan] + q.n <= Depth[q.chan]
       PROVE  Fine(OutCall(p), OutCall(q))
  <2>1. /\ OutCall(p).call = (IF p.chan \in ResetChan THEN "resetScope" ELSE "produce")
        /\ OutCall(q).call \in {"resetScope", "produce"}
        /\ OutCall(p).chan = p.chan /\ OutCall(q).chan = q.chan /\ OutCall(q).n = q.n
    BY DEF OutCall, resetEntry
  <2>2. Rank(OutCall(p)) = 3 /\ Rank(OutCall(q)) = 3
    BY <2>1 DEF Rank
  <2>3. p.chan \in Chan \cup ResetChan
    OBVIOUS
  <2> QED
    BY <1>10, <2>1, <2>2, <2>3 DEF Fine, CommsFine, FitsMarking
<1>11. \A i, j \in DOMAIN cs : i < j => Fine(cs[i], cs[j])
  BY <1>3, <1>5, <1>10
<1> QED
  BY <1>2, <1>4, <1>8, <1>9, <1>11

(* Everything a firing has to do, in order.                                *)
LEMMA ExecutionFine ==
  ASSUME NEW m \in Node, NEW rule \in RuleSet(m), WellFormed(rule)
  PROVE  /\ Execution(rule) \in Seq(Calls)
         /\ \A x \in Range(Execution(rule)) :
              \/ x.call = "setActive"
              \/ \E p \in Range(rule.in) : x = InCall(p)
              \/ \E p \in Range(rule.out) : x = OutCall(p)
              \/ x = [call |-> "executed", dest |-> rule.dest]
         /\ [call |-> "executed", dest |-> rule.dest] \in Range(Execution(rule))
         /\ \A i, j \in DOMAIN Execution(rule) :
              i < j => Fine(Execution(rule)[i], Execution(rule)[j])
<1>1. PICK a : a = Switching(rule)
  OBVIOUS
<1>2. PICK b : b = Consuming(rule)
  OBVIOUS
<1>3. PICK d : d = Producing(rule)
  OBVIOUS
<1>4. PICK e : e = Ending(rule)
  OBVIOUS
<1>5. PICK last : last = [call |-> "executed", dest |-> rule.dest]
  OBVIOUS
<1>6. a \in Seq(Calls) /\ \A x \in Range(a) : x.call = "setActive"
  BY <1>1, SwitchingFine
<1>7. /\ b \in Seq(Calls) /\ (\A x \in Range(b) : \E p \in Range(rule.in) : x = InCall(p))
      /\ \A i, j \in DOMAIN b : i < j => Fine(b[i], b[j])
  BY <1>2, ConsumingFine
<1>8. /\ d \in Seq(Calls) /\ (\A x \in Range(d) : \E p \in Range(rule.out) : x = OutCall(p))
      /\ \A i, j \in DOMAIN d : i < j => Fine(d[i], d[j])
  BY <1>3, ProducingFine
<1>9. last \in Calls /\ last.call = "executed" /\ Rank(last) = 3
  <2>1. rule.dest \in UNION {DOMAIN Rules[n] : n \in Node}
    BY DEF RuleSet
  <2> QED
    BY <1>5, <2>1 DEF Calls, LastCall, Rank
<1>10. e \in Seq(Calls) /\ Range(e) = {last} /\ \A i, j \in DOMAIN e : i < j => Fine(e[i], e[j])
  <2>1. e = <<last>>
    BY <1>4, <1>5 DEF Ending
  <2>2. e \in Seq(Calls) /\ DOMAIN e = 1 .. 1 /\ e[1] = last
    BY <1>9, <2>1
  <2>3. \A i, j \in 1 .. 1 : ~(i < j)
    OBVIOUS
  <2> QED
    BY <2>2, <2>3 DEF Range
<1>11. /\ \A x \in Range(a) : x.call = "setActive" /\ Rank(x) = 3
       /\ \A x \in Range(b) : x.call = "consume" /\ Rank(x) = 3
       /\ \A x \in Range(d) : x.call \in {"resetScope", "produce"} /\ Rank(x) = 3
  BY <1>6, <1>7, <1>8 DEF Rank, InCall, OutCall
<1>12. /\ \A x, y \in Range(a) : Fine(x, y)
       /\ \A x \in Range(a) : \A y \in Range(b) : Fine(x, y)
       /\ \A x \in Range(a) \cup Range(b) : \A y \in Range(d) : Fine(x, y)
       /\ \A x \in Range(a) \cup Range(b) \cup Range(d) : Fine(x, last)
  BY <1>9, <1>11 DEF Fine, CommsFine
<1>13. \A i, j \in DOMAIN a : i < j => Fine(a[i], a[j])
  BY <1>12 DEF Range
<1>14. PICK ab : ab = Joined(a, b)
  OBVIOUS
<1>15. PICK abd : abd = Joined(ab, d)
  OBVIOUS
<1>16. PICK cs : cs = Joined(abd, e)
  OBVIOUS
<1>17. cs = Execution(rule)
  BY <1>1, <1>2, <1>3, <1>4, <1>14, <1>15, <1>16, ExecutionParts
<1>18. /\ ab \in Seq(Calls) /\ Range(ab) = Range(a) \cup Range(b)
       /\ \A i, j \in DOMAIN ab : i < j => Fine(ab[i], ab[j])
  BY ONLY <1>6, <1>7, <1>12, <1>13, <1>14, JoinedFine
<1>19. /\ abd \in Seq(Calls) /\ Range(abd) = Range(ab) \cup Range(d)
       /\ \A i, j \in DOMAIN abd : i < j => Fine(abd[i], abd[j])
  <2>1. \A x \in Range(ab) : \A y \in Range(d) : Fine(x, y)
    BY <1>12, <1>18
  <2> QED
    BY ONLY <1>8, <1>15, <1>18, <2>1, JoinedFine
<1>20. /\ cs \in Seq(Calls) /\ Range(cs) = Range(abd) \cup Range(e)
       /\ \A i, j \in DOMAIN cs : i < j => Fine(cs[i], cs[j])
  <2>1. \A x \in Range(abd) : \A y \in Range(e) : Fine(x, y)
    BY <1>10, <1>12, <1>18, <1>19
  <2> QED
    BY ONLY <1>10, <1>16, <1>19, <2>1, JoinedFine
<1>21. /\ last \in Range(cs)
       /\ \A x \in Range(cs) : \/ x.call = "setActive"
                               \/ \E p \in Range(rule.in) : x = InCall(p)
                               \/ \E p \in Range(rule.out) : x = OutCall(p)
                               \/ x = last
  BY <1>6, <1>7, <1>8, <1>10, <1>18, <1>19, <1>20
<1> QED
  BY <1>5, <1>17, <1>20, <1>21

-----------------------------------------------------------------------------
(* The scheduler.                                                          *)

(* The transition an active actor has chosen, at the start of its firing,  *)
(* has its tokens and its places.                                          *)
LEMMA ChosenFits ==
  ASSUME ActorsInv, todo = <<>>, NEW m \in Node, canFire(m), NEW rule, rule = Current(m)[ct[m]]
  PROVE  /\ rule \in RuleSet(m) /\ WellFormed(rule)
         /\ \A p \in Range(rule.in) : p.chan \in Chan /\ p.c <= tok[p.chan] /\ p.r <= tok[p.chan]
         /\ \A p \in Range(rule.out) : ~resetEntry(p) =>
              p.chan \in Chan /\ tok[p.chan] + p.n <= Depth[p.chan]
<1>1. state[m] \in DOMAIN Rules[m] /\ ct[m] \in 0 .. Len(Rules[m][state[m]]) /\ ct[m] # 0
  BY DEF ActorsInv, Typed, canFire
<1>2. ct[m] \in DOMAIN Rules[m][state[m]]
  <2>1. Rules[m][state[m]] \in Seq(RuleSet(m))
    BY <1>1, ActorsAssumption
  <2>2. Len(Rules[m][state[m]]) \in Nat /\ DOMAIN Rules[m][state[m]] = 1 .. Len(Rules[m][state[m]])
    BY <2>1
  <2> QED
    BY <1>1, <2>2
<1>3. PICK t : t = <<m, state[m], ct[m]>>
  OBVIOUS
<1>4. t \in Transitions /\ RuleOf(t) = rule /\ rule \in RuleSet(m) /\ WellFormed(rule)
  BY <1>1, <1>2, <1>3, TransitionFacts DEF Current
<1>5. AtRest
  BY DEF AtRest, Due, Range
<1>6. ListOf(rule) \in live /\ ListOf(rule) \in Lists
  BY <1>4 DEF ActorsInv, ChoiceLive, Executing, Lists
<1>7. ListOf(rule) \subseteq enabled
  BY <1>5, <1>6, RestFacts
<1>8. \A e \in ListOf(rule) : e \in Events /\ EventAfter(e)
  BY <1>5, <1>6, <1>7, RestFacts DEF Events
<1>9. \A c \in Chan : /\ UpTo(c, "data", tok[c]) /\ UpTo(c, "space", Depth[c] - tok[c])
                      /\ tok[c] \in Int /\ Depth[c] \in Int
  <2>1. \A c \in Chan : UpTo(c, "data", Count(c, "data")) /\ UpTo(c, "space", Count(c, "space"))
    BY <1>5, RestFacts DEF Side
  <2>2. \A c \in Chan : tok[c] \in Int /\ Depth[c] \in Int
    BY ActorsAssumption DEF ActorsInv, Typed
  <2> QED
    BY <2>1, <2>2, CountFacts
<1>10. ASSUME NEW p \in Range(rule.in) PROVE p.chan \in Chan /\ p.c <= tok[p.chan] /\ p.r <= tok[p.chan]
  <2>1. p \in [chan : Chan, c : Nat, r : Nat] /\ p.c <= p.r
    BY <1>4, PortFacts DEF WellFormed
  <2>2. <<p.chan, "data", p.r>> \in ListOf(rule)
    BY DEF ListOf, dataEvent
  <2>3. EventAfter(<<p.chan, "data", p.r>>) /\ <<p.chan, "data", p.r>> \in Events
    BY <1>8, <2>2
  <2>4. p.r <= tok[p.chan]
    BY <1>9, <2>1, <2>3 DEF UpTo
  <2> QED
    BY <1>9, <2>1, <2>4
<1>11. ASSUME NEW p \in Range(rule.out), ~resetEntry(p)
       PROVE  p.chan \in Chan /\ tok[p.chan] + p.n <= Depth[p.chan]
  <2>1. p \in [chan : Chan \cup ResetChan, n : Nat] /\ p.chan \in Chan
    BY <1>4, <1>11, PortFacts DEF resetEntry
  <2>2. <<p.chan, "space", p.n>> \in ListOf(rule)
    BY <1>11 DEF ListOf, spaceEvent
  <2>3. EventAfter(<<p.chan, "space", p.n>>) /\ <<p.chan, "space", p.n>> \in Events
    BY <1>8, <2>2
  <2>4. p.n <= Depth[p.chan] - tok[p.chan]
    BY <1>9, <2>1, <2>3 DEF UpTo
  <2> QED
    BY <1>9, <2>1, <2>4
<1> QED
  BY <1>4, <1>10, <1>11

LEMMA ScheduleStep ==
  ASSUME ActorsInv, NEW m \in Node, schedule(m)
  PROVE  ActorsInv'
<1>1. running = m /\ todo = <<>> /\ m # None
  BY ActorsAssumption DEF schedule
<1>2. PICK rule : rule = Current(m)[ct[m]]
  OBVIOUS
<1>3. /\ todo' = Execution(rule)
      /\ UNCHANGED <<tok, enabled, live, state, ct, on, pending, runnable, running>>
  BY <1>2 DEF schedule
<1>4. canFire(m)
  BY <1>1 DEF ActorsInv, Firing
<1>5. /\ rule \in RuleSet(m) /\ WellFormed(rule)
      /\ \A p \in Range(rule.in) : p.chan \in Chan /\ p.c <= tok[p.chan]
      /\ \A p \in Range(rule.out) : ~resetEntry(p) =>
           p.chan \in Chan /\ tok[p.chan] + p.n <= Depth[p.chan]
  BY <1>1, <1>2, <1>4, ChosenFits
<1>6. PICK cs : cs = Execution(rule)
  OBVIOUS
<1>7. PICK last : last = [call |-> "executed", dest |-> rule.dest]
  OBVIOUS
<1>8. /\ cs \in Seq(Calls)
      /\ \A x \in Range(cs) : \/ x.call = "setActive"
                              \/ \E p \in Range(rule.in) : x = InCall(p)
                              \/ \E p \in Range(rule.out) : x = OutCall(p)
                              \/ x = last
      /\ last \in Range(cs)
      /\ \A i, j \in DOMAIN cs : i < j => Fine(cs[i], cs[j])
  BY <1>5, <1>6, <1>7, ExecutionFine
<1>9. last.call = "executed" /\ last.dest = rule.dest
  BY <1>7
<1>10. todo' = cs /\ Due' = Range(cs)
  BY <1>3, <1>6 DEF Due
<1>11. Due = {}
  BY <1>1 DEF Due, Range
<1>12. Typed'
  <2>1. holds' \subseteq Guarded(Node)
    <3>1. GuardsChange(Guarded({m})) /\ Guarded({m}) \in SUBSET Guarded(Node)
      BY GuardSets DEF schedule
    <3> QED
      BY <3>1, GuardsTyped DEF ActorsInv
  <2> QED
    BY <1>3, <1>8, <1>10, <2>1 DEF ActorsInv, Typed
<1>13. InOrder'
  BY <1>8, <1>10 DEF InOrder, Fine
<1>14. todo' # <<>>
  <2>1. Range(cs) # {}
    BY <1>8
  <2> QED
    BY <1>10, <2>1, Nothing
<1>15. Firing'
  <2>1. \A x \in Due' : x.call = "executed" => x = last
    BY <1>8, <1>10 DEF InCall, OutCall
  <2>2. rule.dest \in DOMAIN Rules[m]
    BY <1>5 DEF RuleSet
  <2> QED
    BY <1>1, <1>3, <1>8, <1>9, <1>10, <1>14, <2>1, <2>2 DEF Firing
<1>16. Fits'
  <2>1. ASSUME NEW x \in Range(cs)
        PROVE  /\ x.call = "consume" => x.n <= tok[x.chan]
               /\ x.call = "produce" => tok[x.chan] + x.n <= Depth[x.chan]
    <3>1. CASE x.call = "setActive" \/ x = last
      BY <1>9, <3>1
    <3>2. CASE \E p \in Range(rule.in) : x = InCall(p)
      BY <1>5, <3>2 DEF InCall
    <3>3. CASE \E p \in Range(rule.out) : x = OutCall(p)
      BY <1>5, <3>3 DEF OutCall
    <3> QED
      BY <1>8, <3>1, <3>2, <3>3
  <2>2. \A c \in Chan : tok[c] \in 0 .. Depth[c]
    BY DEF ActorsInv, Fits
  <2> QED
    BY <1>3, <1>10, <2>1, <2>2 DEF Fits
<1>17. Levels' /\ ListsFollow'
  <2>1. \A y \in Range(cs) : y.call \notin {"walk", "notify", "reset", "list"}
    BY <1>8, <1>9 DEF InCall, OutCall
  <2>2. \A y : y.call \in {"walk", "notify", "reset", "list"} => (y \in Due' <=> y \in Due)
    BY <1>10, <1>11, <2>1
  <2> QED
    BY <1>3, <2>2, Undisturbed DEF ActorsInv
<1>18. ChoiceLive' /\ Requested'
  <2>1. \A n \in Node : (canFire(n)' <=> canFire(n)) /\ ~Executing(n) /\ Current(n)' = Current(n)
    BY <1>1, <1>3 DEF canFire, Executing, Current
  <2> QED
    BY <1>3, <2>1 DEF ActorsInv, ChoiceLive, Requested
<1> QED
  BY <1>12, <1>13, <1>15, <1>16, <1>17, <1>18 DEF ActorsInv

(* Nothing that concerns the FIFOs, the events or the calls happens.       *)
LEMMA Unmoved ==
  ASSUME ActorsInv, UNCHANGED <<tok, enabled, live, state, ct, on, holds, todo>>
  PROVE  /\ InOrder' /\ Fits' /\ Levels' /\ ListsFollow' /\ Due' = Due
         /\ \A m \in Node : (canFire(m)' <=> canFire(m)) /\ Current(m)' = Current(m)
<1>1. Due' = Due
  BY DEF Due
<1>2. Levels' /\ ListsFollow'
  BY <1>1, Undisturbed DEF ActorsInv
<1>3. InOrder' /\ Fits'
  BY <1>1 DEF ActorsInv, InOrder, Fits
<1> QED
  BY <1>1, <1>2, <1>3 DEF canFire, Current

LEMMA ScheduleRequestStep ==
  ASSUME ActorsInv, NEW m \in Node, scheduleRequestMethod(m)
  PROVE  ActorsInv'
<1>1. /\ running = None /\ m \in runnable /\ runnable' = runnable \ {m}
      /\ running' = IF canFire(m) THEN m ELSE None
      /\ UNCHANGED <<tok, enabled, live, state, ct, on, holds, pending, todo>>
  BY DEF scheduleRequestMethod
<1>2. todo = <<>> /\ m # None /\ todo' = <<>>
  BY <1>1, ActorsAssumption DEF ActorsInv, Firing
<1>3. /\ InOrder' /\ Fits' /\ Levels' /\ ListsFollow' /\ Due' = Due
      /\ \A n \in Node : (canFire(n)' <=> canFire(n)) /\ Current(n)' = Current(n)
  BY <1>1, Unmoved
<1>4. Typed'
  BY <1>1 DEF ActorsInv, Typed
<1>5. Due' = {}
  BY <1>2 DEF Due, Range
<1>6. Firing'
  <2>1. running' # None => canFire(running)'
    BY <1>1, <1>3
  <2> QED
    BY <1>2, <1>5, <2>1 DEF Firing
<1>7. ChoiceLive'
  BY <1>1, <1>2, <1>3 DEF ActorsInv, ChoiceLive, Executing
<1>8. Requested'
  <2>1. SUFFICES ASSUME NEW n \in Node, canFire(n)
                 PROVE  n \in pending \cup (runnable \ {m}) \cup {running'}
    BY <1>1, <1>3 DEF Requested
  <2>2. n \in pending \cup runnable \cup {None} /\ n # None
    BY <1>1, <2>1, ActorsAssumption DEF ActorsInv, Requested
  <2> QED
    BY <1>1, <2>1, <2>2
<1> QED
  BY <1>3, <1>4, <1>6, <1>7, <1>8 DEF ActorsInv

LEMMA NextDeltaStep ==
  ASSUME ActorsInv, NextDelta
  PROVE  ActorsInv'
<1>1. /\ running = None /\ runnable = {} /\ runnable' = pending /\ pending' = {}
      /\ UNCHANGED <<tok, enabled, live, state, ct, on, holds, running, todo>>
  BY DEF NextDelta
<1>2. /\ InOrder' /\ Fits' /\ Levels' /\ ListsFollow' /\ Due' = Due
      /\ \A n \in Node : (canFire(n)' <=> canFire(n)) /\ Current(n)' = Current(n)
  BY <1>1, Unmoved
<1>3. Typed'
  BY <1>1 DEF ActorsInv, Typed
<1>4. Firing'
  BY <1>1, <1>2 DEF ActorsInv, Firing
<1>5. ChoiceLive'
  BY <1>1, <1>2 DEF ActorsInv, ChoiceLive, Executing
<1>6. Requested'
  BY <1>1, <1>2 DEF ActorsInv, Requested
<1> QED
  BY <1>2, <1>3, <1>4, <1>5, <1>6 DEF ActorsInv

LEMMA StutterStep ==
  ASSUME ActorsInv, UNCHANGED vars
  PROVE  ActorsInv'
<1>1. /\ UNCHANGED <<tok, enabled, live, state, ct, on, holds, todo>>
      /\ UNCHANGED <<pending, runnable, running>>
  BY DEF vars
<1>2. /\ InOrder' /\ Fits' /\ Levels' /\ ListsFollow' /\ Due' = Due
      /\ \A n \in Node : (canFire(n)' <=> canFire(n)) /\ Current(n)' = Current(n)
  BY <1>1, Unmoved
<1>3. Typed'
  BY <1>1 DEF ActorsInv, Typed
<1>4. Firing'
  BY <1>1, <1>2 DEF ActorsInv, Firing, canFire
<1>5. ChoiceLive'
  BY <1>1, <1>2 DEF ActorsInv, ChoiceLive, Executing
<1>6. Requested'
  BY <1>1, <1>2 DEF ActorsInv, Requested
<1> QED
  BY <1>2, <1>3, <1>4, <1>5, <1>6 DEF ActorsInv

-----------------------------------------------------------------------------
(* The start of the simulation.                                            *)

LEMMA FoundFirst ==
  ASSUME NEW m \in Node, state[m] \in DOMAIN Rules[m]
  PROVE  /\ FirstReady(m) \in 0 .. Len(Rules[m][state[m]]) /\ FirstReady(m) \in Nat
         /\ FirstReady(m) # 0 => ListOf(Current(m)[FirstReady(m)]) \in live
<1> DEFINE rules == Rules[m][state[m]]
           ready == {i \in DOMAIN rules : check(m, i)}
<1>1. rules \in Seq(RuleSet(m))
  BY ActorsAssumption
<1>2. Len(rules) \in Nat /\ ready \in SUBSET (1 .. Len(rules))
  BY <1>1
<1>3. FirstReady(m) = IF ready = {} THEN 0 ELSE Min(ready)
  BY DEF FirstReady, Current
<1>4. \A i \in ready : ListOf(Current(m)[i]) \in live
  BY DEF check
<1>5. Current(m) = rules
  BY DEF Current
<1> HIDE DEF rules, ready
<1>6. FirstReady(m) \in 0 .. Len(rules) /\ (FirstReady(m) # 0 => FirstReady(m) \in ready)
  BY <1>2, <1>3, SearchFacts
<1> QED
  BY <1>2, <1>4, <1>6 DEF rules

LEMMA ActorsInit == Init => ActorsInv
<1> SUFFICES ASSUME Init PROVE ActorsInv
  OBVIOUS
<1>1. /\ tok = Marking /\ enabled = {e \in Events : e[3] <= Count(e[1], e[2])}
      /\ live = {P \in Lists : P \subseteq enabled} /\ state = Initial
      /\ on = [m \in Node |-> TRUE] /\ holds \in SUBSET Guarded(Node)
      /\ ct = [m \in Node |-> FirstReady(m)] /\ pending = {m \in Node : ct[m] # 0}
      /\ runnable = {} /\ running = None /\ todo = <<>>
  BY DEF Init
<1>2. Due = {} /\ DOMAIN todo = {}
  BY <1>1 DEF Due, Range
<1>3. /\ DOMAIN state = Node
      /\ \A m \in Node : state[m] \in DOMAIN Rules[m]
  BY <1>1, ActorsAssumption
<1>4. /\ tok \in [Chan -> Int]
      /\ \A c \in Chan : tok[c] \in 0 .. Depth[c] /\ Depth[c] \in Nat
  BY <1>1, ActorsAssumption
<1>5. \A m \in Node : /\ ct[m] \in 0 .. Len(Rules[m][state[m]])
                      /\ ct[m] \in Nat
                      /\ ct[m] # 0 => ListOf(Current(m)[ct[m]]) \in live
  BY <1>1, <1>3, FoundFirst
<1>6. Typed
  <2>1. ct \in [Node -> Nat]
    BY <1>1, <1>5
  <2>2. todo \in Seq(Calls)
    BY <1>1
  <2>3. on \in [Node -> BOOLEAN] /\ holds \subseteq Guarded(Node) /\ running \in Node \cup {None}
    BY <1>1
  <2>4. enabled \subseteq Events /\ live \subseteq Lists /\ pending \subseteq Node /\ runnable \subseteq Node
    BY <1>1
  <2> QED
    BY <1>3, <1>4, <1>5, <2>1, <2>2, <2>3, <2>4 DEF Typed
<1>7. InOrder /\ Firing /\ Fits
  BY <1>1, <1>2, <1>4 DEF InOrder, Firing, Fits
<1>8. \A e \in Events : EventAfter(e) <=> e[3] <= Count(e[1], e[2])
  BY <1>1, <1>2 DEF EventAfter
<1>9. Levels
  <2>1. ASSUME NEW c \in Chan, NEW side \in Side PROVE Level(c, side)
    <3>1. PICK k : k = Count(c, side)
      OBVIOUS
    <3>2. k \in Int /\ k >= Count(c, side) /\ k <= Count(c, side)
      BY <1>4, <3>1 DEF Count
    <3>3. UpTo(c, side, k)
      BY <1>8, <3>1 DEF UpTo
    <3>4. ~Walks(c, side, {"reset"})
      BY <1>2 DEF Walks
    <3> QED
      BY <3>2, <3>3, <3>4 DEF Level
  <2> QED
    BY <2>1 DEF Levels
<1>10. ListsFollow
  BY <1>1, <1>2 DEF ListsFollow, ListAfter
<1>11. ChoiceLive /\ Requested
  BY <1>1, <1>5 DEF ChoiceLive, Requested, canFire
<1> QED
  BY <1>6, <1>7, <1>9, <1>10, <1>11 DEF ActorsInv

-----------------------------------------------------------------------------
(* The choices.                                                            *)

(* A call that makes the listeners of list P search again, at once or by   *)
(* the calls it makes, if P is active by then. *)
Tells(x, P) ==
  \/ x.call = "list" /\ x.list = P
  \/ x.call \in {"reset", "renotify"} /\ x.event \in P
  \/ /\ x.call = "walk" /\ x.kind \in {"reset", "decreasedCountRenotify"}
     /\ \E e \in P : e[1] = x.chan /\ e[2] = x.side

WillTell(P) == \E x \in Due : Tells(x, P)

(* The choice of m is right as far as its i-th transition is concerned. *)
RightAbout(m, i) ==
  /\ i = ct[m] => check(m, i)
  /\ i < ct[m] \/ ct[m] = 0 => ~check(m, i)

ChoiceOf(m) ==
  on[m] /\ ~Executing(m) =>
    \A i \in DOMAIN Current(m) : WillTell(ListOf(Current(m)[i])) \/ RightAbout(m, i)

(* An active actor is wrong about a transition only as long as a call is   *)
(* due that will make it search again.                                     *)
ChoiceInv == \A m \in Node : ChoiceOf(m)

(* The lists of an actor's transitions. *)
LEMMA CurrentFacts ==
  ASSUME NEW m \in Node, NEW s \in DOMAIN Rules[m], NEW i \in DOMAIN Rules[m][s]
  PROVE  /\ i \in Nat /\ i # 0 /\ i \in 1 .. Len(Rules[m][s])
         /\ <<m, s, i>> \in Transitions
         /\ RuleOf(<<m, s, i>>) = Rules[m][s][i]
         /\ ListOf(Rules[m][s][i]) \in Lists
         /\ Rules[m][s][i].guarded \in BOOLEAN
<1>1. Rules[m][s] \in Seq(RuleSet(m))
  BY ActorsAssumption
<1>2. i \in 1 .. Len(Rules[m][s]) /\ Len(Rules[m][s]) \in Nat
  BY <1>1
<1>3. /\ <<m, s, i>> \in Transitions /\ RuleOf(<<m, s, i>>) = Rules[m][s][i]
      /\ Rules[m][s][i] \in RuleSet(m)
  BY TransitionFacts
<1>4. ListOf(Rules[m][s][i]) \in Lists
  <2>1. ListOf(RuleOf(<<m, s, i>>)) \in Lists
    BY <1>3 DEF Lists
  <2> QED
    BY <1>3, <2>1
<1>5. Rules[m][s][i].guarded \in BOOLEAN
  BY <1>3 DEF RuleSet
<1> QED
  BY <1>2, <1>3, <1>4, <1>5

(* A search leaves nothing to be wrong about. *)
LEMMA FreshNow ==
  ASSUME NEW m \in Node, state[m] \in DOMAIN Rules[m], ct[m] = FirstReady(m)
  PROVE  \A i \in DOMAIN Current(m) : RightAbout(m, i)
<1> DEFINE rules == Rules[m][state[m]]
           ready == {i \in DOMAIN rules : check(m, i)}
<1>1. rules \in Seq(RuleSet(m))
  BY ActorsAssumption
<1>2. Len(rules) \in Nat /\ ready \in SUBSET (1 .. Len(rules)) /\ DOMAIN rules = 1 .. Len(rules)
  BY <1>1
<1>3. FirstReady(m) = IF ready = {} THEN 0 ELSE Min(ready)
  BY DEF FirstReady, Current
<1>4. \A i \in DOMAIN rules : i \in ready <=> check(m, i)
  OBVIOUS
<1>5. Current(m) = rules
  BY DEF Current
<1> HIDE DEF rules, ready
<1>6. /\ ct[m] \in 0 .. Len(rules)
      /\ ct[m] # 0 => ct[m] \in ready
      /\ ct[m] = 0 => ready = {}
      /\ \A i \in ready : ct[m] <= i
  BY <1>2, <1>3, SearchFacts
<1>7. ASSUME NEW i \in DOMAIN rules PROVE RightAbout(m, i)
  <2>1. i \in Nat /\ i # 0
    BY <1>2
  <2>2. i = ct[m] => i \in ready
    BY <1>6, <2>1
  <2>3. i < ct[m] \/ ct[m] = 0 => i \notin ready
    BY <1>2, <1>6, <2>1
  <2> QED
    BY <1>4, <2>2, <2>3 DEF RightAbout
<1> QED
  BY <1>5, <1>7

(* The same of the state that a step leads to.                             *)
LEMMA FreshThen ==
  ASSUME NEW m \in Node, state'[m] \in DOMAIN Rules[m], ct'[m] = FirstReady(m)'
  PROVE  ChoiceOf(m)'
<1> DEFINE rules == Rules[m][state'[m]]
           ready == {i \in DOMAIN rules : check(m, i)'}
<1>1. rules \in Seq(RuleSet(m))
  BY ActorsAssumption
<1>2. Len(rules) \in Nat /\ ready \in SUBSET (1 .. Len(rules)) /\ DOMAIN rules = 1 .. Len(rules)
  BY <1>1
<1>3. FirstReady(m)' = IF ready = {} THEN 0 ELSE Min(ready)
  BY DEF FirstReady, Current
<1>4. \A i \in DOMAIN rules : i \in ready <=> check(m, i)'
  OBVIOUS
<1>5. Current(m)' = rules
  BY DEF Current
<1> HIDE DEF rules, ready
<1>6. /\ ct'[m] \in 0 .. Len(rules)
      /\ ct'[m] # 0 => ct'[m] \in ready
      /\ ct'[m] = 0 => ready = {}
      /\ \A i \in ready : ct'[m] <= i
  BY <1>2, <1>3, SearchFacts
<1>7. ASSUME NEW i \in DOMAIN rules PROVE RightAbout(m, i)'
  <2>1. i \in Nat /\ i # 0
    BY <1>2
  <2>2. i = ct'[m] => i \in ready
    BY <1>6, <2>1
  <2>3. i < ct'[m] \/ ct'[m] = 0 => i \notin ready
    BY <1>2, <1>6, <2>1
  <2> QED
    BY <1>4, <2>2, <2>3 DEF RightAbout
<1> QED
  BY <1>5, <1>7 DEF ChoiceOf

(* Nobody is wrong about a transition whose list is not active: it is not  *)
(* the one chosen, and it does not pass.                                   *)
LEMMA NotLiveThen ==
  ASSUME ActorsInv', NEW m \in Node, on'[m], ~Executing(m)',
         NEW i \in DOMAIN Rules[m][state'[m]], ListOf(Rules[m][state'[m]][i]) \notin live'
  PROVE  RightAbout(m, i)'
<1>1. state'[m] \in DOMAIN Rules[m] /\ Current(m)' = Rules[m][state'[m]]
  BY DEF ActorsInv, Typed, Current
<1>2. i \in Nat /\ i # 0
  <2>1. PICK s : s = state'[m]
    OBVIOUS
  <2>2. Rules[m][s] \in Seq(RuleSet(m)) /\ i \in DOMAIN Rules[m][s]
    BY <1>1, <2>1, ActorsAssumption
  <2> QED
    BY <2>2
<1>3. ~check(m, i)'
  BY DEF check, Current
<1>4. i # ct'[m]
  <2>1. SUFFICES ASSUME i = ct'[m] PROVE FALSE
    OBVIOUS
  <2>2. canFire(m)'
    BY <1>2, <2>1 DEF canFire
  <2>3. ListOf(Rules[m][state'[m]][ct'[m]]) \in live'
    BY <1>1, <2>2 DEF ActorsInv, ChoiceLive, Current
  <2> QED
    BY <2>1, <2>3
<1> QED
  BY <1>3, <1>4 DEF RightAbout

(* An actor that does not search stays as right as it was: what an active  *)
(* list leads it to stays the same, or it will be told.                    *)
LEMMA ChoiceKept ==
  ASSUME ActorsInv, ActorsInv', ChoiceInv, NEW m \in Node,
         on'[m] => on[m], ~Executing(m)' => ~Executing(m),
         state'[m] = state[m], ct'[m] = ct[m],
         \A i \in DOMAIN Rules[m][state[m]] : \A P :
           P = ListOf(Rules[m][state[m]][i]) /\ P \in live' =>
             \/ WillTell(P)'
             \/ /\ ~WillTell(P) /\ P \in live
                /\ <<m, state[m], i>> \in holds' <=> <<m, state[m], i>> \in holds
  PROVE  ChoiceOf(m)'
<1>1. SUFFICES ASSUME on'[m], ~Executing(m)', NEW i \in DOMAIN Rules[m][state[m]]
               PROVE  \A P : P = ListOf(Rules[m][state[m]][i]) => WillTell(P)' \/ RightAbout(m, i)'
  BY DEF ChoiceOf, Current, WillTell
<1>2. Current(m) = Rules[m][state[m]] /\ Current(m)' = Rules[m][state[m]]
  BY DEF Current
<1>3. PICK P : P = ListOf(Rules[m][state[m]][i])
  OBVIOUS
<1>4. CASE P \notin live'
  BY <1>1, <1>3, <1>4, NotLiveThen
<1>5. CASE WillTell(P)'
  BY <1>2, <1>3, <1>5
<1>6. CASE /\ ~WillTell(P) /\ P \in live /\ P \in live'
           /\ <<m, state[m], i>> \in holds' <=> <<m, state[m], i>> \in holds
  <2>1. RightAbout(m, i)
    BY <1>1, <1>2, <1>3, <1>6 DEF ChoiceInv, ChoiceOf
  <2>2. check(m, i)' <=> check(m, i)
    BY <1>2, <1>3, <1>6 DEF check
  <2> QED
    BY <2>1, <2>2 DEF RightAbout
<1> QED
  BY <1>1, <1>2, <1>3, <1>4, <1>5, <1>6

(* What was due behind the head is still due. *)
LEMMA StillTold ==
  ASSUME NEW h, NEW C, NEW R, Due = {h} \cup R, Due' = C \cup R, NEW P, WillTell(P),
         Tells(h, P) => \E x \in C : Tells(x, P)
  PROVE  WillTell(P)'
<1>1. PICK x \in Due : Tells(x, P)
  BY DEF WillTell
<1>2. \E y \in Due' : Tells(y, P)
  BY <1>1
<1> QED
  BY <1>2 DEF WillTell

(* A call in which no actor searches passes on what it had to tell, and    *)
(* whoever has a guard that changes will be told.                          *)
LEMMA PassedOn ==
  ASSUME ActorsInv, ActorsInv', ChoiceInv, todo # <<>>,
         NEW h, NEW C, NEW R, Due = {h} \cup R, Due' = C \cup R,
         h.call # "executed", \A x \in C : x.call # "executed",
         UNCHANGED <<live, state, ct, on, running>>,
         \A P \in live : Tells(h, P) => \E x \in C : Tells(x, P),
         \A t \in Transitions :
           (t \in holds' <=> t \in holds) \/ \E x \in C : Tells(x, ListOf(RuleOf(t)))
  PROVE  ChoiceInv'
<1>1. todo' # <<>>
  BY FiringKept DEF ActorsInv
<1>2. \A P : (\E x \in C : Tells(x, P)) => WillTell(P)'
  BY DEF WillTell
<1>3. \A P \in live : WillTell(P) => WillTell(P)'
  BY StillTold
<1>4. ASSUME NEW m \in Node PROVE ChoiceOf(m)'
  <2>1. ~Executing(m)' => ~Executing(m)
    BY <1>1 DEF Executing
  <2>2. state[m] \in DOMAIN Rules[m]
    BY DEF ActorsInv, Typed
  <2>3. ASSUME NEW i \in DOMAIN Rules[m][state[m]], NEW P, P = ListOf(Rules[m][state[m]][i]),
               P \in live'
        PROVE  \/ WillTell(P)'
               \/ /\ ~WillTell(P) /\ P \in live
                  /\ <<m, state[m], i>> \in holds' <=> <<m, state[m], i>> \in holds
    <3>1. PICK t : t = <<m, state[m], i>>
      OBVIOUS
    <3>2. t \in Transitions /\ RuleOf(t) = Rules[m][state[m]][i]
      BY <2>2, <3>1, TransitionFacts
    <3>3. (t \in holds' <=> t \in holds) \/ \E x \in C : Tells(x, P)
      BY <2>3, <3>2
    <3> QED
      BY <1>2, <1>3, <2>3, <3>1, <3>3
  <2> QED
    BY <2>1, <2>3, ChoiceKept
<1> QED
  BY <1>4 DEF ChoiceInv

(* Event::notify makes no choice wrong: only the lists it calls change.    *)
LEMMA NotifyChoice ==
  ASSUME ActorsInv, ActorsInv', ChoiceInv, notify
  PROVE  ChoiceInv'
<1> DEFINE S == {P \in Lists : Head(todo).event \in P /\ P \subseteq enabled'}
           C == {ListCallOf(P, TRUE) : P \in S}
           R == Range(Tail(todo))
<1>1. todo # <<>> /\ Head(todo).call = "notify"
  BY DEF notify, Doing
<1>2. PICK order \in SetToSeqs(S) : Instead(AndLists(order, TRUE))
  BY DEF notify
<1>3. /\ UNCHANGED <<tok, live, state, ct, on, holds, pending, runnable, running>>
      /\ S \in SUBSET Lists /\ enabled' \in SUBSET Events
  BY DEF notify, ActorsInv, Typed
<1>4. \A x \in C : x.call = "list"
  BY DEF ListCallOf
<1> HIDE DEF S
<1>5. Due = {Head(todo)} \cup R /\ Due' = C \cup R
  BY <1>1, <1>2, <1>3, EventTurn DEF EventCallNames
<1>6. \A P : ~Tells(Head(todo), P)
  BY <1>1 DEF Tells
<1> HIDE DEF C, R
<1> QED
  BY <1>1, <1>3, <1>4, <1>5, <1>6, PassedOn

(* An event that is reset, or told again, tells every active list. *)
LEMMA ListsTold ==
  ASSUME NEW h, h.call \in {"reset", "renotify"}, NEW C,
         \A P \in live : h.event \in P => \E x \in C : x.call = "list" /\ x.list = P
  PROVE  \A P \in live : Tells(h, P) => \E x \in C : Tells(x, P)
<1>1. SUFFICES ASSUME NEW P \in live, Tells(h, P)
               PROVE  \E x \in C : Tells(x, P)
  OBVIOUS
<1>2. h.event \in P
  BY <1>1 DEF Tells
<1>3. PICK x \in C : x.call = "list" /\ x.list = P
  BY <1>2
<1> QED
  BY <1>3 DEF Tells

(* Event::reset owes every active list a call, and makes it.               *)
LEMMA ResetEventChoice ==
  ASSUME ActorsInv, ActorsInv', ChoiceInv, resetEvent
  PROVE  ChoiceInv'
<1> DEFINE S == {P \in live : Head(todo).event \in P}
           C == {ListCallOf(P, FALSE) : P \in S}
           R == Range(Tail(todo))
<1>1. todo # <<>> /\ Head(todo).call = "reset"
  BY DEF resetEvent, Doing
<1>2. PICK order \in SetToSeqs(S) : Instead(AndLists(order, FALSE))
  BY DEF resetEvent
<1>3. /\ UNCHANGED <<tok, live, state, ct, on, holds, pending, runnable, running>>
      /\ S \in SUBSET Lists /\ enabled' \in SUBSET Events
  BY DEF resetEvent, ActorsInv, Typed
<1>4. \A x \in C : x.call = "list"
  BY DEF ListCallOf
<1>5. \A P \in live : Tells(Head(todo), P) => \E x \in C : Tells(x, P)
  <2>1. \A P \in live : Head(todo).event \in P => \E x \in C : x.call = "list" /\ x.list = P
    <3>1. \A P : ListCallOf(P, FALSE).call = "list" /\ ListCallOf(P, FALSE).list = P
      BY DEF ListCallOf
    <3>2. \A P \in live : Head(todo).event \in P => ListCallOf(P, FALSE) \in C
      OBVIOUS
    <3> QED
      BY <3>1, <3>2
  <2>2. Head(todo).call \in {"reset", "renotify"}
    BY <1>1
  <2> HIDE DEF S, C
  <2> QED
    BY <2>1, <2>2, ListsTold
<1> HIDE DEF S
<1>6. Due = {Head(todo)} \cup R /\ Due' = C \cup R
  BY <1>1, <1>2, <1>3, EventTurn DEF EventCallNames
<1> HIDE DEF C, R
<1> QED
  BY <1>1, <1>3, <1>4, <1>5, <1>6, PassedOn

(* Event::renotifyListener, too.                                           *)
LEMMA RenotifyChoice ==
  ASSUME ActorsInv, ActorsInv', ChoiceInv, renotifyListener
  PROVE  ChoiceInv'
<1> DEFINE S == {P \in live : Head(todo).event \in P}
           C == {ListCallOf(P, TRUE) : P \in S}
           R == Range(Tail(todo))
<1>1. todo # <<>> /\ Head(todo).call = "renotify"
  BY DEF renotifyListener, Doing
<1>2. PICK order \in SetToSeqs(S) : Instead(AndLists(order, TRUE))
  BY DEF renotifyListener
<1>3. /\ UNCHANGED <<tok, live, state, ct, on, holds, pending, runnable, running>>
      /\ S \in SUBSET Lists /\ enabled' \in SUBSET Events
  BY DEF renotifyListener, ActorsInv, Typed
<1>4. \A x \in C : x.call = "list"
  BY DEF ListCallOf
<1>5. \A P \in live : Tells(Head(todo), P) => \E x \in C : Tells(x, P)
  <2>1. \A P \in live : Head(todo).event \in P => \E x \in C : x.call = "list" /\ x.list = P
    <3>1. \A P : ListCallOf(P, TRUE).call = "list" /\ ListCallOf(P, TRUE).list = P
      BY DEF ListCallOf
    <3>2. \A P \in live : Head(todo).event \in P => ListCallOf(P, TRUE) \in C
      OBVIOUS
    <3> QED
      BY <3>1, <3>2
  <2>2. Head(todo).call \in {"reset", "renotify"}
    BY <1>1
  <2> HIDE DEF S, C
  <2> QED
    BY <2>1, <2>2, ListsTold
<1> HIDE DEF S
<1>6. Due = {Head(todo)} \cup R /\ Due' = C \cup R
  BY <1>1, <1>2, <1>3, EventTurn DEF EventCallNames
<1> HIDE DEF C, R
<1> QED
  BY <1>1, <1>3, <1>4, <1>5, <1>6, PassedOn

(* The calls of a walk, to events only and to each event of S. *)
LEMMA WalkedSet ==
  ASSUME NEW c, NEW side, NEW S, S \subseteq Thresholds(c, side), NEW order \in SetToSeqs(S),
         NEW name, \A n \in S : name[n] \in EventCallNames,
         \A m, n \in S : ~(name[m] = "notify" /\ name[n] = "reset"),
         NEW calls, calls = EventSeq(name, c, side, order)
  PROVE  /\ calls \in Seq(Calls)
         /\ \A x \in Range(calls) : x.call \in EventCallNames
         /\ \A n \in S : OneEvent(name[n], <<c, side, n>>) \in Range(calls)
<1>1. IsFiniteSet(S) /\ \A n \in S : <<c, side, n>> \in Events
  BY MapFacts, FS_Subset
<1> DEFINE cs == EventSeq(name, c, side, order)
<1>2. /\ cs \in Seq(Calls)
      /\ Range(cs) = {OneEvent(name[n], <<c, side, n>>) : n \in S}
      /\ \A i, j \in DOMAIN cs : i < j => Fine(cs[i], cs[j])
  BY <1>1, WalkedEvents
<1>3. /\ calls \in Seq(Calls)
      /\ Range(calls) = {OneEvent(name[n], <<c, side, n>>) : n \in S}
  BY <1>2
<1>4. \A x \in Range(calls) : x.call \in EventCallNames
  BY <1>3 DEF OneEvent
<1> QED
  BY <1>3, <1>4

(* A walk that may leave an active list with other tokens than before      *)
(* calls all events of its side.                                           *)
LEMMA WalkChoice ==
  ASSUME ActorsInv, ActorsInv', ChoiceInv, walk
  PROVE  ChoiceInv'
<1>1. todo # <<>> /\ Head(todo).call = "walk" /\ todo \in Seq(Calls) /\ InOrder
  BY DEF walk, Doing, ActorsInv, Typed
<1>2. Head(todo) \in Calls
  BY <1>1
<1>3. PICK c \in Chan, side \in Side, kind \in Kinds : Head(todo) = WalkCall(c, side, kind)
  BY <1>1, <1>2, WalkCallForm
<1>4. Head(todo).chan = c /\ Head(todo).side = side /\ Head(todo).kind = kind
  BY <1>3 DEF WalkCall
<1>5. PICK calls \in Walk(c, side, kind) : todo' = calls \o Tail(todo)
  <2>1. \E calls \in Walk(Head(todo).chan, Head(todo).side, Head(todo).kind) : Instead(calls)
    BY DEF walk
  <2>2. \E calls \in Walk(c, side, kind) : Instead(calls)
    BY <1>4, <2>1
  <2> QED
    BY <2>2 DEF Instead
<1> DEFINE S == WalkSet(c, side, kind)
           name == WalkName(c, side, kind)
           R == Range(Tail(todo))
<1>6. S \in SUBSET Thresholds(c, side)
  BY WalkShape
<1>7. PICK order \in SetToSeqs(S) : calls = EventSeq(name, c, side, order)
  BY WalkShape
<1>8. /\ \A k \in S : name[k] \in EventCallNames
      /\ \A j, k \in S : ~(name[j] = "notify" /\ name[k] = "reset")
  <2>1. \A k \in S : /\ name[k] \in EventCallNames
                     /\ kind = "increasedCount" => name[k] = "notify"
                     /\ kind # "increasedCount" => name[k] # "notify"
    BY DEF WalkName, EventCallNames
  <2> QED
    BY <2>1
<1>9. kind \in {"reset", "decreasedCountRenotify"} =>
        S = Thresholds(c, side) /\ \A k \in S : name[k] \in {"reset", "renotify"}
  BY DEF WalkSet, WalkName
<1> HIDE DEF S, name
<1>10. /\ calls \in Seq(Calls)
       /\ \A x \in Range(calls) : x.call \in EventCallNames
       /\ \A n \in S : OneEvent(name[n], <<c, side, n>>) \in Range(calls)
  BY <1>6, <1>7, <1>8, WalkedSet
<1>11. PICK C : C = Range(calls)
  OBVIOUS
<1>12. Due = {Head(todo)} \cup R /\ Due' = C \cup R
  BY <1>1, <1>5, <1>10, <1>11, Popped
<1>13. \A x \in C : x.call # "executed"
  BY <1>10, <1>11 DEF EventCallNames
<1>14. UNCHANGED <<live, state, ct, on, holds, running>>
  BY DEF walk
<1>15. ASSUME NEW P \in live, Tells(Head(todo), P)
       PROVE  \E x \in C : Tells(x, P)
  <2>1. /\ kind \in {"reset", "decreasedCountRenotify"}
        /\ \E e \in P : e[1] = c /\ e[2] = side
    BY <1>1, <1>4, <1>15 DEF Tells
  <2>2. PICK e \in P : e[1] = c /\ e[2] = side
    BY <2>1
  <2>3. e \in Events
    BY DEF ActorsInv, Typed, Events
  <2>4. PICK n : n = e[3]
    OBVIOUS
  <2>5. n \in S /\ e = <<c, side, n>> /\ name[n] \in {"reset", "renotify"}
    BY <1>9, <2>1, <2>2, <2>3, <2>4, MapFacts
  <2>6. PICK x : x = OneEvent(name[n], <<c, side, n>>)
    OBVIOUS
  <2>7. x.call = name[n] /\ x.event = e
    BY <2>5, <2>6 DEF OneEvent
  <2>8. Tells(x, P)
    BY <2>5, <2>7 DEF Tells
  <2> QED
    BY <1>10, <1>11, <2>5, <2>6, <2>8
<1> HIDE DEF R
<1> QED
  BY <1>1, <1>12, <1>13, <1>14, <1>15, PassedOn

(* The guards that read a FIFO belong to transitions that wait for it. *)
LEMMA ReadersTold ==
  ASSUME NEW c, NEW kind \in {"reset", "decreasedCountRenotify"}, NEW t \in Reading(c)
  PROVE  Tells(WalkCall(c, "data", kind), ListOf(RuleOf(t)))
<1>1. PICK p \in Range(RuleOf(t).in) : p.chan = c
  BY DEF Reading
<1>2. <<c, "data", p.r>> \in ListOf(RuleOf(t))
  BY <1>1 DEF ListOf, dataEvent
<1>3. PICK e : e = <<c, "data", p.r>>
  OBVIOUS
<1>4. e \in ListOf(RuleOf(t)) /\ e[1] = c /\ e[2] = "data"
  BY <1>2, <1>3
<1> HIDE <1>3
<1>5. PICK x : x = WalkCall(c, "data", kind)
  OBVIOUS
<1>6. x.call = "walk" /\ x.chan = c /\ x.side = "data" /\ x.kind = kind
  BY <1>5 DEF WalkCall
<1>7. Tells(x, ListOf(RuleOf(t)))
  BY <1>4, <1>6 DEF Tells
<1> QED
  BY <1>5, <1>7

(* commExec of an input port: the guards that read a shared FIFO change,   *)
(* and the walk that follows tells their actors.                           *)
LEMMA ConsumeChoice ==
  ASSUME ActorsInv, ActorsInv', ChoiceInv, consume
  PROVE  ChoiceInv'
<1>1. todo # <<>> /\ Head(todo).call = "consume" /\ todo \in Seq(Calls) /\ InOrder
  BY DEF consume, Doing, ActorsInv, Typed
<1>2. PICK c : c = Head(todo).chan
  OBVIOUS
<1>3. c \in Chan
  BY <1>1, <1>2, CommCallForm
<1>4. PICK kind : kind = ConsumeWalk(c)
  OBVIOUS
<1>5. PICK cs : cs = <<WalkCall(c, "data", kind), WalkCall(c, "space", "increasedCount")>>
  OBVIOUS
<1>6. UNCHANGED <<live, state, ct, on, running>> /\ todo' = cs \o Tail(todo)
  BY <1>2, <1>4, <1>5 DEF consume, Instead
<1>7. kind \in {"decreasedCount", "decreasedCountRenotify"}
  BY <1>4 DEF ConsumeWalk
<1>8. /\ cs \in Seq(Calls)
      /\ Range(cs) = {WalkCall(c, "data", kind), WalkCall(c, "space", "increasedCount")}
  BY <1>3, <1>5, <1>7, TwoWalks DEF Side
<1>9. PICK C : C = Range(cs)
  OBVIOUS
<1>10. PICK R : R = Range(Tail(todo))
  OBVIOUS
<1>11. Due = {Head(todo)} \cup R /\ Due' = C \cup R
  BY <1>1, <1>6, <1>8, <1>9, <1>10, Popped
<1>12. WalkCall(c, "data", kind) \in C /\ \A x \in C : x.call # "executed"
  BY <1>8, <1>9 DEF WalkCall
<1>13. \A P : ~Tells(Head(todo), P)
  BY <1>1 DEF Tells
<1>14. ASSUME NEW t \in Transitions, ~(t \in holds' <=> t \in holds)
       PROVE  \E x \in C : Tells(x, ListOf(RuleOf(t)))
  <2>1. PICK G : G = IF c \in Shared THEN Reading(c) \ Guarded({running}) ELSE {}
    OBVIOUS
  <2>2. GuardsChange(G)
    BY <1>2, <2>1 DEF consume
  <2>3. t \in G
    BY <1>14, <2>2 DEF GuardsChange
  <2>4. c \in Shared /\ t \in Reading(c)
    BY <2>1, <2>3
  <2>5. kind = "decreasedCountRenotify"
    BY <1>4, <2>4 DEF ConsumeWalk
  <2>6. Tells(WalkCall(c, "data", kind), ListOf(RuleOf(t)))
    BY <2>4, <2>5, ReadersTold
  <2> QED
    BY <1>12, <2>6
<1> QED
  BY <1>1, <1>6, <1>11, <1>12, <1>13, <1>14, PassedOn

(* commExec of an output port: no guard reads the new tokens before the    *)
(* walk has told of them.                                                  *)
LEMMA ProduceChoice ==
  ASSUME ActorsInv, ActorsInv', ChoiceInv, produce
  PROVE  ChoiceInv'
<1>1. todo # <<>> /\ Head(todo).call = "produce" /\ todo \in Seq(Calls) /\ InOrder
  BY DEF produce, Doing, ActorsInv, Typed
<1>2. PICK c : c = Head(todo).chan
  OBVIOUS
<1>3. c \in Chan
  BY <1>1, <1>2, CommCallForm
<1>4. PICK cs : cs = <<WalkCall(c, "space", "decreasedCount"), WalkCall(c, "data", "increasedCount")>>
  OBVIOUS
<1>5. UNCHANGED <<live, state, ct, on, holds, running>> /\ todo' = cs \o Tail(todo)
  BY <1>2, <1>4 DEF produce, Instead
<1>6. /\ cs \in Seq(Calls)
      /\ Range(cs) = {WalkCall(c, "space", "decreasedCount"), WalkCall(c, "data", "increasedCount")}
  BY <1>3, <1>4, TwoWalks DEF Side
<1>7. PICK C : C = Range(cs)
  OBVIOUS
<1>8. PICK R : R = Range(Tail(todo))
  OBVIOUS
<1>9. Due = {Head(todo)} \cup R /\ Due' = C \cup R
  BY <1>1, <1>5, <1>6, <1>7, <1>8, Popped
<1>10. \A x \in C : x.call # "executed"
  BY <1>6, <1>7 DEF WalkCall
<1>11. \A P : ~Tells(Head(todo), P)
  BY <1>1 DEF Tells
<1> QED
  BY <1>1, <1>5, <1>9, <1>10, <1>11, PassedOn

(* doReset of a FIFO: the walks that reset its events tell every reader.   *)
LEMMA ResetChanChoice ==
  ASSUME ActorsInv, ActorsInv', ChoiceInv, resetChan
  PROVE  ChoiceInv'
<1>1. todo # <<>> /\ Head(todo).call = "resetChan" /\ todo \in Seq(Calls) /\ InOrder
  BY DEF resetChan, Doing, ActorsInv, Typed
<1>2. PICK c : c = Head(todo).chan
  OBVIOUS
<1>3. c \in Chan
  <2>1. Head(todo) \in Calls
    BY <1>1
  <2> QED
    BY <1>1, <1>2, <2>1, ResetCallForm
<1>4. PICK cs : cs = ResetWalks(c)
  OBVIOUS
<1>5. UNCHANGED <<live, state, ct, on, running>> /\ todo' = cs \o Tail(todo)
  BY <1>2, <1>4 DEF resetChan, Instead
<1>6. /\ cs \in Seq(Calls) /\ Range(cs) \subseteq WalksOf(c, Kinds)
      /\ WalkCall(c, "data", "reset") \in Range(cs)
  BY <1>3, <1>4, FourWalks DEF Side
<1>7. PICK C : C = Range(cs)
  OBVIOUS
<1>8. PICK R : R = Range(Tail(todo))
  OBVIOUS
<1>9. Due = {Head(todo)} \cup R /\ Due' = C \cup R
  BY <1>1, <1>5, <1>6, <1>7, <1>8, Popped
<1>10. \A x \in C : x.call # "executed"
  BY <1>6, <1>7 DEF WalksOf, WalkCall
<1>11. \A P : ~Tells(Head(todo), P)
  BY <1>1 DEF Tells
<1>12. ASSUME NEW t \in Transitions, ~(t \in holds' <=> t \in holds)
       PROVE  \E x \in C : Tells(x, ListOf(RuleOf(t)))
  <2>1. GuardsChange(Reading(c))
    BY <1>2 DEF resetChan
  <2>2. t \in Reading(c)
    BY <1>12, <2>1 DEF GuardsChange
  <2>3. Tells(WalkCall(c, "data", "reset"), ListOf(RuleOf(t)))
    BY <2>2, ReadersTold
  <2> QED
    BY <1>6, <1>7, <2>3
<1> QED
  BY <1>1, <1>5, <1>9, <1>10, <1>11, <1>12, PassedOn

(* smoc_reset_chan only passes the resets on.                              *)
LEMMA ResetScopeChoice ==
  ASSUME ActorsInv, ActorsInv', ChoiceInv, resetScope
  PROVE  ChoiceInv'
<1>1. todo # <<>> /\ Head(todo).call = "resetScope" /\ todo \in Seq(Calls) /\ InOrder
  BY DEF resetScope, Doing, ActorsInv, Typed
<1>2. PICK C : C = ResetScope[Head(todo).chan].chans
  OBVIOUS
<1>3. PICK M : M = ResetScope[Head(todo).chan].nodes
  OBVIOUS
<1>4. C \subseteq Chan /\ M \subseteq Node
  <2>1. Head(todo).chan \in ResetChan
    BY <1>1, CallKinds DEF ScopeCall
  <2> QED
    BY <1>2, <1>3, <2>1, ActorsAssumption
<1>5. PICK chans \in SetToSeqs(C) : \E nodes \in SetToSeqs(M) :
        todo' = ScopeResets(chans, nodes) \o Tail(todo)
  BY <1>2, <1>3 DEF resetScope, Instead, Each, ChanReset, NodeReset, ChanResets, NodeResets, ScopeResets
<1>6. PICK nodes \in SetToSeqs(M) :
        todo' = ScopeResets(chans, nodes) \o Tail(todo)
  BY <1>5
<1>7. PICK cs : cs = ScopeResets(chans, nodes)
  OBVIOUS
<1>8. /\ cs \in Seq(Calls)
      /\ \A x \in Range(cs) : \/ \E c \in C : x = ChanReset(c)
                              \/ \E m \in M : x = NodeReset(m)
  <2>1. chans \in SetToSeqs(C) /\ nodes \in SetToSeqs(M)
    OBVIOUS
  <2> QED
    BY ONLY <1>4, <1>7, <2>1, ResetCalls
<1>9. \A x \in Range(cs) : x.call # "executed"
  BY <1>8 DEF ChanReset, NodeReset
<1>10. PICK D : D = Range(cs)
  OBVIOUS
<1>11. PICK R : R = Range(Tail(todo))
  OBVIOUS
<1>12. todo' = cs \o Tail(todo) /\ UNCHANGED <<live, state, ct, on, holds, running>>
  BY <1>6, <1>7 DEF resetScope
<1>13. Due = {Head(todo)} \cup R /\ Due' = D \cup R
  BY <1>1, <1>8, <1>10, <1>11, <1>12, Popped
<1>14. \A P : ~Tells(Head(todo), P)
  BY <1>1 DEF Tells
<1> QED
  BY <1>1, <1>9, <1>10, <1>12, <1>13, <1>14, PassedOn

(* The listeners of a list search again.  One that does not listen has     *)
(* nothing chosen, and the list is no longer active.                       *)
LEMMA SignaledChoice ==
  ASSUME ActorsInv, ActorsInv', ChoiceInv, signaled
  PROVE  ChoiceInv'
<1> DEFINE hears == {m \in Node : Hears(m, Head(todo).list, Head(todo).flag)}
<1>1. todo # <<>> /\ Head(todo).call = "list" /\ todo \in Seq(Calls) /\ InOrder
  BY DEF signaled, Doing, ActorsInv, Typed
<1>2. PICK L : L = Head(todo).list
  OBVIOUS
<1>3. PICK flag : flag = Head(todo).flag
  OBVIOUS
<1>4. Head(todo) \in Calls /\ flag \in BOOLEAN
  BY <1>1, <1>3, ListCallForm
<1>5. /\ live' = IF flag THEN live \cup {L} ELSE live \ {L}
      /\ UNCHANGED <<tok, enabled, state, on, holds, runnable, running>>
      /\ ct' = [m \in Node |-> IF m \in hears THEN FirstReady(m)' ELSE ct[m]]
      /\ todo' = <<>> \o Tail(todo)
  BY <1>2, <1>3 DEF signaled, Instead
<1>6. PICK R : R = Range(Tail(todo))
  OBVIOUS
<1>7. PICK none : none = {}
  OBVIOUS
<1>8. Due = {Head(todo)} \cup R /\ Due' = none \cup R
  BY <1>1, <1>5, <1>6, <1>7, Popped, Nothing
<1>9. todo' # <<>>
  <2>1. (\A x \in none : x.call # "executed") /\ Head(todo).call # "executed"
    BY <1>1, <1>7
  <2>2. Firing /\ running' = running
    BY <1>5 DEF ActorsInv
  <2> QED
    BY <1>1, <1>8, <2>1, <2>2, FiringKept
<1>10. \A P : P # L /\ WillTell(P) => WillTell(P)'
  <2>1. \A P : Tells(Head(todo), P) => P = L
    BY <1>1, <1>2 DEF Tells
  <2> QED
    BY <1>8, <2>1, StillTold
<1>11. \A m \in Node : state[m] \in DOMAIN Rules[m] /\ state'[m] = state[m] /\ on'[m] = on[m]
  BY <1>5 DEF ActorsInv, Typed
<1>12. \A m \in Node : m \in hears <=> Hears(m, L, flag)
  BY <1>2, <1>3
<1>13. \A m \in Node : /\ m \in hears => ct'[m] = FirstReady(m)'
                       /\ m \notin hears => ct'[m] = ct[m]
  BY <1>5
<1> HIDE DEF hears
<1>14. ASSUME NEW m \in Node PROVE ChoiceOf(m)'
  <2>1. CASE m \in hears
    BY <1>11, <1>13, <2>1, FreshThen
  <2>2. CASE m \notin hears /\ on[m] /\ m # running
    <3>1. ~Executing(m)' /\ ~Executing(m)
      BY <1>5, <2>2 DEF Executing
    <3>2. ct'[m] = ct[m] /\ ~Hears(m, L, flag)
      BY <1>12, <1>13, <2>2
    <3>3. ASSUME NEW i \in DOMAIN Rules[m][state[m]], NEW P, P = ListOf(Rules[m][state[m]][i]),
                 P \in live'
          PROVE  \/ WillTell(P)'
                 \/ /\ ~WillTell(P) /\ P \in live
                    /\ <<m, state[m], i>> \in holds' <=> <<m, state[m], i>> \in holds
      <4>1. P # L
        <5>1. SUFFICES ASSUME P = L PROVE FALSE
          OBVIOUS
        <5>2. \E j \in DOMAIN Current(m) : ListOf(Current(m)[j]) = L
          BY <3>3, <5>1 DEF Current
        <5>3. ~flag
          BY <2>2, <3>2, <5>2 DEF Hears
        <5> QED
          BY <1>5, <3>3, <5>1, <5>3
      <4>2. P \in live
        BY <1>4, <1>5, <3>3, <4>1
      <4> QED
        BY <1>5, <1>10, <4>1, <4>2
    <3> QED
      BY <1>11, <3>1, <3>2, <3>3, ChoiceKept
  <2>3. CASE ~on[m] \/ m = running
    <3>1. ~on'[m] \/ Executing(m)'
      BY <1>5, <1>9, <1>11, <2>3 DEF Executing
    <3> QED
      BY <3>1 DEF ChoiceOf
  <2> QED
    BY <2>1, <2>2, <2>3
<1> QED
  BY <1>14 DEF ChoiceInv

(* An actor that a step does not concern. *)
LEMMA Bystander ==
  ASSUME ActorsInv, ActorsInv', ChoiceInv, NEW m \in Node,
         on'[m] => on[m], ~Executing(m)' => ~Executing(m),
         state'[m] = state[m], ct'[m] = ct[m], live' = live,
         \A P : WillTell(P) => WillTell(P)',
         \A t \in Transitions : t[1] = m => (t \in holds' <=> t \in holds)
  PROVE  ChoiceOf(m)'
<1>1. state[m] \in DOMAIN Rules[m]
  BY DEF ActorsInv, Typed
<1>2. ASSUME NEW i \in DOMAIN Rules[m][state[m]]
      PROVE  <<m, state[m], i>> \in holds' <=> <<m, state[m], i>> \in holds
  <2>1. PICK t : t = <<m, state[m], i>>
    OBVIOUS
  <2>2. t \in Transitions /\ t[1] = m
    BY <1>1, <2>1, TransitionFacts
  <2> QED
    BY <2>1, <2>2
<1>3. \A i \in DOMAIN Rules[m][state[m]] : \A P :
        P = ListOf(Rules[m][state[m]][i]) /\ P \in live' =>
          \/ WillTell(P)'
          \/ /\ ~WillTell(P) /\ P \in live
             /\ <<m, state[m], i>> \in holds' <=> <<m, state[m], i>> \in holds
  BY <1>2
<1> QED
  BY <1>3, ChoiceKept

(* What a call that makes none leaves due. *)
LEMMA TurnTold ==
  ASSUME ActorsInv, todo # <<>>, Instead(<<>>),
         Head(todo).call \in {"resetNode", "setActive", "executed"}
  PROVE  /\ \A P : WillTell(P) => WillTell(P)'
         /\ Head(todo).call # "executed" /\ running' = running => todo' # <<>>
<1>1. todo \in Seq(Calls) /\ InOrder /\ todo' = <<>> \o Tail(todo)
  BY DEF ActorsInv, Typed, Instead
<1>2. PICK R : R = Range(Tail(todo))
  OBVIOUS
<1>3. PICK none : none = {}
  OBVIOUS
<1>4. Due = {Head(todo)} \cup R /\ Due' = none \cup R
  BY <1>1, <1>2, <1>3, Popped, Nothing
<1>5. \A P : ~Tells(Head(todo), P)
  BY DEF Tells
<1>6. \A P : WillTell(P) => WillTell(P)'
  BY <1>4, <1>5, StillTold
<1>7. Head(todo).call # "executed" /\ running' = running => todo' # <<>>
  <2>1. \A x \in none : x.call # "executed"
    BY <1>3
  <2>2. Firing
    BY DEF ActorsInv
  <2> QED
    BY <1>4, <2>1, <2>2, FiringKept
<1> QED
  BY <1>6, <1>7

(* An actor that is reset searches if it is active.                        *)
LEMMA ResetNodeChoice ==
  ASSUME ActorsInv, ActorsInv', ChoiceInv, NEW m \in Node, resetNode(m)
  PROVE  ChoiceInv'
<1>1. todo # <<>> /\ Head(todo).call = "resetNode" /\ Instead(<<>>)
  BY DEF resetNode, Doing
<1>2. /\ UNCHANGED <<live, on, running>> /\ GuardsChange(Guarded({m}))
      /\ state' = [state EXCEPT ![m] = Initial[m]]
      /\ ct' = [ct EXCEPT ![m] = IF on[m] THEN FirstReady(m)' ELSE 0]
  BY DEF resetNode
<1>3. todo' # <<>> /\ \A P : WillTell(P) => WillTell(P)'
  BY <1>1, <1>2, TurnTold
<1>4. DOMAIN state = Node /\ DOMAIN ct = Node /\ state'[m] \in DOMAIN Rules[m]
  BY DEF ActorsInv, Typed
<1>5. on[m] => ct'[m] = FirstReady(m)'
  BY <1>2, <1>4
<1>6. ASSUME NEW n \in Node, n # m PROVE ChoiceOf(n)'
  <2>1. state'[n] = state[n] /\ ct'[n] = ct[n] /\ on'[n] = on[n]
    BY <1>2, <1>4, <1>6
  <2>2. ~Executing(n)' => ~Executing(n)
    BY <1>2, <1>3 DEF Executing
  <2>3. \A t \in Transitions : t[1] = n => (t \in holds' <=> t \in holds)
    BY <1>2, <1>6 DEF GuardsChange, Guarded
  <2> QED
    BY <1>2, <1>3, <2>1, <2>2, <2>3, Bystander
<1>7. ChoiceOf(m)'
  <2>1. CASE on[m]
    BY <1>4, <1>5, <2>1, FreshThen
  <2>2. CASE ~on[m]
    <3>1. ~on'[m]
      BY <1>2, <2>2
    <3> QED
      BY <3>1 DEF ChoiceOf
  <2> QED
    BY <2>1, <2>2
<1> QED
  BY <1>6, <1>7 DEF ChoiceInv

(* An actor that is switched on searches; one that is switched off has no  *)
(* choice to keep right.                                                   *)
LEMMA SetActiveChoice ==
  ASSUME ActorsInv, ActorsInv', ChoiceInv, NEW m \in Node, NEW flag \in BOOLEAN, setActive(m, flag)
  PROVE  ChoiceInv'
<1>1. todo # <<>> /\ Head(todo).call = "setActive" /\ Instead(<<>>)
  BY DEF setActive, Doing
<1>2. /\ UNCHANGED <<live, state, holds, running>>
      /\ on' = [on EXCEPT ![m] = flag]
      /\ ct' = IF flag /\ ~on[m] THEN [ct EXCEPT ![m] = FirstReady(m)'] ELSE ct
  BY DEF setActive
<1>3. todo' # <<>> /\ \A P : WillTell(P) => WillTell(P)'
  BY <1>1, <1>2, TurnTold
<1>4. DOMAIN on = Node /\ DOMAIN ct = Node /\ state'[m] \in DOMAIN Rules[m]
  BY DEF ActorsInv, Typed
<1>5. \A n \in Node : ~Executing(n)' => ~Executing(n)
  BY <1>2, <1>3 DEF Executing
<1>6. ASSUME NEW n \in Node, n # m \/ ~(flag /\ ~on[m]), on'[n] => on[n] PROVE ChoiceOf(n)'
  <2>1. state'[n] = state[n] /\ ct'[n] = ct[n]
    BY <1>2, <1>4, <1>6
  <2> QED
    BY <1>2, <1>3, <1>5, <1>6, <2>1, Bystander
<1>7. ASSUME NEW n \in Node PROVE ChoiceOf(n)'
  <2>1. CASE n # m
    <3>1. on'[n] = on[n]
      BY <1>2, <1>4, <2>1
    <3> QED
      BY <1>6, <2>1, <3>1
  <2>2. CASE n = m /\ flag /\ ~on[m]
    <3>1. ct'[m] = FirstReady(m)'
      BY <1>2, <1>4, <2>2
    <3> QED
      BY <1>4, <2>2, <3>1, FreshThen
  <2>3. CASE n = m /\ ~(flag /\ ~on[m])
    <3>1. on'[m] => on[m]
      BY <1>2, <1>4, <2>3
    <3> QED
      BY <1>6, <2>3, <3>1
  <2> QED
    BY <2>1, <2>2, <2>3
<1> QED
  BY <1>7 DEF ChoiceInv


(* The actor that has executed searches; the others have nothing new.      *)
LEMMA ExecutedChoice ==
  ASSUME ActorsInv, ActorsInv', ChoiceInv, NEW m \in Node, executed(m)
  PROVE  ChoiceInv'
<1>1. todo # <<>> /\ Head(todo).call = "executed" /\ Instead(<<>>) /\ running = m /\ m # None
  BY ActorsAssumption DEF executed, Doing
<1>2. /\ UNCHANGED <<live, on, holds>>
      /\ state' = [state EXCEPT ![m] = Head(todo).dest]
      /\ ct' = [ct EXCEPT ![m] = FirstReady(m)']
      /\ running' = IF canFire(m)' THEN m ELSE None
  BY DEF executed
<1>3. \A P : WillTell(P) => WillTell(P)'
  BY <1>1, TurnTold
<1>4. DOMAIN state = Node /\ DOMAIN ct = Node /\ state'[m] \in DOMAIN Rules[m]
  BY DEF ActorsInv, Typed
<1>5. ct'[m] = FirstReady(m)'
  BY <1>2, <1>4
<1>6. ASSUME NEW n \in Node, n # m PROVE ChoiceOf(n)'
  <2>1. state'[n] = state[n] /\ ct'[n] = ct[n] /\ on'[n] = on[n]
    BY <1>2, <1>4, <1>6
  <2>2. ~Executing(n)
    BY <1>1, <1>6 DEF Executing
  <2> QED
    BY <1>2, <1>3, <2>1, <2>2, Bystander
<1>7. ChoiceOf(m)'
  BY <1>4, <1>5, FreshThen
<1> QED
  BY <1>6, <1>7 DEF ChoiceInv

(* The actor that is fired executes from now on, and only its own guards   *)
(* read what its action changes.                                           *)
LEMMA ScheduleChoice ==
  ASSUME ActorsInv, ActorsInv', ChoiceInv, NEW m \in Node, schedule(m)
  PROVE  ChoiceInv'
<1>1. running = m /\ todo = <<>> /\ m # None
  BY ActorsAssumption DEF schedule
<1>2. PICK rule : rule = Current(m)[ct[m]]
  OBVIOUS
<1>3. /\ todo' = Execution(rule) /\ GuardsChange(Guarded({m}))
      /\ UNCHANGED <<live, state, ct, on, running>>
  BY <1>2 DEF schedule
<1>4. todo' # <<>>
  <2>1. canFire(m)
    BY <1>1 DEF ActorsInv, Firing
  <2>2. rule \in RuleSet(m) /\ WellFormed(rule)
    BY <1>1, <1>2, <2>1, ChosenFits
  <2>3. PICK last : last = [call |-> "executed", dest |-> rule.dest]
    OBVIOUS
  <2>4. PICK cs : cs = Execution(rule)
    OBVIOUS
  <2>5. last \in Range(cs)
    BY <2>2, <2>3, <2>4, ExecutionFine
  <2>6. Range(cs) # {}
    BY <2>5
  <2> QED
    BY <1>3, <2>4, <2>6, Nothing
<1>5. \A P : ~WillTell(P)
  <2>1. Due = {}
    BY <1>1, Nothing DEF Due
  <2> QED
    BY <2>1 DEF WillTell
<1>6. ASSUME NEW n \in Node, n # m PROVE ChoiceOf(n)'
  <2>1. ~Executing(n)
    BY <1>1 DEF Executing
  <2>2. \A t \in Transitions : t[1] = n => (t \in holds' <=> t \in holds)
    BY <1>3, <1>6 DEF GuardsChange, Guarded
  <2> QED
    BY <1>3, <1>5, <2>1, <2>2, Bystander
<1>7. ChoiceOf(m)'
  <2>1. Executing(m)'
    BY <1>1, <1>3, <1>4 DEF Executing
  <2> QED
    BY <2>1 DEF ChoiceOf
<1> QED
  BY <1>6, <1>7 DEF ChoiceInv

(* Neither the kernel nor a method that starts touches a choice. *)
LEMMA UnmovedChoice ==
  ASSUME ActorsInv, ActorsInv', ChoiceInv, UNCHANGED <<live, state, ct, on, holds, todo>>,
         running' = running \/ todo = <<>>
  PROVE  ChoiceInv'
<1>1. \A P : WillTell(P) => WillTell(P)'
  <2>1. Due' = Due
    BY DEF Due
  <2> QED
    BY <2>1 DEF WillTell
<1>2. ASSUME NEW n \in Node PROVE ChoiceOf(n)'
  <2>1. ~Executing(n)' => ~Executing(n)
    BY DEF Executing
  <2> QED
    BY <1>1, <2>1, Bystander
<1> QED
  BY <1>2 DEF ChoiceInv

(* No step leaves an actor with a wrong choice and nobody to tell it. *)
LEMMA ChoiceNext == ActorsInv /\ ActorsInv' /\ ChoiceInv /\ [Next]_vars => ChoiceInv'
<1> SUFFICES ASSUME ActorsInv, ActorsInv', ChoiceInv, [Next]_vars PROVE ChoiceInv'
  OBVIOUS
<1>1. CASE Call
  BY <1>1, NotifyChoice, ResetEventChoice, RenotifyChoice, SignaledChoice, WalkChoice,
     ConsumeChoice, ProduceChoice, ResetScopeChoice, ResetChanChoice, ResetNodeChoice,
     ExecutedChoice, SetActiveChoice
  DEF Call
<1>2. CASE NextDelta
  <2>1. UNCHANGED <<live, state, ct, on, holds, todo>> /\ running' = running
    BY <1>2 DEF NextDelta
  <2> QED
    BY <2>1, UnmovedChoice
<1>3. ASSUME NEW m \in Node, schedule(m) PROVE ChoiceInv'
  BY <1>3, ScheduleChoice
<1>4. ASSUME NEW m \in Node, scheduleRequestMethod(m) PROVE ChoiceInv'
  <2>1. UNCHANGED <<live, state, ct, on, holds, todo>> /\ running = None
    BY <1>4 DEF scheduleRequestMethod
  <2>2. todo = <<>>
    BY <2>1 DEF ActorsInv, Firing
  <2> QED
    BY <2>1, <2>2, UnmovedChoice
<1>5. CASE UNCHANGED vars
  <2>1. UNCHANGED <<live, state, ct, on, holds, todo>> /\ running' = running
    BY <1>5 DEF vars
  <2> QED
    BY <2>1, UnmovedChoice
<1> QED
  BY <1>1, <1>2, <1>3, <1>4, <1>5 DEF Next

(* All actors have searched when the simulation starts.                    *)
LEMMA ChoiceInit == Init => ChoiceInv
<1> SUFFICES ASSUME Init, NEW m \in Node PROVE ChoiceOf(m)
  BY DEF ChoiceInv
<1>1. state = Initial /\ ct = [n \in Node |-> FirstReady(n)]
  BY DEF Init
<1>2. ct[m] = FirstReady(m)
  BY <1>1
<1>3. state[m] \in DOMAIN Rules[m]
  BY <1>1, ActorsAssumption
<1> QED
  BY <1>2, <1>3, FreshNow DEF ChoiceOf

(* Once everybody has been told, the lists are as good as the tokens. *)
LEMMA ToldExact ==
  ASSUME ActorsInv, ChoiceInv
  PROVE  ChoiceExact
<1> SUFFICES ASSUME Settled, NEW m \in Node, on[m], ~Executing(m), NEW i \in DOMAIN Current(m)
             PROVE  /\ i = ct[m] => Allowed(m, i)
                    /\ i < ct[m] \/ ct[m] = 0 => ~Allowed(m, i)
  BY DEF ChoiceExact
<1>1. AtRest
  BY SettledAtRest
<1>2. PICK P : P = ListOf(Current(m)[i])
  OBVIOUS
<1>3. ~WillTell(P)
  <2>1. \A x : Tells(x, P) => Rank(x) # 3
    BY DEF Tells, Rank
  <2> QED
    BY <1>1, <2>1 DEF WillTell, AtRest
<1>4. RightAbout(m, i)
  BY <1>2, <1>3 DEF ChoiceInv, ChoiceOf
<1>5. P \in Lists
  <2>1. state[m] \in DOMAIN Rules[m] /\ i \in DOMAIN Rules[m][state[m]]
    BY DEF ActorsInv, Typed, Current
  <2>2. ListOf(Rules[m][state[m]][i]) \in Lists
    BY <2>1, CurrentFacts
  <2> QED
    BY <1>2, <2>2 DEF Current
<1>6. P \in live <=> P \subseteq enabled
  BY <1>1, <1>5, RestFacts
<1>7. ASSUME NEW e \in P
      PROVE  e \in enabled <=> ~(e[3] > Count(e[1], e[2]))
  <2>1. e \in Events
    BY <1>5 DEF Events
  <2>2. e[1] \in Chan /\ e[2] \in Side /\ e[3] \in Int
    BY <2>1, EventFacts
  <2>3. /\ UpTo(e[1], e[2], Count(e[1], e[2])) /\ Count(e[1], e[2]) \in Int
        /\ EventAfter(e) <=> e \in enabled
    BY <1>1, <2>1, <2>2, RestFacts
  <2>4. e \in enabled <=> e[3] <= Count(e[1], e[2])
    BY <2>1, <2>3 DEF UpTo
  <2> QED
    BY <2>2, <2>3, <2>4
<1>8. P \in live <=> ~Missing(m, i)
  BY <1>2, <1>6, <1>7 DEF Missing
<1>9. check(m, i) <=> Allowed(m, i)
  BY <1>2, <1>8 DEF check, Allowed
<1> QED
  BY <1>4, <1>9 DEF RightAbout

-----------------------------------------------------------------------------
(* What a guard sees.                                                      *)

WaitsFor(m, e) == \E t \in Transitions : t[1] = m /\ e \in ListOf(RuleOf(t))

(* An event that has got to a list, or is on its way to one. *)
Spreading(e) ==
  \/ e \in enabled
  \/ \E P \in live : e \in P
  \/ \E x \in Due : x.call = "notify" /\ x.event = e
  \/ \E x \in Due : x.call = "list" /\ x.flag /\ e \in x.list

TooMuch(e) == e[3] > Count(e[1], e[2])

(* An event may promise too much only to the actor that took the tokens or *)
(* the places itself, and this one does not listen.                        *)
Promised ==
  \A e \in Events : Spreading(e) /\ TooMuch(e) => \A m \in Node : WaitsFor(m, e) => m = running

(* Nobody but the running actor waits at this end of FIFO c. *)
OwnEnd(c, side) ==
  \A e \in Events : e[1] = c /\ e[2] = side => \A m \in Node : WaitsFor(m, e) => m = running

OwnCall(x) ==
  /\ x.call # "resetChan"
  /\ x.call = "consume" => OwnEnd(x.chan, "data")
  /\ x.call = "produce" => OwnEnd(x.chan, "space")

PromiseInv == Promised /\ \A x \in Due : OwnCall(x)

(* Without a communication, only an event that spreads anew can promise    *)
(* too much.                                                               *)
LEMMA PromiseKept ==
  ASSUME PromiseInv, tok' = tok, running' = running,
         NEW h, NEW C, NEW R, Due = {h} \cup R, Due' = C \cup R,
         \A x \in C : x.call \notin {"resetChan", "consume", "produce"},
         \A e \in Events : Spreading(e)' => Spreading(e) \/ ~TooMuch(e)
  PROVE  PromiseInv'
<1>1. Promised'
  <2>1. \A e : TooMuch(e)' <=> TooMuch(e)
    BY DEF TooMuch, Count
  <2> QED
    BY <2>1 DEF PromiseInv, Promised
<1>2. ASSUME NEW x \in Due' PROVE OwnCall(x)'
  <2>1. CASE x \in C
    BY <2>1 DEF OwnCall
  <2>2. CASE x \in R
    <3>1. OwnCall(x)
      BY <2>2 DEF PromiseInv
    <3> QED
      BY <3>1 DEF OwnCall, OwnEnd
  <2> QED
    BY <2>1, <2>2
<1> QED
  BY <1>1, <1>2 DEF PromiseInv

(* A call that makes no list active and calls for none spreads nothing. *)
LEMMA SpreadsNothing ==
  ASSUME NEW h, NEW C, NEW R, Due = {h} \cup R, Due' = C \cup R,
         enabled' \subseteq enabled, live' \subseteq live,
         \A x \in C : x.call # "notify" /\ ~(x.call = "list" /\ x.flag)
  PROVE  \A e : Spreading(e)' => Spreading(e)
  BY DEF Spreading

(* At rest no event promises anything that is not there. *)
LEMMA RestPromised == ActorsInv /\ AtRest => Promised
<1> SUFFICES ASSUME ActorsInv, AtRest, NEW e \in Events, Spreading(e) PROVE ~TooMuch(e)
  BY DEF Promised
<1>1. \A x \in Due : x.call # "notify" /\ x.call # "list"
  BY DEF AtRest, Rank
<1>2. e \in enabled
  <2>1. CASE \E P \in live : e \in P
    <3>1. PICK P \in live : e \in P
      BY <2>1
    <3>2. P \in Lists
      BY DEF ActorsInv, Typed
    <3>3. P \subseteq enabled
      BY <3>2, RestFacts
    <3> QED
      BY <3>1, <3>3
  <2> QED
    BY <1>1, <2>1 DEF Spreading
<1>3. e[1] \in Chan /\ e[2] \in Side /\ e[3] \in Nat
  BY EventFacts
<1>4. /\ UpTo(e[1], e[2], Count(e[1], e[2])) /\ Count(e[1], e[2]) \in Int
      /\ EventAfter(e) <=> e \in enabled
  BY <1>3, RestFacts
<1>5. e[3] <= Count(e[1], e[2])
  BY <1>2, <1>4 DEF UpTo
<1> QED
  BY <1>3, <1>4, <1>5 DEF TooMuch

(* The same of the state that a step leads to.                             *)
LEMMA RestPromisedThen == ActorsInv' /\ AtRest' => Promised'
<1>1. ActorsInv /\ AtRest => Promised
  BY RestPromised
<1> QED
  BY <1>1, PTL

(* The end of a firing: nothing is due any more. *)
LEMMA NothingDue ==
  ASSUME ActorsInv', Due' = {}
  PROVE  PromiseInv'
<1>1. AtRest'
  BY DEF AtRest
<1>2. Promised'
  BY <1>1, RestPromisedThen
<1> QED
  BY <1>2 DEF PromiseInv

(* Event::notify calls a list only if all its events have spread.          *)
LEMMA NotifyPromise ==
  ASSUME ActorsInv, PromiseInv, notify
  PROVE  PromiseInv'
<1> DEFINE S == {P \in Lists : Head(todo).event \in P /\ P \subseteq enabled'}
           C == {ListCallOf(P, TRUE) : P \in S}
           R == Range(Tail(todo))
<1>1. todo # <<>> /\ Head(todo).call = "notify"
  BY DEF notify, Doing
<1>2. PICK order \in SetToSeqs(S) : Instead(AndLists(order, TRUE))
  BY DEF notify
<1>3. /\ UNCHANGED <<tok, live, state, ct, on, holds, pending, runnable, running>>
      /\ S \in SUBSET Lists /\ enabled' \in SUBSET Events
      /\ enabled' = enabled \cup {Head(todo).event}
  <2>1. Head(todo) \in Calls
    BY <1>1 DEF ActorsInv, Typed
  <2>2. Head(todo).event \in Events
    BY <1>1, <2>1, EventCallForm DEF EventCallNames
  <2> QED
    BY <2>2 DEF notify, ActorsInv, Typed
<1>4. \A x \in C : x.call = "list" /\ x.list \subseteq enabled'
  BY DEF ListCallOf
<1> HIDE DEF S
<1>5. Due = {Head(todo)} \cup R /\ Due' = C \cup R
  BY <1>1, <1>2, <1>3, EventTurn DEF EventCallNames
<1> HIDE DEF C, R
<1>6. \A e \in Events : Spreading(e)' => Spreading(e)
  <2>1. SUFFICES ASSUME NEW e \in Events, Spreading(e)' PROVE Spreading(e)
    OBVIOUS
  <2>2. e \in enabled' => Spreading(e)
    BY <1>1, <1>3, <1>5 DEF Spreading
  <2> QED
    BY <1>3, <1>4, <1>5, <2>1, <2>2 DEF Spreading
<1> QED
  BY <1>3, <1>4, <1>5, <1>6, PromiseKept

(* Event::reset takes an event back.                                       *)
LEMMA ResetEventPromise ==
  ASSUME ActorsInv, PromiseInv, resetEvent
  PROVE  PromiseInv'
<1> DEFINE S == {P \in live : Head(todo).event \in P}
           C == {ListCallOf(P, FALSE) : P \in S}
           R == Range(Tail(todo))
<1>1. todo # <<>> /\ Head(todo).call = "reset"
  BY DEF resetEvent, Doing
<1>2. PICK order \in SetToSeqs(S) : Instead(AndLists(order, FALSE))
  BY DEF resetEvent
<1>3. /\ UNCHANGED <<tok, live, state, ct, on, holds, pending, runnable, running>>
      /\ S \in SUBSET Lists /\ enabled' \in SUBSET Events /\ enabled' \subseteq enabled
  BY DEF resetEvent, ActorsInv, Typed
<1>4. \A x \in C : x.call = "list" /\ ~x.flag
  BY DEF ListCallOf
<1> HIDE DEF S
<1>5. Due = {Head(todo)} \cup R /\ Due' = C \cup R
  BY <1>1, <1>2, <1>3, EventTurn DEF EventCallNames
<1> HIDE DEF C, R
<1>6. \A e : Spreading(e)' => Spreading(e)
  BY <1>3, <1>4, <1>5, SpreadsNothing
<1> QED
  BY <1>3, <1>4, <1>5, <1>6, PromiseKept

(* Event::renotifyListener calls lists that are active.                    *)
LEMMA RenotifyPromise ==
  ASSUME ActorsInv, PromiseInv, renotifyListener
  PROVE  PromiseInv'
<1> DEFINE S == {P \in live : Head(todo).event \in P}
           C == {ListCallOf(P, TRUE) : P \in S}
           R == Range(Tail(todo))
<1>1. todo # <<>> /\ Head(todo).call = "renotify"
  BY DEF renotifyListener, Doing
<1>2. PICK order \in SetToSeqs(S) : Instead(AndLists(order, TRUE))
  BY DEF renotifyListener
<1>3. /\ UNCHANGED <<tok, live, state, ct, on, holds, pending, runnable, running>>
      /\ S \in SUBSET Lists /\ enabled' \in SUBSET Events /\ enabled' = enabled
  BY DEF renotifyListener, ActorsInv, Typed
<1>4. \A x \in C : x.call = "list" /\ x.list \in live
  BY DEF ListCallOf
<1> HIDE DEF S
<1>5. Due = {Head(todo)} \cup R /\ Due' = C \cup R
  BY <1>1, <1>2, <1>3, EventTurn DEF EventCallNames
<1> HIDE DEF C, R
<1>6. \A e \in Events : Spreading(e)' => Spreading(e)
  BY <1>3, <1>4, <1>5 DEF Spreading
<1> QED
  BY <1>3, <1>4, <1>5, <1>6, PromiseKept

(* A list becomes active by a call that was due.                           *)
LEMMA SignaledPromise ==
  ASSUME ActorsInv, PromiseInv, signaled
  PROVE  PromiseInv'
<1>1. todo # <<>> /\ Head(todo).call = "list" /\ todo \in Seq(Calls) /\ InOrder
  BY DEF signaled, Doing, ActorsInv, Typed
<1>2. PICK h : h = Head(todo)
  OBVIOUS
<1>3. /\ live' = IF h.flag THEN live \cup {h.list} ELSE live \ {h.list}
      /\ UNCHANGED <<tok, enabled, running>> /\ todo' = <<>> \o Tail(todo)
  BY <1>2 DEF signaled, Instead
<1>4. PICK R : R = Range(Tail(todo))
  OBVIOUS
<1>5. PICK none : none = {}
  OBVIOUS
<1>6. Due = {h} \cup R /\ Due' = none \cup R
  BY <1>1, <1>2, <1>3, <1>4, <1>5, Popped, Nothing
<1>7. \A e \in Events : Spreading(e)' => Spreading(e)
  <2>1. SUFFICES ASSUME NEW e \in Events, Spreading(e)' PROVE Spreading(e)
    OBVIOUS
  <2>2. \A P \in live' : P \in live \/ (h.flag /\ P = h.list)
    BY <1>3
  <2>3. h \in Due /\ h.call = "list" /\ Due' \subseteq Due
    BY <1>1, <1>2, <1>5, <1>6
  <2> QED
    BY <1>3, <2>1, <2>2, <2>3 DEF Spreading
<1>8. \A x \in none : x.call \notin {"resetChan", "consume", "produce"}
  BY <1>5
<1> QED
  BY <1>3, <1>6, <1>7, <1>8, PromiseKept

(* A walk notifies no event that is not reached. *)
LEMMA WalkPromise ==
  ASSUME ActorsInv, PromiseInv, walk
  PROVE  PromiseInv'
<1>1. todo # <<>> /\ Head(todo).call = "walk" /\ todo \in Seq(Calls) /\ InOrder
  BY DEF walk, Doing, ActorsInv, Typed
<1>2. Head(todo) \in Calls
  BY <1>1
<1>3. PICK c \in Chan, side \in Side, kind \in Kinds : Head(todo) = WalkCall(c, side, kind)
  BY <1>1, <1>2, WalkCallForm
<1>4. Head(todo).chan = c /\ Head(todo).side = side /\ Head(todo).kind = kind
  BY <1>3 DEF WalkCall
<1>5. PICK calls \in Walk(c, side, kind) : todo' = calls \o Tail(todo)
  <2>1. \E calls \in Walk(Head(todo).chan, Head(todo).side, Head(todo).kind) : Instead(calls)
    BY DEF walk
  <2>2. \E calls \in Walk(c, side, kind) : Instead(calls)
    BY <1>4, <2>1
  <2> QED
    BY <2>2 DEF Instead
<1> DEFINE S == WalkSet(c, side, kind)
           name == WalkName(c, side, kind)
           R == Range(Tail(todo))
<1>6. S \in SUBSET Thresholds(c, side)
  BY WalkShape
<1>7. PICK order \in SetToSeqs(S) : calls = EventSeq(name, c, side, order)
  BY WalkShape
<1>8. \A k \in S : /\ name[k] \in EventCallNames
                   /\ kind = "increasedCount" => name[k] = "notify"
                   /\ kind # "increasedCount" => name[k] # "notify"
  BY DEF WalkName, EventCallNames
<1>9. kind = "increasedCount" => \A k \in S : k <= Count(c, side)
  BY DEF WalkSet, notifiedBy
<1> HIDE DEF S, name
<1>10. IsFiniteSet(S) /\ \A n \in S : <<c, side, n>> \in Events /\ n \in Nat
  BY <1>6, MapFacts, FS_Subset
<1> DEFINE cs == EventSeq(name, c, side, order)
<1>11. /\ cs \in Seq(Calls)
       /\ Range(cs) = {OneEvent(name[n], <<c, side, n>>) : n \in S}
       /\ \A i, j \in DOMAIN cs : i < j => Fine(cs[i], cs[j])
  <2>1. \A j, k \in S : ~(name[j] = "notify" /\ name[k] = "reset")
    BY <1>8
  <2> QED
    BY <1>8, <1>10, <2>1, WalkedEvents
<1>12. PICK C : C = Range(calls)
  OBVIOUS
<1>13. calls \in Seq(Calls) /\ C = {OneEvent(name[n], <<c, side, n>>) : n \in S}
  BY <1>7, <1>11, <1>12
<1>14. Due = {Head(todo)} \cup R /\ Due' = C \cup R
  BY <1>1, <1>5, <1>12, <1>13, Popped
<1>15. \A x \in C : x.call \in EventCallNames
  BY <1>8, <1>13 DEF OneEvent
<1>16. UNCHANGED <<tok, enabled, live, running>>
  BY DEF walk
<1>17. Count(c, side) \in Int
  BY ActorsAssumption DEF Count, ActorsInv, Typed
<1>18. ASSUME NEW x \in C, x.call = "notify" PROVE ~TooMuch(x.event)
  <2>1. PICK n \in S : x = OneEvent(name[n], <<c, side, n>>)
    BY <1>13
  <2>2. x.call = name[n] /\ x.event = <<c, side, n>>
    BY <2>1 DEF OneEvent
  <2>3. n <= Count(c, side) /\ n \in Nat
    BY <1>8, <1>9, <1>10, <1>18, <2>2
  <2>4. ~(n > Count(c, side))
    BY <1>17, <2>3
  <2> QED
    BY <2>2, <2>4 DEF TooMuch
<1> HIDE DEF R
<1>19. ASSUME NEW e \in Events, Spreading(e)' PROVE Spreading(e) \/ ~TooMuch(e)
  <2>1. \A x \in C : x.call # "list"
    BY <1>15 DEF EventCallNames
  <2> QED
    BY <1>14, <1>16, <1>18, <1>19, <2>1 DEF Spreading
<1>20. \A x \in C : x.call \notin {"resetChan", "consume", "produce"}
  BY <1>15 DEF EventCallNames
<1> QED
  BY <1>14, <1>16, <1>19, <1>20, PromiseKept

(* A communication takes only from the running actor's own end of a FIFO,  *)
(* and gives to the other one.                                             *)
LEMMA CommPromise ==
  ASSUME ActorsInv, PromiseInv, NEW c \in Chan, NEW lose \in Side,
         NEW h, NEW C, NEW R, Due = {h} \cup R, Due' = C \cup R,
         \A x \in C : x.call = "walk",
         UNCHANGED <<enabled, live, running>>, OwnEnd(c, lose),
         \A d \in Chan : d # c => tok'[d] = tok[d],
         \A side \in Side : side # lose => Count(c, side)' >= Count(c, side),
         \A side \in Side : Count(c, side) \in Int /\ Count(c, side)' \in Int
  PROVE  PromiseInv'
<1>1. \A e : Spreading(e)' => Spreading(e)
  BY SpreadsNothing
<1>2. ASSUME NEW e \in Events, Spreading(e)', TooMuch(e)', NEW m \in Node, WaitsFor(m, e)
      PROVE  m = running
  <2>1. e[1] \in Chan /\ e[2] \in Side /\ e[3] \in Nat
    BY EventFacts
  <2>2. CASE e[1] = c /\ e[2] = lose
    BY <1>2, <2>2 DEF OwnEnd
  <2>3. CASE e[1] = c /\ e[2] # lose
    <3>1. PICK side \in Side : side = e[2]
      BY <2>1
    <3>2. e[3] > Count(c, side)'
      BY <1>2, <2>3, <3>1 DEF TooMuch, Count
    <3>3. e[3] > Count(c, side)
      BY <2>1, <2>3, <3>1, <3>2
    <3>4. TooMuch(e)
      BY <2>3, <3>1, <3>3 DEF TooMuch
    <3> QED
      BY <1>1, <1>2, <3>4 DEF PromiseInv, Promised
  <2>4. CASE e[1] # c
    <3>1. TooMuch(e)
      BY <1>2, <2>1, <2>4 DEF TooMuch, Count
    <3> QED
      BY <1>1, <1>2, <3>1 DEF PromiseInv, Promised
  <2> QED
    BY <2>2, <2>3, <2>4
<1>3. Promised'
  BY <1>2 DEF Promised, WaitsFor
<1>4. ASSUME NEW x \in Due' PROVE OwnCall(x)'
  <2>1. CASE x \in C
    BY <2>1 DEF OwnCall
  <2>2. CASE x \in R
    <3>1. OwnCall(x)
      BY <2>2 DEF PromiseInv
    <3> QED
      BY <3>1 DEF OwnCall, OwnEnd
  <2> QED
    BY <2>1, <2>2
<1> QED
  BY <1>3, <1>4 DEF PromiseInv

(* commExec of an input port takes the running actor's own tokens.         *)
LEMMA ConsumePromise ==
  ASSUME ActorsInv, PromiseInv, consume
  PROVE  PromiseInv'
<1>1. todo # <<>> /\ Head(todo).call = "consume" /\ todo \in Seq(Calls) /\ InOrder
  BY DEF consume, Doing, ActorsInv, Typed
<1>2. PICK c : c = Head(todo).chan
  OBVIOUS
<1>3. PICK n : n = Head(todo).n
  OBVIOUS
<1>4. c \in Chan /\ n \in Nat /\ Head(todo) \in Due
  BY <1>1, <1>2, <1>3, CommCallForm
<1>5. PICK kind : kind = ConsumeWalk(c)
  OBVIOUS
<1>6. PICK cs : cs = <<WalkCall(c, "data", kind), WalkCall(c, "space", "increasedCount")>>
  OBVIOUS
<1>7. /\ UNCHANGED <<enabled, live, running>> /\ todo' = cs \o Tail(todo)
      /\ tok' = [tok EXCEPT ![c] = tok[c] - n]
  BY <1>2, <1>3, <1>5, <1>6 DEF consume, Instead
<1>8. kind \in {"decreasedCount", "decreasedCountRenotify"}
  BY <1>5 DEF ConsumeWalk
<1>9. /\ cs \in Seq(Calls)
      /\ Range(cs) = {WalkCall(c, "data", kind), WalkCall(c, "space", "increasedCount")}
  BY <1>4, <1>6, <1>8, TwoWalks DEF Side
<1>10. PICK C : C = Range(cs)
  OBVIOUS
<1>11. PICK R : R = Range(Tail(todo))
  OBVIOUS
<1>12. Due = {Head(todo)} \cup R /\ Due' = C \cup R
  BY <1>1, <1>7, <1>9, <1>10, <1>11, Popped
<1>13. \A x \in C : x.call = "walk"
  BY <1>9, <1>10 DEF WalkCall
<1>14. OwnEnd(c, "data")
  BY <1>1, <1>2, <1>4 DEF PromiseInv, OwnCall
<1>15. tok \in [Chan -> Int] /\ Depth[c] \in Nat
  BY <1>4, ActorsAssumption DEF ActorsInv, Typed
<1>16. tok'[c] = tok[c] - n /\ tok[c] \in Int /\ \A d \in Chan : d # c => tok'[d] = tok[d]
  BY <1>4, <1>7, <1>15
<1>17. /\ Count(c, "space")' >= Count(c, "space")
       /\ \A side \in Side : Count(c, side) \in Int /\ Count(c, side)' \in Int
  BY <1>4, <1>15, <1>16, CountFacts DEF Side
<1>18. "data" \in Side /\ \A side \in Side : side # "data" => side = "space"
  BY DEF Side
<1>19. \A side \in Side : side # "data" => Count(c, side)' >= Count(c, side)
  BY <1>17, <1>18
<1> QED
  BY <1>4, <1>7, <1>12, <1>13, <1>14, <1>16, <1>17, <1>18, <1>19, CommPromise

(* commExec of an output port takes the running actor's own places.        *)
LEMMA ProducePromise ==
  ASSUME ActorsInv, PromiseInv, produce
  PROVE  PromiseInv'
<1>1. todo # <<>> /\ Head(todo).call = "produce" /\ todo \in Seq(Calls) /\ InOrder
  BY DEF produce, Doing, ActorsInv, Typed
<1>2. PICK c : c = Head(todo).chan
  OBVIOUS
<1>3. PICK n : n = Head(todo).n
  OBVIOUS
<1>4. c \in Chan /\ n \in Nat /\ Head(todo) \in Due
  BY <1>1, <1>2, <1>3, CommCallForm
<1>5. PICK cs : cs = <<WalkCall(c, "space", "decreasedCount"), WalkCall(c, "data", "increasedCount")>>
  OBVIOUS
<1>6. /\ UNCHANGED <<enabled, live, running>> /\ todo' = cs \o Tail(todo)
      /\ tok' = [tok EXCEPT ![c] = tok[c] + n]
  BY <1>2, <1>3, <1>5 DEF produce, Instead
<1>7. /\ cs \in Seq(Calls)
      /\ Range(cs) = {WalkCall(c, "space", "decreasedCount"), WalkCall(c, "data", "increasedCount")}
  BY <1>4, <1>5, TwoWalks DEF Side
<1>8. PICK C : C = Range(cs)
  OBVIOUS
<1>9. PICK R : R = Range(Tail(todo))
  OBVIOUS
<1>10. Due = {Head(todo)} \cup R /\ Due' = C \cup R
  BY <1>1, <1>6, <1>7, <1>8, <1>9, Popped
<1>11. \A x \in C : x.call = "walk"
  BY <1>7, <1>8 DEF WalkCall
<1>12. OwnEnd(c, "space")
  BY <1>1, <1>2, <1>4 DEF PromiseInv, OwnCall
<1>13. tok \in [Chan -> Int] /\ Depth[c] \in Nat
  BY <1>4, ActorsAssumption DEF ActorsInv, Typed
<1>14. tok'[c] = tok[c] + n /\ tok[c] \in Int /\ \A d \in Chan : d # c => tok'[d] = tok[d]
  BY <1>4, <1>6, <1>13
<1>15. /\ Count(c, "data")' >= Count(c, "data")
       /\ \A side \in Side : Count(c, side) \in Int /\ Count(c, side)' \in Int
  BY <1>4, <1>13, <1>14, CountFacts DEF Side
<1>16. "space" \in Side /\ \A side \in Side : side # "space" => side = "data"
  BY DEF Side
<1>17. \A side \in Side : side # "space" => Count(c, side)' >= Count(c, side)
  BY <1>15, <1>16
<1> QED
  BY <1>4, <1>6, <1>10, <1>11, <1>12, <1>14, <1>15, <1>16, <1>17, CommPromise

(* An actor that is reset or switched spreads nothing. *)
LEMMA TurnPromise ==
  ASSUME ActorsInv, PromiseInv, todo # <<>>, Instead(<<>>),
         Head(todo).call \in {"resetNode", "setActive"},
         UNCHANGED <<tok, enabled, live, running>>
  PROVE  PromiseInv'
<1>1. todo \in Seq(Calls) /\ InOrder /\ todo' = <<>> \o Tail(todo)
  BY DEF ActorsInv, Typed, Instead
<1>2. PICK R : R = Range(Tail(todo))
  OBVIOUS
<1>3. PICK none : none = {}
  OBVIOUS
<1>4. Due = {Head(todo)} \cup R /\ Due' = none \cup R
  BY <1>1, <1>2, <1>3, Popped, Nothing
<1>5. \A x \in none : /\ x.call \notin {"resetChan", "consume", "produce"}
                      /\ x.call # "notify" /\ ~(x.call = "list" /\ x.flag)
  BY <1>3
<1>6. \A e : Spreading(e)' => Spreading(e)
  BY <1>4, <1>5, SpreadsNothing
<1> QED
  BY <1>4, <1>5, <1>6, PromiseKept

(* A firing ends with all promises kept.                                   *)
LEMMA ExecutedPromise ==
  ASSUME ActorsInv, ActorsInv', NEW m \in Node, executed(m)
  PROVE  PromiseInv'
<1>1. /\ todo # <<>> /\ Head(todo).call = "executed" /\ todo' = <<>> \o Tail(todo)
      /\ UNCHANGED <<tok, enabled, live>>
  BY DEF executed, Doing, Instead
<1>2. PICK R : R = Range(Tail(todo))
  OBVIOUS
<1>3. Due' = R /\ \A y \in R : Fine(Head(todo), y)
  BY <1>1, <1>2, ActorTurn
<1>4. Due' = {}
  BY <1>1, <1>3, ExecutedLast
<1> QED
  BY <1>4, NothingDue

(* The ends of the FIFOs that a transition reads and writes are its        *)
(* actor's.                                                                *)
LEMMA Ends ==
  ASSUME PointToPoint, NEW t \in Transitions, NEW e \in Events, NEW m \in Node, WaitsFor(m, e)
  PROVE  /\ \A p \in Range(RuleOf(t).in) : e[1] = p.chan /\ e[2] = "data" => m = t[1]
         /\ \A p \in Range(RuleOf(t).out) : e[1] = p.chan /\ e[2] = "space" => m = t[1]
<1>1. PICK u \in Transitions : u[1] = m /\ e \in ListOf(RuleOf(u))
  BY DEF WaitsFor
<1>2. e[2] = "data" => \E q \in Range(RuleOf(u).in) : q.chan = e[1]
  BY <1>1 DEF ListOf, dataEvent, spaceEvent
<1>3. e[2] = "space" => \E q \in Range(RuleOf(u).out) : q.chan = e[1]
  BY <1>1 DEF ListOf, dataEvent, spaceEvent
<1>4. \A p \in Range(RuleOf(t).in) : \A q \in Range(RuleOf(u).in) : p.chan = q.chan => t[1] = u[1]
  BY DEF PointToPoint
<1>5. \A p \in Range(RuleOf(t).out) : \A q \in Range(RuleOf(u).out) : p.chan = q.chan => t[1] = u[1]
  BY DEF PointToPoint
<1>6. \A p \in Range(RuleOf(t).in) : e[1] = p.chan /\ e[2] = "data" => m = t[1]
  BY <1>1, <1>2, <1>4
<1>7. \A p \in Range(RuleOf(t).out) : e[1] = p.chan /\ e[2] = "space" => m = t[1]
  BY <1>1, <1>3, <1>5
<1> QED
  BY <1>6, <1>7

(* The communications of a firing are those of the running actor. *)
LEMMA SchedulePromise ==
  ASSUME PointToPoint, ActorsInv, PromiseInv, NEW m \in Node, schedule(m)
  PROVE  PromiseInv'
<1>1. running = m /\ todo = <<>> /\ m # None
  BY ActorsAssumption DEF schedule
<1>2. PICK rule : rule = Current(m)[ct[m]]
  OBVIOUS
<1>3. todo' = Execution(rule) /\ UNCHANGED <<tok, enabled, live, running>>
  BY <1>2 DEF schedule
<1>4. canFire(m)
  BY <1>1 DEF ActorsInv, Firing
<1>5. rule \in RuleSet(m) /\ WellFormed(rule)
  BY <1>1, <1>2, <1>4, ChosenFits
<1>6. PICK last : last = [call |-> "executed", dest |-> rule.dest]
  OBVIOUS
<1>7. PICK cs : cs = Execution(rule)
  OBVIOUS
<1>8. \A x \in Range(cs) : \/ x.call = "setActive"
                           \/ \E p \in Range(rule.in) : x = InCall(p)
                           \/ \E p \in Range(rule.out) : x = OutCall(p)
                           \/ x = last
  BY <1>5, <1>6, <1>7, ExecutionFine
<1>9. PICK C : C = Range(cs)
  OBVIOUS
<1>10. Due' = C /\ Due = {}
  BY <1>1, <1>3, <1>7, <1>9, Nothing DEF Due
<1>11. PICK t \in Transitions : t[1] = m /\ RuleOf(t) = rule
  <2>1. state[m] \in DOMAIN Rules[m] /\ ct[m] \in 0 .. Len(Rules[m][state[m]]) /\ ct[m] # 0
    BY <1>4 DEF ActorsInv, Typed, canFire
  <2>2. Rules[m][state[m]] \in Seq(RuleSet(m))
    BY <2>1, ActorsAssumption
  <2>3. ct[m] \in DOMAIN Rules[m][state[m]]
    BY <2>1, <2>2
  <2>4. PICK t : t = <<m, state[m], ct[m]>>
    OBVIOUS
  <2>5. t \in Transitions /\ RuleOf(t) = Rules[m][state[m]][ct[m]] /\ t[1] = m
    BY <2>1, <2>3, <2>4, TransitionFacts
  <2> QED
    BY <1>2, <2>5 DEF Current
<1>12. ASSUME NEW x \in C
       PROVE  /\ x.call \notin {"notify", "list", "resetChan"}
              /\ x.call = "consume" => \E p \in Range(rule.in) : p.chan = x.chan
              /\ x.call = "produce" => \E p \in Range(rule.out) : p.chan = x.chan
  <2>1. CASE x.call = "setActive" \/ x = last
    BY <1>6, <2>1
  <2>2. CASE \E p \in Range(rule.in) : x = InCall(p)
    BY <2>2 DEF InCall
  <2>3. CASE \E p \in Range(rule.out) : x = OutCall(p)
    BY <2>3 DEF OutCall
  <2> QED
    BY <1>8, <1>9, <2>1, <2>2, <2>3
<1>13. ASSUME NEW x \in C PROVE OwnCall(x)'
  <2>1. x.call = "consume" => OwnEnd(x.chan, "data")'
    BY <1>1, <1>3, <1>11, <1>12, Ends DEF OwnEnd
  <2>2. x.call = "produce" => OwnEnd(x.chan, "space")'
    BY <1>1, <1>3, <1>11, <1>12, Ends DEF OwnEnd
  <2> QED
    BY <1>12, <2>1, <2>2 DEF OwnCall
<1>14. Promised'
  <2>1. \A e : Spreading(e)' => Spreading(e)
    BY <1>3, <1>10, <1>12 DEF Spreading
  <2>2. \A e : TooMuch(e)' <=> TooMuch(e)
    BY <1>3 DEF TooMuch, Count
  <2> QED
    BY <1>3, <2>1, <2>2 DEF PromiseInv, Promised
<1> QED
  BY <1>10, <1>13, <1>14 DEF PromiseInv

(* Neither the kernel nor a method that starts spreads anything. *)
LEMMA UnmovedPromise ==
  ASSUME ActorsInv', PromiseInv, UNCHANGED <<tok, enabled, live, todo>>,
         running' = running \/ todo = <<>>
  PROVE  PromiseInv'
<1>1. Due' = Due
  BY DEF Due
<1>2. CASE running' = running
  <2>1. \A e : (Spreading(e)' <=> Spreading(e)) /\ (TooMuch(e)' <=> TooMuch(e))
    BY <1>1 DEF Spreading, TooMuch, Count
  <2>2. \A x : OwnCall(x)' <=> OwnCall(x)
    BY <1>2 DEF OwnCall, OwnEnd
  <2> QED
    BY <1>1, <1>2, <2>1, <2>2 DEF PromiseInv, Promised
<1>3. CASE todo = <<>>
  <2>1. Due' = {}
    BY <1>1, <1>3, Nothing DEF Due
  <2> QED
    BY <2>1, NothingDue
<1> QED
  BY <1>2, <1>3

(* No step lets an event promise too much to an actor that listens.        *)
LEMMA PromiseNext ==
  ASSUME PointToPoint
  PROVE  ActorsInv /\ ActorsInv' /\ PromiseInv /\ [Next]_vars => PromiseInv'
<1> SUFFICES ASSUME ActorsInv, ActorsInv', PromiseInv, [Next]_vars PROVE PromiseInv'
  OBVIOUS
<1>1. CASE resetScope \/ resetChan
  <2>1. todo # <<>> /\ Head(todo).call \in {"resetScope", "resetChan"} /\ todo \in Seq(Calls)
    BY <1>1 DEF resetScope, resetChan, Doing, ActorsInv, Typed
  <2>2. Head(todo) \in Calls /\ Head(todo) \in Due
    <3>1. Head(todo) \in Calls /\ Head(todo) = todo[1] /\ 1 \in DOMAIN todo
      BY <2>1
    <3> QED
      BY <3>1 DEF Due, Range
  <2>3. Head(todo).call # "resetChan"
    BY <2>2 DEF PromiseInv, OwnCall
  <2>4. Head(todo).call # "resetScope"
    BY <2>2, CallKinds DEF ScopeCall, PointToPoint
  <2> QED
    BY <2>1, <2>3, <2>4
<1>2. ASSUME NEW m \in Node, resetNode(m) PROVE PromiseInv'
  <2>1. /\ todo # <<>> /\ Instead(<<>>) /\ Head(todo).call \in {"resetNode", "setActive"}
        /\ UNCHANGED <<tok, enabled, live, running>>
    BY <1>2 DEF resetNode, Doing
  <2> QED
    BY <2>1, TurnPromise
<1>3. ASSUME NEW m \in Node, NEW flag \in BOOLEAN, setActive(m, flag) PROVE PromiseInv'
  <2>1. /\ todo # <<>> /\ Instead(<<>>) /\ Head(todo).call \in {"resetNode", "setActive"}
        /\ UNCHANGED <<tok, enabled, live, running>>
    BY <1>3 DEF setActive, Doing
  <2> QED
    BY <2>1, TurnPromise
<1>4. CASE Call
  BY <1>1, <1>2, <1>3, <1>4, NotifyPromise, ResetEventPromise, RenotifyPromise, SignaledPromise,
     WalkPromise, ConsumePromise, ProducePromise, ExecutedPromise
  DEF Call
<1>5. CASE NextDelta
  <2>1. UNCHANGED <<tok, enabled, live, todo>> /\ running' = running
    BY <1>5 DEF NextDelta
  <2> QED
    BY <2>1, UnmovedPromise
<1>6. ASSUME NEW m \in Node, schedule(m) PROVE PromiseInv'
  BY <1>6, SchedulePromise
<1>7. ASSUME NEW m \in Node, scheduleRequestMethod(m) PROVE PromiseInv'
  <2>1. UNCHANGED <<tok, enabled, live, todo>> /\ running = None
    BY <1>7 DEF scheduleRequestMethod
  <2>2. todo = <<>>
    BY <2>1 DEF ActorsInv, Firing
  <2> QED
    BY <2>1, <2>2, UnmovedPromise
<1>8. CASE UNCHANGED vars
  <2>1. UNCHANGED <<tok, enabled, live, todo>> /\ running' = running
    BY <1>8 DEF vars
  <2> QED
    BY <2>1, UnmovedPromise
<1> QED
  BY <1>4, <1>5, <1>6, <1>7, <1>8 DEF Next

(* At the start of the simulation the events tell the truth.               *)
LEMMA PromiseInit == Init => PromiseInv
<1> SUFFICES ASSUME Init PROVE PromiseInv
  OBVIOUS
<1>1. Due = {}
  BY Nothing DEF Init, Due
<1>2. AtRest
  BY <1>1 DEF AtRest
<1>3. Promised
  BY <1>2, ActorsInit, RestPromised
<1> QED
  BY <1>1, <1>3 DEF PromiseInv

(* What a listener's search evaluates has its tokens and places, as the    *)
(* listener is not the running actor.                                      *)
LEMMA SeesTokens ==
  ASSUME ActorsInv, PromiseInv', [Next]_vars, vars' # vars, Doing("list"), NEW m \in Node,
         Hears(m, Head(todo).list, Head(todo).flag)
  PROVE  ~EvaluatesInVain(m)'
<1>1. todo # <<>> /\ Head(todo).call = "list"
  BY DEF Doing
<1>2. signaled
  <2>1. running # None
    BY <1>1 DEF ActorsInv, Firing
  <2>2. Call
    BY <1>1, <2>1 DEF Next, NextDelta, schedule, scheduleRequestMethod
  <2> QED
    BY <1>1, <2>2 DEF Call, notify, resetEvent, renotifyListener, walk, consume, produce,
       resetScope, resetChan, resetNode, executed, setActive, Doing
<1>3. running' = running /\ state' = state /\ m # running
  BY <1>2 DEF signaled, Hears
<1>4. SUFFICES ASSUME EvaluatesInVain(m)' PROVE FALSE
  OBVIOUS
<1>5. PICK i \in DOMAIN Rules[m][state[m]] :
        ListOf(Rules[m][state[m]][i]) \in live' /\ Missing(m, i)'
  BY <1>3, <1>4 DEF EvaluatesInVain, Current
<1>6. PICK P : P = ListOf(Rules[m][state[m]][i])
  OBVIOUS
<1>7. PICK e \in P : TooMuch(e)'
  BY <1>3, <1>5, <1>6 DEF Missing, Current, TooMuch, Count
<1>8. PICK t : t = <<m, state[m], i>>
  OBVIOUS
<1>9. t \in Transitions /\ t[1] = m /\ ListOf(RuleOf(t)) = P
  <2>1. state[m] \in DOMAIN Rules[m]
    BY DEF ActorsInv, Typed
  <2> QED
    BY <1>6, <1>8, <2>1, TransitionFacts
<1>10. WaitsFor(m, e) /\ e \in Events
  BY <1>7, <1>9 DEF WaitsFor, Events, Lists
<1>11. Spreading(e)'
  BY <1>5, <1>6, <1>7 DEF Spreading
<1>12. m = running'
  BY <1>7, <1>10, <1>11 DEF PromiseInv, Promised, WaitsFor
<1> QED
  BY <1>3, <1>12

-----------------------------------------------------------------------------
(* The atomic firings.                                                     *)

Cleared(s, c)   == \E x \in Range(s) : Clears(x, c)
Restarted(s, m) == \E x \in Range(s) : Restarts(x, m)
Untouched(s, m) == \A x \in Range(s) : ~Switches(x, m)
LastOn(s, m)    == \E i \in DOMAIN s : /\ Switches(s[i], m) /\ s[i].flag
                                       /\ \A j \in DOMAIN s : i < j => ~Switches(s[j], m)

IsMove(x, name, c) == x.call = name /\ x.chan = c
Once(s, name, c)   == \A i, j \in DOMAIN s : IsMove(s[i], name, c) /\ IsMove(s[j], name, c) => i = j

LEMMA JoinedAt ==
  ASSUME NEW a, a \in Seq(Calls), NEW b, b \in Seq(Calls), NEW s, s = Joined(a, b), NEW n, n = Len(a)
  PROVE  /\ s \in Seq(Calls) /\ n \in Nat
         /\ \A i \in DOMAIN a : i \in DOMAIN s /\ s[i] = a[i] /\ i \in Nat /\ i <= n
         /\ \A i \in DOMAIN b : n + i \in DOMAIN s /\ s[n + i] = b[i] /\ i \in Nat /\ i > 0
         /\ \A k \in DOMAIN s : k \in DOMAIN a \/ \E i \in DOMAIN b : k = n + i
<1>1. PICK k : k = Len(b)
  OBVIOUS
<1>2. n \in Nat /\ k \in Nat /\ DOMAIN a = 1 .. n /\ DOMAIN b = 1 .. k
  BY <1>1
<1>3. /\ s \in Seq(Calls) /\ Len(s) = n + k
      /\ \A i \in 1 .. n : s[i] = a[i]
      /\ \A i \in 1 .. k : s[n + i] = b[i]
  BY <1>1 DEF Joined
<1>4. DOMAIN s = 1 .. n + k
  BY <1>3
<1>5. ASSUME NEW i \in DOMAIN s PROVE i \in DOMAIN a \/ \E j \in DOMAIN b : i = n + j
  <2>1. CASE i <= n
    BY <1>2, <1>4, <2>1
  <2>2. CASE ~(i <= n)
    <3>1. i - n \in 1 .. k /\ i = n + (i - n)
      BY <1>2, <1>4, <2>2
    <3> QED
      BY <1>2, <3>1
  <2> QED
    BY <2>1, <2>2
<1>6. \A i \in DOMAIN a : i \in DOMAIN s /\ s[i] = a[i] /\ i \in Nat /\ i <= n
  BY <1>2, <1>3, <1>4
<1>7. ASSUME NEW i \in DOMAIN b
      PROVE  n + i \in DOMAIN s /\ s[n + i] = b[i] /\ i \in Nat /\ i > 0
  <2>1. i \in 1 .. k
    BY <1>2
  <2>2. n + i \in 1 .. n + k /\ i \in Nat /\ i > 0
    BY <1>2, <2>1
  <2> QED
    BY <1>3, <1>4, <2>1, <2>2
<1> QED
  BY <1>2, <1>3, <1>5, <1>6, <1>7

LEMMA JoinedRange ==
  ASSUME NEW a, a \in Seq(Calls), NEW b, b \in Seq(Calls), NEW s, s = Joined(a, b)
  PROVE  Range(s) = Range(a) \cup Range(b)
<1>1. PICK n : n = Len(a)
  OBVIOUS
<1>2. /\ \A i \in DOMAIN a : i \in DOMAIN s /\ s[i] = a[i]
      /\ \A i \in DOMAIN b : n + i \in DOMAIN s /\ s[n + i] = b[i]
      /\ \A k \in DOMAIN s : k \in DOMAIN a \/ \E i \in DOMAIN b : k = n + i
  BY <1>1, JoinedAt
<1>3. \A x \in Range(s) : x \in Range(a) \cup Range(b)
  BY <1>2 DEF Range
<1>4. \A x \in Range(a) : x \in Range(s)
  BY <1>2 DEF Range
<1>5. \A x \in Range(b) : x \in Range(s)
  BY <1>2 DEF Range
<1> QED
  BY <1>3, <1>4, <1>5

LEMMA MovedOne ==
  ASSUME NEW s, NEW name, NEW c, Once(s, name, c), NEW i \in DOMAIN s, IsMove(s[i], name, c),
         \A j \in DOMAIN s : i < j => ~Clears(s[j], c)
  PROVE  Moved(s, name, c) = s[i].n
<1> DEFINE moves == {k \in DOMAIN s : /\ s[k].call = name /\ s[k].chan = c
                                      /\ \A j \in DOMAIN s : k < j => ~Clears(s[j], c)}
<1>1. i \in moves
  BY DEF IsMove
<1>2. \A k \in moves : k = i
  BY DEF IsMove, Once
<1>3. (CHOOSE k \in moves : TRUE) \in moves
  BY <1>1
<1>4. (CHOOSE k \in moves : TRUE) = i
  BY <1>2, <1>3
<1>5. moves # {}
  BY <1>1
<1>6. Moved(s, name, c) = IF moves = {} THEN 0 ELSE s[CHOOSE k \in moves : TRUE].n
  BY DEF Moved
<1> HIDE DEF moves
<1> QED
  BY <1>4, <1>5, <1>6

LEMMA MovedNone ==
  ASSUME NEW s, NEW name, NEW c,
         \A i \in DOMAIN s : IsMove(s[i], name, c) => \E j \in DOMAIN s : i < j /\ Clears(s[j], c)
  PROVE  Moved(s, name, c) = 0
<1> DEFINE moves == {k \in DOMAIN s : /\ s[k].call = name /\ s[k].chan = c
                                      /\ \A j \in DOMAIN s : k < j => ~Clears(s[j], c)}
<1>1. moves = {}
  BY DEF IsMove
<1>2. Moved(s, name, c) = IF moves = {} THEN 0 ELSE s[CHOOSE k \in moves : TRUE].n
  BY DEF Moved
<1> HIDE DEF moves
<1> QED
  BY <1>1, <1>2

LEMMA MovedNat ==
  ASSUME NEW s, s \in Seq(Calls), NEW name \in {"consume", "produce"}, NEW c
  PROVE  Moved(s, name, c) \in Nat
<1> DEFINE moves == {k \in DOMAIN s : /\ s[k].call = name /\ s[k].chan = c
                                      /\ \A j \in DOMAIN s : k < j => ~Clears(s[j], c)}
<1>1. \A i \in moves : s[i] \in Calls /\ s[i].call = name
  BY SeqElements
<1>2. \A i \in moves : s[i].n \in Nat
  BY <1>1, CallKinds DEF CommCall
<1>3. Moved(s, name, c) = IF moves = {} THEN 0 ELSE s[CHOOSE k \in moves : TRUE].n
  BY DEF Moved
<1>4. moves # {} => (CHOOSE k \in moves : TRUE) \in moves
  OBVIOUS
<1> HIDE DEF moves
<1> QED
  BY <1>2, <1>3, <1>4

(* Of two sequences of calls, one after the other, the later one decides   *)
(* how much is still moved if it resets the FIFO; if not, the one in which *)
(* the communication is.                                                   *)
LEMMA MovedJoined ==
  ASSUME NEW a, a \in Seq(Calls), NEW b, b \in Seq(Calls), NEW s, s = Joined(a, b),
         NEW name, NEW c, Once(s, name, c)
  PROVE  /\ Once(a, name, c) /\ Once(b, name, c)
         /\ Cleared(b, c) \/ (\A x \in Range(a) : ~IsMove(x, name, c)) =>
              Moved(s, name, c) = Moved(b, name, c)
         /\ ~Cleared(b, c) /\ (\A x \in Range(b) : ~IsMove(x, name, c)) =>
              Moved(s, name, c) = Moved(a, name, c)
         /\ (\E x \in Range(a) : IsMove(x, name, c)) => \A x \in Range(b) : ~IsMove(x, name, c)
<1>1. PICK n : n = Len(a)
  OBVIOUS
<1>2. /\ n \in Nat
      /\ \A i \in DOMAIN a : i \in DOMAIN s /\ s[i] = a[i] /\ i \in Nat /\ i <= n
      /\ \A i \in DOMAIN b : n + i \in DOMAIN s /\ s[n + i] = b[i] /\ i \in Nat /\ i > 0
      /\ \A k \in DOMAIN s : k \in DOMAIN a \/ \E i \in DOMAIN b : k = n + i
  BY <1>1, JoinedAt
<1>3. Once(a, name, c)
  BY <1>2 DEF Once
<1>4. Once(b, name, c)
  <2>1. SUFFICES ASSUME NEW i \in DOMAIN b, NEW j \in DOMAIN b, IsMove(b[i], name, c), IsMove(b[j], name, c)
                 PROVE  i = j
    BY DEF Once
  <2>2. n + i = n + j
    BY <1>2, <2>1 DEF Once
  <2> QED
    BY <1>2, <2>2
<1>5. ASSUME NEW i \in DOMAIN b, IsMove(b[i], name, c), \A j \in DOMAIN b : i < j => ~Clears(b[j], c)
      PROVE  Moved(s, name, c) = Moved(b, name, c)
  <2>1. Moved(b, name, c) = b[i].n
    BY <1>4, <1>5, MovedOne
  <2>2. ASSUME NEW k \in DOMAIN s, n + i < k PROVE ~Clears(s[k], c)
    <3>1. CASE k \in DOMAIN a
      BY <1>2, <2>2, <3>1
    <3>2. ASSUME NEW j \in DOMAIN b, k = n + j PROVE ~Clears(s[k], c)
      <4>1. i < j /\ s[k] = b[j]
        BY <1>2, <2>2, <3>2
      <4> QED
        BY <1>5, <4>1
    <3> QED
      BY <1>2, <3>1, <3>2
  <2>3. n + i \in DOMAIN s /\ s[n + i] = b[i]
    BY <1>2
  <2>4. Moved(s, name, c) = s[n + i].n
    BY <1>5, <2>2, <2>3, MovedOne
  <2> QED
    BY <2>1, <2>3, <2>4
<1>6. ASSUME NEW i \in DOMAIN a, NEW j \in DOMAIN b PROVE i < n + j
  BY <1>2
<1>7. ASSUME Cleared(b, c) \/ \A x \in Range(a) : ~IsMove(x, name, c),
             \A i \in DOMAIN b : IsMove(b[i], name, c) => \E j \in DOMAIN b : i < j /\ Clears(b[j], c)
      PROVE  Moved(s, name, c) = Moved(b, name, c)
  <2>1. Moved(b, name, c) = 0
    BY <1>7, MovedNone
  <2>2. ASSUME NEW k \in DOMAIN s, IsMove(s[k], name, c)
        PROVE  \E j \in DOMAIN s : k < j /\ Clears(s[j], c)
    <3>1. CASE k \in DOMAIN a
      <4>1. IsMove(a[k], name, c)
        BY <1>2, <2>2, <3>1
      <4>2. PICK j \in DOMAIN b : Clears(b[j], c)
        BY <1>7, <3>1, <4>1 DEF Cleared, Range
      <4> QED
        BY <1>2, <1>6, <3>1, <4>2
    <3>2. ASSUME NEW i \in DOMAIN b, k = n + i PROVE \E j \in DOMAIN s : k < j /\ Clears(s[j], c)
      <4>1. PICK j \in DOMAIN b : i < j /\ Clears(b[j], c)
        BY <1>2, <1>7, <2>2, <3>2
      <4>2. n + j \in DOMAIN s /\ k < n + j /\ s[n + j] = b[j]
        BY <1>2, <3>2, <4>1
      <4> QED
        BY <4>1, <4>2
    <3> QED
      BY <1>2, <3>1, <3>2
  <2>3. Moved(s, name, c) = 0
    BY <2>2, MovedNone
  <2> QED
    BY <2>1, <2>3
<1>8. ASSUME ~Cleared(b, c), \A x \in Range(b) : ~IsMove(x, name, c)
      PROVE  Moved(s, name, c) = Moved(a, name, c)
  <2>1. \A i \in DOMAIN b : ~IsMove(b[i], name, c) /\ ~Clears(b[i], c)
    BY <1>8 DEF Cleared, Range
  <2>2. CASE \E i \in DOMAIN a : IsMove(a[i], name, c) /\ \A j \in DOMAIN a : i < j => ~Clears(a[j], c)
    <3>1. PICK i \in DOMAIN a : IsMove(a[i], name, c) /\ \A j \in DOMAIN a : i < j => ~Clears(a[j], c)
      BY <2>2
    <3>2. Moved(a, name, c) = a[i].n
      BY <1>3, <3>1, MovedOne
    <3>3. \A j \in DOMAIN s : i < j => ~Clears(s[j], c)
      BY <1>2, <2>1, <3>1
    <3>4. i \in DOMAIN s /\ s[i] = a[i]
      BY <1>2
    <3>5. Moved(s, name, c) = s[i].n
      BY <3>1, <3>3, <3>4, MovedOne
    <3> QED
      BY <3>2, <3>4, <3>5
  <2>3. CASE \A i \in DOMAIN a : IsMove(a[i], name, c) => \E j \in DOMAIN a : i < j /\ Clears(a[j], c)
    <3>1. Moved(a, name, c) = 0
      BY <2>3, MovedNone
    <3>2. \A i \in DOMAIN s : IsMove(s[i], name, c) => \E j \in DOMAIN s : i < j /\ Clears(s[j], c)
      BY <1>2, <2>1, <2>3
    <3>3. Moved(s, name, c) = 0
      BY <3>2, MovedNone
    <3> QED
      BY <3>1, <3>3
  <2> QED
    BY <2>2, <2>3
<1>9. ASSUME NEW i \in DOMAIN a, IsMove(a[i], name, c), NEW j \in DOMAIN b, IsMove(b[j], name, c)
      PROVE  FALSE
  <2>1. i = n + j
    BY <1>2, <1>9 DEF Once
  <2> QED
    BY <1>2, <2>1
<1>10. (\E x \in Range(a) : IsMove(x, name, c)) => \A x \in Range(b) : ~IsMove(x, name, c)
  BY <1>9 DEF Range
<1>11. Cleared(b, c) \/ (\A x \in Range(a) : ~IsMove(x, name, c)) =>
         Moved(s, name, c) = Moved(b, name, c)
  BY <1>5, <1>7
<1> QED
  BY <1>3, <1>4, <1>8, <1>10, <1>11

LEMMA ClearedJoined ==
  ASSUME NEW a, a \in Seq(Calls), NEW b, b \in Seq(Calls), NEW s, s = Joined(a, b)
  PROVE  /\ \A c : Cleared(s, c) <=> Cleared(a, c) \/ Cleared(b, c)
         /\ \A m : Restarted(s, m) <=> Restarted(a, m) \/ Restarted(b, m)
         /\ \A m : Untouched(s, m) <=> Untouched(a, m) /\ Untouched(b, m)
<1>1. Range(s) = Range(a) \cup Range(b)
  BY JoinedRange
<1> QED
  BY <1>1 DEF Cleared, Restarted, Untouched

LEMMA LastOnJoined ==
  ASSUME NEW a, a \in Seq(Calls), NEW b, b \in Seq(Calls), NEW s, s = Joined(a, b), NEW m
  PROVE  LastOn(s, m) <=> LastOn(b, m) \/ (LastOn(a, m) /\ Untouched(b, m))
<1>1. PICK n : n = Len(a)
  OBVIOUS
<1>2. /\ n \in Nat
      /\ \A i \in DOMAIN a : i \in DOMAIN s /\ s[i] = a[i] /\ i \in Nat /\ i <= n
      /\ \A i \in DOMAIN b : n + i \in DOMAIN s /\ s[n + i] = b[i] /\ i \in Nat /\ i > 0
      /\ \A k \in DOMAIN s : k \in DOMAIN a \/ \E i \in DOMAIN b : k = n + i
  BY <1>1, JoinedAt
<1>3. ASSUME NEW i \in DOMAIN a, NEW j \in DOMAIN b PROVE i < n + j
  BY <1>2
<1>4. ASSUME NEW i \in DOMAIN b, NEW j \in DOMAIN b PROVE i < j <=> n + i < n + j
  BY <1>2
<1>5. ASSUME NEW i \in DOMAIN b, Switches(b[i], m), b[i].flag,
             \A j \in DOMAIN b : i < j => ~Switches(b[j], m)
      PROVE  LastOn(s, m)
  <2>1. ASSUME NEW k \in DOMAIN s, n + i < k PROVE ~Switches(s[k], m)
    <3>1. CASE k \in DOMAIN a
      BY <1>2, <2>1, <3>1
    <3>2. ASSUME NEW j \in DOMAIN b, k = n + j PROVE ~Switches(s[k], m)
      <4>1. i < j /\ s[k] = b[j]
        BY <1>2, <1>4, <2>1, <3>2
      <4> QED
        BY <1>5, <4>1
    <3> QED
      BY <1>2, <3>1, <3>2
  <2>2. n + i \in DOMAIN s /\ s[n + i] = b[i]
    BY <1>2
  <2> QED
    BY <1>5, <2>1, <2>2 DEF LastOn
<1>6. ASSUME NEW i \in DOMAIN a, Switches(a[i], m), a[i].flag, Untouched(b, m),
             \A j \in DOMAIN a : i < j => ~Switches(a[j], m)
      PROVE  LastOn(s, m)
  <2>1. \A j \in DOMAIN b : ~Switches(b[j], m)
    BY <1>6 DEF Untouched, Range
  <2>2. \A k \in DOMAIN s : i < k => ~Switches(s[k], m)
    BY <1>2, <1>6, <2>1
  <2>3. i \in DOMAIN s /\ s[i] = a[i]
    BY <1>2
  <2> QED
    BY <1>6, <2>2, <2>3 DEF LastOn
<1>7. ASSUME NEW k \in DOMAIN s, Switches(s[k], m), s[k].flag,
             \A j \in DOMAIN s : k < j => ~Switches(s[j], m)
      PROVE  LastOn(b, m) \/ (LastOn(a, m) /\ Untouched(b, m))
  <2>1. CASE k \in DOMAIN a
    <3>1. \A j \in DOMAIN b : ~Switches(b[j], m)
      BY <1>2, <1>3, <1>7, <2>1
    <3>2. Untouched(b, m)
      BY <3>1 DEF Untouched, Range
    <3>3. \A j \in DOMAIN a : k < j => ~Switches(a[j], m)
      BY <1>2, <1>7
    <3>4. s[k] = a[k]
      BY <1>2, <2>1
    <3> QED
      BY <1>7, <2>1, <3>2, <3>3, <3>4 DEF LastOn
  <2>2. ASSUME NEW i \in DOMAIN b, k = n + i PROVE LastOn(b, m)
    <3>1. \A j \in DOMAIN b : i < j => ~Switches(b[j], m)
      BY <1>2, <1>4, <1>7, <2>2
    <3>2. s[k] = b[i]
      BY <1>2, <2>2
    <3> QED
      BY <1>7, <3>1, <3>2 DEF LastOn
  <2> QED
    BY <1>2, <2>1, <2>2
<1> QED
  BY <1>5, <1>6, <1>7 DEF LastOn

(* A single call. *)
LEMMA OneCall ==
  ASSUME NEW x, x \in Calls, NEW s, s = <<x>>
  PROVE  /\ s \in Seq(Calls) /\ Range(s) = {x}
         /\ \A c : Cleared(s, c) <=> Clears(x, c)
         /\ \A m : Restarted(s, m) <=> Restarts(x, m)
         /\ \A m : Untouched(s, m) <=> ~Switches(x, m)
         /\ \A m : LastOn(s, m) <=> Switches(x, m) /\ x.flag
         /\ \A name, c : Moved(s, name, c) = IF IsMove(x, name, c) THEN x.n ELSE 0
<1>1. s \in Seq(Calls) /\ DOMAIN s = {1} /\ s[1] = x
  OBVIOUS
<1>2. Range(s) = {x}
  BY <1>1 DEF Range
<1>3. ~(1 < 1)
  OBVIOUS
<1>4. \A m : LastOn(s, m) <=> Switches(x, m) /\ x.flag
  BY <1>1, <1>3 DEF LastOn
<1>5. ASSUME NEW name, NEW c PROVE Moved(s, name, c) = IF IsMove(x, name, c) THEN x.n ELSE 0
  <2>1. Once(s, name, c)
    BY <1>1 DEF Once
  <2>2. CASE IsMove(x, name, c)
    <3>1. Moved(s, name, c) = s[1].n
      BY <1>1, <1>3, <2>1, <2>2, MovedOne
    <3> QED
      BY <1>1, <2>2, <3>1
  <2>3. CASE ~IsMove(x, name, c)
    BY <1>1, <2>3, MovedNone
  <2> QED
    BY <2>2, <2>3
<1> QED
  BY <1>1, <1>2, <1>4, <1>5 DEF Cleared, Restarted, Untouched

LEMMA OnceInOrder ==
  ASSUME NEW s, s \in Seq(Calls), \A i, j \in DOMAIN s : i < j => Fine(s[i], s[j]),
         NEW name \in {"consume", "produce"}, NEW c
  PROVE  Once(s, name, c)
<1>1. DOMAIN s = 1 .. Len(s) /\ Len(s) \in Nat
  OBVIOUS
<1>2. SUFFICES ASSUME NEW i \in DOMAIN s, NEW j \in DOMAIN s,
                      IsMove(s[i], name, c), IsMove(s[j], name, c), i # j
               PROVE  FALSE
  BY DEF Once
<1>3. i < j \/ j < i
  BY <1>1, <1>2
<1>4. CASE i < j
  BY <1>2, <1>4 DEF Fine, CommsFine, IsMove
<1>5. CASE j < i
  BY <1>2, <1>5 DEF Fine, CommsFine, IsMove
<1> QED
  BY <1>3, <1>4, <1>5

(* The first call of a sequence replaced by the calls it makes, none of    *)
(* which is a communication, a switch or the end of the firing.            *)
DirectNames == {"consume", "produce", "executed", "setActive"}
Ordered(s)  == \A i, j \in DOMAIN s : i < j => Fine(s[i], s[j])

(* What the replacement of h by cs, before r, does to the calls due. *)
Turn(t, u, h, r, cs) ==
  /\ \A c : /\ Cleared(t, c) <=> Clears(h, c) \/ Cleared(r, c)
            /\ Cleared(u, c) <=> Cleared(cs, c) \/ Cleared(r, c)
  /\ \A m : /\ Restarted(t, m) <=> Restarts(h, m) \/ Restarted(r, m)
            /\ Restarted(u, m) <=> Restarted(cs, m) \/ Restarted(r, m)
            /\ Untouched(t, m) <=> ~Switches(h, m) /\ Untouched(r, m)
            /\ Untouched(u, m) <=> Untouched(r, m)
            /\ LastOn(t, m) <=> LastOn(r, m) \/ (Switches(h, m) /\ h.flag /\ Untouched(r, m))
            /\ LastOn(u, m) <=> LastOn(r, m)
  /\ \A name \in {"consume", "produce"} : \A c :
       /\ Moved(r, name, c) \in Nat
       /\ Moved(u, name, c) = Moved(r, name, c)
       /\ ~IsMove(h, name, c) \/ Cleared(r, c) => Moved(t, name, c) = Moved(r, name, c)
       /\ IsMove(h, name, c) /\ ~Cleared(r, c) =>
            Moved(t, name, c) = h.n /\ Moved(r, name, c) = 0

LEMMA Turned ==
  ASSUME NEW h, h \in Calls, NEW one, one = <<h>>, NEW r, r \in Seq(Calls),
         NEW t, t = Joined(one, r), Ordered(t),
         NEW cs, cs \in Seq(Calls), \A x \in Range(cs) : x.call \notin DirectNames,
         NEW u, u = Joined(cs, r), Ordered(u)
  PROVE  Turn(t, u, h, r, cs)
<1>1. /\ one \in Seq(Calls) /\ Range(one) = {h}
      /\ \A c : Cleared(one, c) <=> Clears(h, c)
      /\ \A m : Restarted(one, m) <=> Restarts(h, m)
      /\ \A m : Untouched(one, m) <=> ~Switches(h, m)
      /\ \A m : LastOn(one, m) <=> Switches(h, m) /\ h.flag
      /\ \A name, c : Moved(one, name, c) = IF IsMove(h, name, c) THEN h.n ELSE 0
  BY OneCall
<1>2. t \in Seq(Calls) /\ u \in Seq(Calls)
  BY <1>1 DEF Joined
<1>3. /\ \A c : Cleared(t, c) <=> Cleared(one, c) \/ Cleared(r, c)
      /\ \A m : Restarted(t, m) <=> Restarted(one, m) \/ Restarted(r, m)
      /\ \A m : Untouched(t, m) <=> Untouched(one, m) /\ Untouched(r, m)
  BY <1>1, ClearedJoined
<1>4. /\ \A c : Cleared(u, c) <=> Cleared(cs, c) \/ Cleared(r, c)
      /\ \A m : Restarted(u, m) <=> Restarted(cs, m) \/ Restarted(r, m)
      /\ \A m : Untouched(u, m) <=> Untouched(cs, m) /\ Untouched(r, m)
  BY ClearedJoined
<1>5. \A m : LastOn(t, m) <=> LastOn(r, m) \/ (LastOn(one, m) /\ Untouched(r, m))
  BY <1>1, LastOnJoined
<1>6. \A m : LastOn(u, m) <=> LastOn(r, m) \/ (LastOn(cs, m) /\ Untouched(r, m))
  BY LastOnJoined
<1>7. \A m : Untouched(cs, m) /\ ~LastOn(cs, m)
  BY DEF Untouched, LastOn, Switches, DirectNames, Range
<1>8. ASSUME NEW name \in {"consume", "produce"}, NEW c
      PROVE  /\ Moved(r, name, c) \in Nat
             /\ Moved(u, name, c) = Moved(r, name, c)
             /\ ~IsMove(h, name, c) \/ Cleared(r, c) => Moved(t, name, c) = Moved(r, name, c)
             /\ IsMove(h, name, c) /\ ~Cleared(r, c) =>
                  Moved(t, name, c) = h.n /\ Moved(r, name, c) = 0
  <2>1. Moved(r, name, c) \in Nat
    BY MovedNat
  <2>2. Once(u, name, c) /\ Once(t, name, c)
    BY <1>2, OnceInOrder DEF Ordered
  <2>3. \A x \in Range(cs) : ~IsMove(x, name, c)
    BY DEF IsMove, DirectNames
  <2>4. Moved(u, name, c) = Moved(r, name, c)
    BY <2>2, <2>3, MovedJoined
  <2>5. /\ Cleared(r, c) \/ (\A x \in Range(one) : ~IsMove(x, name, c)) =>
             Moved(t, name, c) = Moved(r, name, c)
        /\ ~Cleared(r, c) /\ (\A x \in Range(r) : ~IsMove(x, name, c)) =>
             Moved(t, name, c) = Moved(one, name, c)
        /\ (\E x \in Range(one) : IsMove(x, name, c)) => \A x \in Range(r) : ~IsMove(x, name, c)
    <3>1. one \in Seq(Calls) /\ r \in Seq(Calls) /\ t = Joined(one, r)
      BY <1>1
    <3> QED
      BY ONLY <2>2, <3>1, MovedJoined
  <2>6. ASSUME \A x \in Range(r) : ~IsMove(x, name, c) PROVE Moved(r, name, c) = 0
    <3>1. \A i \in DOMAIN r : ~IsMove(r[i], name, c)
      BY <2>6 DEF Range
    <3> QED
      BY <3>1, MovedNone
  <2> QED
    BY <1>1, <2>1, <2>4, <2>5, <2>6
<1> QED
  BY <1>1, <1>3, <1>4, <1>5, <1>6, <1>7, <1>8 DEF Turn

(* What a step of a cascade does to the calls due. *)
LEMMA AfterTurn ==
  ASSUME ActorsInv, InOrder', todo # <<>>,
         NEW cs, cs \in Seq(Calls), todo' = cs \o Tail(todo),
         \A x \in Range(cs) : x.call \notin DirectNames,
         NEW h, h = Head(todo), NEW r, r = Tail(todo)
  PROVE  h \in Calls /\ r \in Seq(Calls) /\ Turn(todo, todo', h, r, cs)
<1>1. todo \in Seq(Calls) /\ Ordered(todo)
  BY DEF ActorsInv, Typed, InOrder, Ordered
<1>2. PICK one : one = <<h>>
  OBVIOUS
<1>3. h \in Calls /\ r \in Seq(Calls) /\ todo = Joined(one, r)
  BY <1>1, <1>2 DEF Joined
<1>4. PICK t : t = todo
  OBVIOUS
<1>5. PICK u : u = todo'
  OBVIOUS
<1>6. Ordered(u)
  BY ONLY InOrder', <1>5 DEF InOrder, Ordered, Fine
<1>7. u = Joined(cs, r)
  BY <1>5 DEF Joined
<1>8. t = Joined(one, r) /\ Ordered(t)
  BY <1>1, <1>3, <1>4
<1>9. Turn(t, u, h, r, cs)
  <2>1. cs \in Seq(Calls) /\ \A x \in Range(cs) : x.call \notin DirectNames
    OBVIOUS
  <2> QED
    BY ONLY <1>2, <1>3, <1>6, <1>7, <1>8, <2>1, Turned
<1> QED
  BY <1>3, <1>4, <1>5, <1>9

(* The three values of the atomic graph, from the calls due and what holds *)
(* before them.                                                            *)
TokDue(s, n, c) ==
  (IF Cleared(s, c) THEN Marking[c] ELSE n) - Moved(s, "consume", c) + Moved(s, "produce", c)
StateDue(s, r, z, m) ==
  IF r = m /\ s # <<>> THEN Last(s).dest ELSE IF Restarted(s, m) THEN Initial[m] ELSE z
OnDue(s, f, m) == (f /\ Untouched(s, m)) \/ LastOn(s, m)

LEMMA AfterForms ==
  /\ TokAfter = [c \in Chan |-> TokDue(todo, tok[c], c)]
  /\ StateAfter = [m \in Node |-> StateDue(todo, running, state[m], m)]
  /\ OnAfter = [m \in Node |-> OnDue(todo, on[m], m)]
  BY DEF TokAfter, StateAfter, OnAfter, TokDue, StateDue, OnDue, Cleared, Restarted, Untouched,
         LastOn, Executing

LEMMA AfterFormsThen ==
  /\ TokAfter' = [c \in Chan |-> TokDue(todo', tok'[c], c)]
  /\ StateAfter' = [m \in Node |-> StateDue(todo', running', state'[m], m)]
  /\ OnAfter' = [m \in Node |-> OnDue(todo', on'[m], m)]
<1>1. TokAfter' = [c \in Chan |-> TokDue(todo', tok'[c], c)]
  BY DEF TokAfter, TokDue, Cleared
<1>2. StateAfter' = [m \in Node |-> StateDue(todo', running', state'[m], m)]
  BY DEF StateAfter, StateDue, Restarted, Executing
<1>3. OnAfter' = [m \in Node |-> OnDue(todo', on'[m], m)]
  BY DEF OnAfter, OnDue, Untouched, LastOn
<1> QED
  BY <1>1, <1>2, <1>3

SameAfter == TokAfter' = TokAfter /\ StateAfter' = StateAfter /\ OnAfter' = OnAfter

LEMMA PointwiseAfter ==
  ASSUME \A c \in Chan : TokDue(todo', tok'[c], c) = TokDue(todo, tok[c], c),
         \A m \in Node : StateDue(todo', running', state'[m], m) = StateDue(todo, running, state[m], m),
         \A m \in Node : OnDue(todo', on'[m], m) <=> OnDue(todo, on[m], m)
  PROVE  SameAfter
<1>1. [c \in Chan |-> TokDue(todo', tok'[c], c)] = [c \in Chan |-> TokDue(todo, tok[c], c)]
  OBVIOUS
<1>2. [m \in Node |-> StateDue(todo', running', state'[m], m)]
        = [m \in Node |-> StateDue(todo, running, state[m], m)]
  OBVIOUS
<1>3. \A m \in Node : OnDue(todo', on'[m], m) = OnDue(todo, on[m], m)
  BY DEF OnDue
<1>4. [m \in Node |-> OnDue(todo', on'[m], m)] = [m \in Node |-> OnDue(todo, on[m], m)]
  BY <1>3
<1> QED
  BY <1>1, <1>2, <1>4, AfterForms, AfterFormsThen DEF SameAfter

(* The firing ends with the same call. *)
LEMMA SameEnd ==
  ASSUME ActorsInv, todo # <<>>, Head(todo).call # "executed",
         NEW cs, cs \in Seq(Calls), todo' = cs \o Tail(todo)
  PROVE  todo' # <<>> /\ Last(todo') = Last(todo)
<1>1. todo \in Seq(Calls) /\ InOrder
  BY DEF ActorsInv, Typed
<1>2. PICK x \in Due : x.call = "executed"
  BY DEF ActorsInv, Firing
<1>3. PICK r : r = Tail(todo)
  OBVIOUS
<1>4. x \in Range(r)
  BY <1>1, <1>2, <1>3, Popped
<1>5. r \in Seq(Calls) /\ DOMAIN r # {} /\ Len(r) \in Nat
  BY <1>1, <1>3, <1>4 DEF Range
<1>6. Len(r) >= 1
  BY <1>5
<1>7. PICK u : u = cs \o r
  OBVIOUS
<1>8. u # <<>> /\ Last(u) = r[Len(r)]
  BY <1>5, <1>6, <1>7 DEF Last
<1>9. Last(todo) = r[Len(r)]
  BY <1>1, <1>3, <1>6 DEF Last
<1> QED
  BY <1>3, <1>7, <1>8, <1>9

(* The calls below a communication or a reset change nothing of it. *)
QuietNames == {"list", "walk"} \cup EventCallNames

LEMMA QuietAfter ==
  ASSUME ActorsInv, ActorsInv', todo # <<>>, Head(todo).call \in QuietNames,
         NEW cs, cs \in Seq(Calls), todo' = cs \o Tail(todo),
         \A x \in Range(cs) : x.call \in QuietNames,
         UNCHANGED <<tok, state, on, running>>
  PROVE  SameAfter
<1>1. InOrder'
  BY DEF ActorsInv
<1>2. PICK h : h = Head(todo)
  OBVIOUS
<1>3. PICK r : r = Tail(todo)
  OBVIOUS
<1>4. \A x \in Range(cs) : x.call \notin DirectNames
  BY DEF QuietNames, DirectNames, EventCallNames
<1>5. Turn(todo, todo', h, r, cs)
  <2>1. ActorsInv /\ todo # <<>> /\ cs \in Seq(Calls) /\ todo' = cs \o Tail(todo)
    OBVIOUS
  <2> QED
    BY ONLY <1>1, <1>2, <1>3, <1>4, <2>1, AfterTurn
<1>6. /\ \A c : ~Clears(h, c) /\ ~IsMove(h, "consume", c) /\ ~IsMove(h, "produce", c)
      /\ \A m : ~Restarts(h, m) /\ ~Switches(h, m)
      /\ h.call # "executed"
  BY <1>2 DEF Clears, Restarts, Switches, IsMove, QuietNames, EventCallNames
<1>7. /\ \A c : ~Cleared(cs, c)
      /\ \A m : ~Restarted(cs, m)
  BY DEF Cleared, Restarted, Clears, Restarts, QuietNames, EventCallNames
<1>8. \A c \in Chan : TokDue(todo', tok'[c], c) = TokDue(todo, tok[c], c)
  BY <1>5, <1>6, <1>7 DEF TokDue, Turn
<1>9. \A m \in Node : StateDue(todo', running', state'[m], m) = StateDue(todo, running, state[m], m)
  <2>1. todo' # <<>> /\ Last(todo') = Last(todo)
    BY <1>2, <1>6, SameEnd
  <2> QED
    BY <1>5, <1>6, <1>7, <2>1 DEF StateDue, Turn
<1>10. \A m \in Node : OnDue(todo', on'[m], m) <=> OnDue(todo, on[m], m)
  BY <1>5, <1>6 DEF OnDue, Turn
<1> QED
  BY <1>8, <1>9, <1>10, PointwiseAfter

LEMMA EventAfters ==
  ASSUME ActorsInv, ActorsInv', notify \/ resetEvent \/ renotifyListener
  PROVE  SameAfter
<1>1. /\ todo # <<>> /\ Head(todo).call \in EventCallNames
      /\ UNCHANGED <<tok, state, on, running>> /\ enabled' \in SUBSET Events
  <2>1. todo # <<>> /\ Head(todo).call \in EventCallNames /\ UNCHANGED <<tok, state, on, running>>
    BY DEF notify, resetEvent, renotifyListener, Doing, EventCallNames
  <2> QED
    BY <2>1 DEF ActorsInv, Typed
<1>2. \E S \in SUBSET Lists : \E flag \in BOOLEAN : \E order \in SetToSeqs(S) :
        Instead(AndLists(order, flag))
  <2>1. live \subseteq Lists
    BY DEF ActorsInv, Typed
  <2>2. CASE notify
    <3>1. PICK S \in SUBSET Lists : S = {P \in Lists : Head(todo).event \in P /\ P \subseteq enabled'}
      OBVIOUS
    <3> QED
      BY <2>2, <3>1 DEF notify
  <2>3. CASE resetEvent
    <3>1. PICK S \in SUBSET Lists : S = {P \in live : Head(todo).event \in P}
      BY <2>1
    <3> QED
      BY <2>3, <3>1 DEF resetEvent
  <2>4. CASE renotifyListener
    <3>1. PICK S \in SUBSET Lists : S = {P \in live : Head(todo).event \in P}
      BY <2>1
    <3> QED
      BY <2>4, <3>1 DEF renotifyListener
  <2> QED
    BY <2>2, <2>3, <2>4
<1>3. PICK S \in SUBSET Lists, flag \in BOOLEAN : \E order \in SetToSeqs(S) :
        Instead(AndLists(order, flag))
  BY <1>2
<1>4. PICK order \in SetToSeqs(S) : Instead(AndLists(order, flag))
  BY <1>3
<1>5. PICK cs : cs = AndLists(order, flag)
  OBVIOUS
<1>6. cs \in Seq(Calls) /\ Range(cs) = {ListCallOf(P, flag) : P \in S}
  BY <1>5, ListCalls
<1>7. todo' = cs \o Tail(todo)
  BY <1>4, <1>5 DEF Instead
<1>8. \A x \in Range(cs) : x.call \in QuietNames
  BY <1>6 DEF ListCallOf, QuietNames
<1>9. Head(todo).call \in QuietNames
  BY <1>1 DEF QuietNames
<1> QED
  BY <1>1, <1>6, <1>7, <1>8, <1>9, QuietAfter

LEMMA SignaledAfter ==
  ASSUME ActorsInv, ActorsInv', signaled
  PROVE  SameAfter
<1>1. /\ todo # <<>> /\ Head(todo).call \in QuietNames
      /\ UNCHANGED <<tok, state, on, running>>
  BY DEF signaled, Doing, QuietNames
<1>2. todo' = <<>> \o Tail(todo)
  BY DEF signaled, Instead
<1>3. <<>> \in Seq(Calls) /\ \A x \in Range(<<>>) : x.call \in QuietNames
  BY Nothing
<1>4. PICK cs : cs = <<>>
  OBVIOUS
<1>5. cs \in Seq(Calls) /\ todo' = cs \o Tail(todo) /\ \A x \in Range(cs) : x.call \in QuietNames
  BY <1>2, <1>3, <1>4
<1> QED
  BY <1>1, <1>5, QuietAfter

LEMMA WalkAfter ==
  ASSUME ActorsInv, ActorsInv', walk
  PROVE  SameAfter
<1>1. todo # <<>> /\ Head(todo).call = "walk" /\ todo \in Seq(Calls)
  BY DEF walk, Doing, ActorsInv, Typed
<1>2. Head(todo) \in Calls
  BY <1>1
<1>3. PICK c \in Chan, side \in Side, kind \in Kinds : Head(todo) = WalkCall(c, side, kind)
  BY <1>1, <1>2, WalkCallForm
<1>4. Head(todo).chan = c /\ Head(todo).side = side /\ Head(todo).kind = kind
  BY <1>3 DEF WalkCall
<1>5. PICK calls \in Walk(c, side, kind) : todo' = calls \o Tail(todo)
  <2>1. \E calls \in Walk(Head(todo).chan, Head(todo).side, Head(todo).kind) : Instead(calls)
    BY DEF walk
  <2>2. \E calls \in Walk(c, side, kind) : Instead(calls)
    BY <1>4, <2>1
  <2> QED
    BY <2>2 DEF Instead
<1> DEFINE S == WalkSet(c, side, kind)
           name == WalkName(c, side, kind)
<1>6. S \in SUBSET Thresholds(c, side)
  BY WalkShape
<1>7. PICK order \in SetToSeqs(S) : calls = EventSeq(name, c, side, order)
  BY WalkShape
<1>8. /\ \A k \in S : name[k] \in EventCallNames
      /\ \A j, k \in S : ~(name[j] = "notify" /\ name[k] = "reset")
  <2>1. \A k \in S : /\ name[k] \in EventCallNames
                     /\ kind = "increasedCount" => name[k] = "notify"
                     /\ kind # "increasedCount" => name[k] # "notify"
    BY DEF WalkName, EventCallNames
  <2> QED
    BY <2>1
<1> HIDE DEF S, name
<1>9. calls \in Seq(Calls) /\ \A x \in Range(calls) : x.call \in EventCallNames
  BY <1>6, <1>7, <1>8, WalkedSet
<1>10. \A x \in Range(calls) : x.call \in QuietNames
  BY <1>9 DEF QuietNames
<1>11. Head(todo).call \in QuietNames
  BY <1>1 DEF QuietNames
<1>12. UNCHANGED <<tok, state, on, running>>
  BY DEF walk
<1> QED
  BY <1>1, <1>5, <1>9, <1>10, <1>11, <1>12, QuietAfter

(* A call that restarts the actors that its calls restart, and switches    *)
(* none, leaves the states and flags as they will be.                      *)
LEMMA ActorsAfter ==
  ASSUME ActorsInv, ActorsInv', todo # <<>>, Head(todo).call \notin {"executed", "setActive"},
         NEW cs, cs \in Seq(Calls), todo' = cs \o Tail(todo),
         \A x \in Range(cs) : x.call \notin DirectNames,
         \A m \in Node : Restarted(cs, m) <=> Restarts(Head(todo), m),
         UNCHANGED <<state, on, running>>
  PROVE  /\ Turn(todo, todo', Head(todo), Tail(todo), cs)
         /\ \A m \in Node :
              StateDue(todo', running', state'[m], m) = StateDue(todo, running, state[m], m)
         /\ \A m \in Node : OnDue(todo', on'[m], m) <=> OnDue(todo, on[m], m)
<1>1. InOrder'
  BY DEF ActorsInv
<1>2. PICK h : h = Head(todo)
  OBVIOUS
<1>3. PICK r : r = Tail(todo)
  OBVIOUS
<1>4. /\ ActorsInv /\ todo # <<>> /\ cs \in Seq(Calls) /\ todo' = cs \o Tail(todo)
      /\ \A x \in Range(cs) : x.call \notin DirectNames
  OBVIOUS
<1>5. Turn(todo, todo', h, r, cs)
  BY ONLY <1>1, <1>2, <1>3, <1>4, AfterTurn
<1>6. todo' # <<>> /\ Last(todo') = Last(todo)
  BY <1>4, SameEnd
<1>7. \A m : ~Switches(h, m)
  BY <1>2 DEF Switches
<1>8. ASSUME NEW m \in Node
      PROVE  StateDue(todo', running', state'[m], m) = StateDue(todo, running, state[m], m)
  <2>1. Restarted(todo', m) <=> Restarted(todo, m)
    BY <1>2, <1>5 DEF Turn
  <2> QED
    BY <1>6, <2>1 DEF StateDue
<1>9. \A m \in Node : OnDue(todo', on'[m], m) <=> OnDue(todo, on[m], m)
  BY <1>5, <1>7 DEF OnDue, Turn
<1> QED
  BY <1>2, <1>3, <1>5, <1>8, <1>9

LEMMA WalksOnly ==
  ASSUME NEW c, NEW cs, Range(cs) \subseteq WalksOf(c, Kinds)
  PROVE  /\ \A x \in Range(cs) : x.call \notin DirectNames
         /\ \A m : ~Restarted(cs, m)
         /\ \A d : ~Cleared(cs, d)
<1>1. \A x \in Range(cs) : x.call = "walk"
  BY DEF WalksOf, WalkCall
<1> QED
  BY <1>1 DEF Restarted, Cleared, Restarts, Clears, DirectNames

(* A communication moves its tokens now instead of later. *)
LEMMA CommAfter ==
  ASSUME ActorsInv, ActorsInv', todo # <<>>, NEW h, h = Head(todo),
         h.call \in {"consume", "produce"}, NEW c, c = h.chan,
         NEW cs, cs \in Seq(Calls), todo' = cs \o Tail(todo),
         Range(cs) \subseteq WalksOf(c, Kinds),
         UNCHANGED <<state, on, running>>,
         NEW n, n = IF h.call = "consume" THEN tok[c] - h.n ELSE tok[c] + h.n,
         tok' = [tok EXCEPT ![c] = n]
  PROVE  SameAfter
<1>1. /\ \A x \in Range(cs) : x.call \notin DirectNames
      /\ \A m : ~Restarted(cs, m)
      /\ \A d : ~Cleared(cs, d)
  BY WalksOnly
<1>2. /\ \A m : ~Restarts(h, m)
      /\ \A d : ~Clears(h, d)
      /\ h.call \notin {"executed", "setActive"}
  BY DEF Restarts, Clears
<1>3. PICK r : r = Tail(todo)
  OBVIOUS
<1>4. /\ Turn(todo, todo', h, r, cs)
      /\ \A m \in Node :
           StateDue(todo', running', state'[m], m) = StateDue(todo, running, state[m], m)
      /\ \A m \in Node : OnDue(todo', on'[m], m) <=> OnDue(todo, on[m], m)
  BY <1>1, <1>2, <1>3, ActorsAfter
<1>5. c \in Chan /\ h.n \in Nat /\ tok \in [Chan -> Int]
  BY CommCallForm DEF ActorsInv, Typed
<1>6. ASSUME NEW d \in Chan PROVE TokDue(todo', tok'[d], d) = TokDue(todo, tok[d], d)
  <2>1. Cleared(todo, d) <=> Cleared(r, d)
    BY <1>2, <1>4 DEF Turn
  <2>2. Cleared(todo', d) <=> Cleared(r, d)
    BY <1>1, <1>4 DEF Turn
  <2>3. /\ Moved(todo', "consume", d) = Moved(r, "consume", d)
        /\ Moved(todo', "produce", d) = Moved(r, "produce", d)
        /\ Moved(r, "consume", d) \in Nat /\ Moved(r, "produce", d) \in Nat
        /\ ~IsMove(h, "consume", d) \/ Cleared(r, d) =>
             Moved(todo, "consume", d) = Moved(r, "consume", d)
        /\ ~IsMove(h, "produce", d) \/ Cleared(r, d) =>
             Moved(todo, "produce", d) = Moved(r, "produce", d)
        /\ IsMove(h, "consume", d) /\ ~Cleared(r, d) =>
             Moved(todo, "consume", d) = h.n /\ Moved(r, "consume", d) = 0
        /\ IsMove(h, "produce", d) /\ ~Cleared(r, d) =>
             Moved(todo, "produce", d) = h.n /\ Moved(r, "produce", d) = 0
    BY <1>4 DEF Turn
  <2>4. tok[d] \in Int /\ (d # c => tok'[d] = tok[d]) /\ (d = c => tok'[d] = n)
    BY <1>5
  <2>5. CASE d # c
    <3>1. ~IsMove(h, "consume", d) /\ ~IsMove(h, "produce", d)
      BY <2>5 DEF IsMove
    <3> QED
      BY <2>1, <2>2, <2>3, <2>4, <2>5, <3>1 DEF TokDue
  <2>6. CASE Cleared(r, d)
    BY <2>1, <2>2, <2>3, <2>6 DEF TokDue
  <2>7. CASE d = c /\ ~Cleared(r, d) /\ h.call = "consume"
    <3>1. IsMove(h, "consume", d) /\ ~IsMove(h, "produce", d)
      BY <2>7 DEF IsMove
    <3>2. tok'[d] = tok[d] - h.n
      BY <2>4, <2>7
    <3> QED
      BY <1>5, <2>1, <2>2, <2>3, <2>4, <2>7, <3>1, <3>2 DEF TokDue
  <2>8. CASE d = c /\ ~Cleared(r, d) /\ h.call = "produce"
    <3>1. ~IsMove(h, "consume", d) /\ IsMove(h, "produce", d)
      BY <2>8 DEF IsMove
    <3>2. tok'[d] = tok[d] + h.n
      BY <2>4, <2>8
    <3> QED
      BY <1>5, <2>1, <2>2, <2>3, <2>4, <2>8, <3>1, <3>2 DEF TokDue
  <2> QED
    BY <2>5, <2>6, <2>7, <2>8
<1> QED
  BY <1>4, <1>6, PointwiseAfter

LEMMA ConsumeAfter ==
  ASSUME ActorsInv, ActorsInv', consume
  PROVE  SameAfter
<1>1. todo # <<>> /\ Head(todo).call = "consume"
  BY DEF consume, Doing
<1>2. PICK h : h = Head(todo)
  OBVIOUS
<1>3. PICK c : c = h.chan
  OBVIOUS
<1>4. c \in Chan
  BY <1>1, <1>2, <1>3, CommCallForm
<1>5. PICK kind : kind = ConsumeWalk(c)
  OBVIOUS
<1>6. PICK cs : cs = <<WalkCall(c, "data", kind), WalkCall(c, "space", "increasedCount")>>
  OBVIOUS
<1>7. UNCHANGED <<state, on, running>> /\ todo' = cs \o Tail(todo)
  BY <1>2, <1>3, <1>5, <1>6 DEF consume, Instead
<1>8. kind \in {"decreasedCount", "decreasedCountRenotify"}
  BY <1>5 DEF ConsumeWalk
<1>9. cs \in Seq(Calls) /\ Range(cs) \subseteq WalksOf(c, Kinds)
  BY <1>4, <1>6, <1>8, TwoWalks DEF Side
<1>10. tok' = [tok EXCEPT ![c] = tok[c] - h.n]
  BY <1>2, <1>3 DEF consume
<1>11. PICK n : n = IF h.call = "consume" THEN tok[c] - h.n ELSE tok[c] + h.n
  OBVIOUS
<1>12. tok' = [tok EXCEPT ![c] = n]
  BY <1>1, <1>2, <1>10, <1>11
<1> QED
  BY <1>1, <1>2, <1>3, <1>7, <1>9, <1>11, <1>12, CommAfter

LEMMA ProduceAfter ==
  ASSUME ActorsInv, ActorsInv', produce
  PROVE  SameAfter
<1>1. todo # <<>> /\ Head(todo).call = "produce"
  BY DEF produce, Doing
<1>2. PICK h : h = Head(todo)
  OBVIOUS
<1>3. PICK c : c = h.chan
  OBVIOUS
<1>4. c \in Chan
  BY <1>1, <1>2, <1>3, CommCallForm
<1>5. PICK cs : cs = <<WalkCall(c, "space", "decreasedCount"), WalkCall(c, "data", "increasedCount")>>
  OBVIOUS
<1>6. UNCHANGED <<state, on, running>> /\ todo' = cs \o Tail(todo)
  BY <1>2, <1>3, <1>5 DEF produce, Instead
<1>7. cs \in Seq(Calls) /\ Range(cs) \subseteq WalksOf(c, Kinds)
  BY <1>4, <1>5, TwoWalks DEF Side
<1>8. tok' = [tok EXCEPT ![c] = tok[c] + h.n]
  BY <1>2, <1>3 DEF produce
<1>9. PICK n : n = IF h.call = "consume" THEN tok[c] - h.n ELSE tok[c] + h.n
  OBVIOUS
<1>10. tok' = [tok EXCEPT ![c] = n]
  BY <1>1, <1>2, <1>8, <1>9
<1> QED
  BY <1>1, <1>2, <1>3, <1>6, <1>7, <1>9, <1>10, CommAfter

(* A reset of a FIFO brings the initial tokens now instead of later. *)
LEMMA ResetChanAfter ==
  ASSUME ActorsInv, ActorsInv', resetChan
  PROVE  SameAfter
<1>1. todo # <<>> /\ Head(todo).call = "resetChan" /\ todo \in Seq(Calls) /\ InOrder
  BY DEF resetChan, Doing, ActorsInv, Typed
<1>2. PICK h : h = Head(todo)
  OBVIOUS
<1>3. PICK c : c = h.chan
  OBVIOUS
<1>4. c \in Chan
  <2>1. Head(todo) \in Calls
    BY <1>1
  <2> QED
    BY <1>1, <1>2, <1>3, <2>1, ResetCallForm
<1>5. PICK cs : cs = ResetWalks(c)
  OBVIOUS
<1>6. UNCHANGED <<state, on, running>> /\ todo' = cs \o Tail(todo)
  BY <1>2, <1>3, <1>5 DEF resetChan, Instead
<1>7. cs \in Seq(Calls) /\ Range(cs) \subseteq WalksOf(c, Kinds)
  BY <1>4, <1>5, FourWalks DEF Side
<1>8. /\ \A x \in Range(cs) : x.call \notin DirectNames
      /\ \A m : ~Restarted(cs, m)
      /\ \A d : ~Cleared(cs, d)
  BY <1>7, WalksOnly
<1>9. /\ \A m : ~Restarts(h, m)
      /\ \A d : Clears(h, d) <=> d = c
      /\ \A d : ~IsMove(h, "consume", d) /\ ~IsMove(h, "produce", d)
      /\ h.call \notin {"executed", "setActive"}
  BY <1>1, <1>2, <1>3 DEF Restarts, Clears, IsMove
<1>10. PICK r : r = Tail(todo)
  OBVIOUS
<1>11. /\ Turn(todo, todo', h, r, cs)
       /\ \A m \in Node :
            StateDue(todo', running', state'[m], m) = StateDue(todo, running, state[m], m)
       /\ \A m \in Node : OnDue(todo', on'[m], m) <=> OnDue(todo, on[m], m)
  BY <1>1, <1>2, <1>6, <1>7, <1>8, <1>9, <1>10, ActorsAfter
<1>12. tok' = [tok EXCEPT ![c] = Marking[c]] /\ tok \in [Chan -> Int]
  BY <1>2, <1>3 DEF resetChan, ActorsInv, Typed
<1>13. ASSUME NEW d \in Chan PROVE TokDue(todo', tok'[d], d) = TokDue(todo, tok[d], d)
  <2>1. /\ Cleared(todo, d) <=> d = c \/ Cleared(r, d)
        /\ Cleared(todo', d) <=> Cleared(r, d)
    BY <1>8, <1>9, <1>11 DEF Turn
  <2>2. /\ Moved(todo', "consume", d) = Moved(todo, "consume", d)
        /\ Moved(todo', "produce", d) = Moved(todo, "produce", d)
    BY <1>9, <1>11 DEF Turn
  <2>3. (d # c => tok'[d] = tok[d]) /\ (d = c => tok'[d] = Marking[d])
    BY <1>12
  <2> QED
    BY <2>1, <2>2, <2>3 DEF TokDue
<1> QED
  BY <1>11, <1>13, PointwiseAfter

(* All elements of a reset channel's sets get their calls. *)
LEMMA ResetsAll ==
  ASSUME NEW C, C \subseteq Chan, NEW M, M \subseteq Node,
         NEW chans, chans \in SetToSeqs(C), NEW nodes, nodes \in SetToSeqs(M),
         NEW cs, cs = ScopeResets(chans, nodes)
  PROVE  /\ \A c \in C : ChanReset(c) \in Range(cs)
         /\ \A m \in M : NodeReset(m) \in Range(cs)
<1>1. IsFiniteSet(C) /\ IsFiniteSet(M)
  BY ActorsAssumption, FS_Subset
<1>2. chans \in Seq(C) /\ nodes \in Seq(M) /\ Range(chans) = C /\ Range(nodes) = M
  BY <1>1, Orders
<1>3. PICK a : a = ChanResets(chans)
  OBVIOUS
<1>4. PICK b : b = NodeResets(nodes)
  OBVIOUS
<1>5. /\ \A i \in DOMAIN chans : a[i] = ChanReset(chans[i])
      /\ DOMAIN a = DOMAIN chans /\ a = [i \in DOMAIN chans |-> a[i]]
  BY <1>3 DEF Each, ChanResets
<1>6. /\ \A i \in DOMAIN nodes : b[i] = NodeReset(nodes[i])
      /\ DOMAIN b = DOMAIN nodes /\ b = [i \in DOMAIN nodes |-> b[i]]
  BY <1>4 DEF Each, NodeResets
<1>7. /\ \A i \in DOMAIN chans : chans[i] \in C
      /\ \A i \in DOMAIN nodes : nodes[i] \in M
  BY <1>2, SeqElements
<1>8. /\ \A c \in C : ChanReset(c) \in Calls
      /\ \A m \in M : NodeReset(m) \in Calls
  BY DEF ChanReset, NodeReset, Calls, ResetCall
<1>9. /\ Len(chans) \in Nat /\ DOMAIN chans = 1 .. Len(chans)
      /\ Len(nodes) \in Nat /\ DOMAIN nodes = 1 .. Len(nodes)
  BY <1>2
<1>10. a \in Seq(Calls)
  BY <1>5, <1>7, <1>8, <1>9
<1>11. b \in Seq(Calls)
  BY <1>6, <1>7, <1>8, <1>9
<1>12. cs = Joined(a, b)
  BY <1>3, <1>4 DEF ScopeResets, Joined
<1>13. Range(cs) = Range(a) \cup Range(b)
  BY <1>10, <1>11, <1>12, JoinedRange
<1>14. \A c \in C : ChanReset(c) \in Range(a)
  BY <1>2, <1>5 DEF Range
<1>15. \A m \in M : NodeReset(m) \in Range(b)
  BY <1>2, <1>6 DEF Range
<1> QED
  BY <1>13, <1>14, <1>15

LEMMA ResetScopeAfter ==
  ASSUME ActorsInv, ActorsInv', resetScope
  PROVE  SameAfter
<1>1. todo # <<>> /\ Head(todo).call = "resetScope" /\ todo \in Seq(Calls) /\ InOrder
  BY DEF resetScope, Doing, ActorsInv, Typed
<1>2. PICK C : C = ResetScope[Head(todo).chan].chans
  OBVIOUS
<1>3. PICK M : M = ResetScope[Head(todo).chan].nodes
  OBVIOUS
<1>4. C \subseteq Chan /\ M \subseteq Node
  <2>1. Head(todo).chan \in ResetChan
    BY <1>1, CallKinds DEF ScopeCall
  <2> QED
    BY <1>2, <1>3, <2>1, ActorsAssumption
<1>5. PICK chans \in SetToSeqs(C) : \E nodes \in SetToSeqs(M) :
        todo' = ScopeResets(chans, nodes) \o Tail(todo)
  BY <1>2, <1>3 DEF resetScope, Instead, Each, ChanReset, NodeReset, ChanResets, NodeResets, ScopeResets
<1>6. PICK nodes \in SetToSeqs(M) :
        todo' = ScopeResets(chans, nodes) \o Tail(todo)
  BY <1>5
<1>7. PICK cs : cs = ScopeResets(chans, nodes)
  OBVIOUS
<1>8. /\ cs \in Seq(Calls)
      /\ \A x \in Range(cs) : \/ \E c \in C : x = ChanReset(c)
                              \/ \E m \in M : x = NodeReset(m)
      /\ \A c \in C : ChanReset(c) \in Range(cs)
      /\ \A m \in M : NodeReset(m) \in Range(cs)
  <2>1. chans \in SetToSeqs(C) /\ nodes \in SetToSeqs(M)
    OBVIOUS
  <2> QED
    BY ONLY <1>4, <1>7, <2>1, ResetCalls, ResetsAll
<1>9. \A x \in Range(cs) : x.call \notin DirectNames
  BY <1>8 DEF ChanReset, NodeReset, DirectNames
<1>10. PICK h : h = Head(todo)
  OBVIOUS
<1>11. /\ todo' = cs \o Tail(todo)
       /\ UNCHANGED <<tok, state, on, running>>
  BY <1>6, <1>7 DEF resetScope
<1>12. \A d : Cleared(cs, d) <=> d \in C
  <2>1. \A c, d : Clears(ChanReset(c), d) <=> c = d
    BY DEF Clears, ChanReset
  <2>2. \A m, d : ~Clears(NodeReset(m), d)
    BY DEF Clears, NodeReset
  <2> QED
    BY ONLY <1>8, <2>1, <2>2 DEF Cleared
<1>13. \A m : Restarted(cs, m) <=> m \in M
  <2>1. \A n, m : Restarts(NodeReset(n), m) <=> n = m
    BY DEF Restarts, NodeReset
  <2>2. \A c, m : ~Restarts(ChanReset(c), m)
    BY DEF Restarts, ChanReset
  <2> QED
    BY ONLY <1>8, <2>1, <2>2 DEF Restarted
<1>14. /\ \A d : Clears(h, d) <=> d \in C
       /\ \A m : Restarts(h, m) <=> m \in M
       /\ \A d : ~IsMove(h, "consume", d) /\ ~IsMove(h, "produce", d)
       /\ h.call \notin {"executed", "setActive"}
  BY <1>1, <1>2, <1>3, <1>10 DEF Restarts, Clears, IsMove
<1>15. PICK r : r = Tail(todo)
  OBVIOUS
<1>16. /\ Turn(todo, todo', h, r, cs)
       /\ \A m \in Node :
            StateDue(todo', running', state'[m], m) = StateDue(todo, running, state[m], m)
       /\ \A m \in Node : OnDue(todo', on'[m], m) <=> OnDue(todo, on[m], m)
  BY <1>1, <1>8, <1>9, <1>10, <1>11, <1>13, <1>14, <1>15, ActorsAfter
<1>17. ASSUME NEW d \in Chan PROVE TokDue(todo', tok'[d], d) = TokDue(todo, tok[d], d)
  <2>1. Cleared(todo, d) <=> Cleared(todo', d)
    BY <1>12, <1>14, <1>16 DEF Turn
  <2>2. /\ Moved(todo', "consume", d) = Moved(todo, "consume", d)
        /\ Moved(todo', "produce", d) = Moved(todo, "produce", d)
    BY <1>14, <1>16 DEF Turn
  <2> QED
    BY <1>11, <2>1, <2>2 DEF TokDue
<1> QED
  BY <1>16, <1>17, PointwiseAfter

(* A call that makes no others.                                            *)
LEMMA LoneTurn ==
  ASSUME ActorsInv, ActorsInv', todo # <<>>, todo' = <<>> \o Tail(todo),
         NEW h, h = Head(todo), NEW r, r = Tail(todo)
  PROVE  /\ Turn(todo, todo', h, r, <<>>)
         /\ \A m : ~Restarted(<<>>, m)
         /\ \A c : ~Cleared(<<>>, c)
<1>1. InOrder' /\ ActorsInv
  BY DEF ActorsInv
<1>2. <<>> \in Seq(Calls) /\ \A x \in Range(<<>>) : x.call \notin DirectNames
  BY Nothing
<1>3. PICK cs : cs = <<>>
  OBVIOUS
<1>4. cs \in Seq(Calls) /\ (\A x \in Range(cs) : x.call \notin DirectNames) /\ todo # <<>>
  BY <1>2, <1>3
<1>5. todo' = cs \o Tail(todo) /\ h = Head(todo) /\ r = Tail(todo)
  BY <1>3
<1>6. Turn(todo, todo', h, r, cs)
  BY ONLY <1>1, <1>4, <1>5, AfterTurn
<1> QED
  BY <1>3, <1>6, Nothing DEF Restarted, Cleared

(* A call to one actor leaves the tokens as they will be. *)
LEMMA LoneTokens ==
  ASSUME NEW t, NEW u, NEW h, NEW r, Turn(t, u, h, r, <<>>), \A c : ~Cleared(<<>>, c),
         h.call \notin {"consume", "produce", "resetChan", "resetScope"}, NEW n, NEW c
  PROVE  TokDue(u, n, c) = TokDue(t, n, c)
<1>1. ~Clears(h, c) /\ ~IsMove(h, "consume", c) /\ ~IsMove(h, "produce", c)
  BY DEF Clears, IsMove
<1>2. Cleared(u, c) <=> Cleared(t, c)
  BY <1>1 DEF Turn
<1>3. /\ Moved(u, "consume", c) = Moved(t, "consume", c)
      /\ Moved(u, "produce", c) = Moved(t, "produce", c)
  BY <1>1 DEF Turn
<1> QED
  BY <1>2, <1>3 DEF TokDue

LEMMA ResetNodeAfter ==
  ASSUME ActorsInv, ActorsInv', NEW m \in Node, resetNode(m)
  PROVE  SameAfter
<1>1. /\ todo # <<>> /\ Head(todo).call = "resetNode" /\ Head(todo).node = m
      /\ todo' = <<>> \o Tail(todo)
      /\ state' = [state EXCEPT ![m] = Initial[m]]
      /\ UNCHANGED <<tok, on, running>>
  BY DEF resetNode, Doing, Instead
<1>2. PICK h : h = Head(todo)
  OBVIOUS
<1>3. PICK r : r = Tail(todo)
  OBVIOUS
<1>4. /\ Turn(todo, todo', h, r, <<>>)
      /\ \A n : ~Restarted(<<>>, n)
      /\ \A c : ~Cleared(<<>>, c)
  BY <1>1, <1>2, <1>3, LoneTurn
<1>5. /\ \A n : Restarts(h, n) <=> n = m
      /\ \A n : ~Switches(h, n)
  BY <1>1, <1>2 DEF Restarts, Switches
<1>6. todo' # <<>> /\ Last(todo') = Last(todo)
  <2>1. <<>> \in Seq(Calls) /\ Head(todo).call # "executed"
    BY <1>1, Nothing
  <2> QED
    BY <1>1, <2>1, SameEnd
<1>7. \A c \in Chan : TokDue(todo', tok'[c], c) = TokDue(todo, tok[c], c)
  <2>1. h.call \notin {"consume", "produce", "resetChan", "resetScope"}
    BY <1>1, <1>2
  <2> QED
    BY <1>1, <1>4, <2>1, LoneTokens
<1>8. ASSUME NEW n \in Node
      PROVE  StateDue(todo', running', state'[n], n) = StateDue(todo, running, state[n], n)
  <2>1. /\ Restarted(todo, n) <=> n = m \/ Restarted(Tail(todo), n)
        /\ Restarted(todo', n) <=> Restarted(Tail(todo), n)
    BY <1>3, <1>4, <1>5 DEF Turn
  <2>2. DOMAIN state = Node
    BY DEF ActorsInv, Typed
  <2>3. (n # m => state'[n] = state[n]) /\ (n = m => state'[n] = Initial[n])
    BY <1>1, <2>2
  <2> QED
    BY <1>1, <1>6, <2>1, <2>3 DEF StateDue
<1>9. \A n \in Node : OnDue(todo', on'[n], n) <=> OnDue(todo, on[n], n)
  BY <1>1, <1>4, <1>5 DEF OnDue, Turn
<1> QED
  BY <1>7, <1>8, <1>9, PointwiseAfter

LEMMA SetActiveAfter ==
  ASSUME ActorsInv, ActorsInv', NEW m \in Node, NEW flag \in BOOLEAN, setActive(m, flag)
  PROVE  SameAfter
<1>1. /\ todo # <<>> /\ Head(todo).call = "setActive" /\ Head(todo).node = m
      /\ Head(todo).flag = flag
      /\ todo' = <<>> \o Tail(todo)
      /\ on' = [on EXCEPT ![m] = flag]
      /\ UNCHANGED <<tok, state, running>>
  BY DEF setActive, Doing, Instead
<1>2. PICK h : h = Head(todo)
  OBVIOUS
<1>3. PICK r : r = Tail(todo)
  OBVIOUS
<1>4. /\ Turn(todo, todo', h, r, <<>>)
      /\ \A n : ~Restarted(<<>>, n)
      /\ \A c : ~Cleared(<<>>, c)
  BY <1>1, <1>2, <1>3, LoneTurn
<1>5. /\ \A n : ~Restarts(h, n)
      /\ \A n : Switches(h, n) <=> n = m
      /\ h.flag = flag
  BY <1>1, <1>2 DEF Restarts, Switches
<1>6. todo' # <<>> /\ Last(todo') = Last(todo)
  <2>1. <<>> \in Seq(Calls) /\ Head(todo).call # "executed"
    BY <1>1, Nothing
  <2> QED
    BY <1>1, <2>1, SameEnd
<1>7. \A c \in Chan : TokDue(todo', tok'[c], c) = TokDue(todo, tok[c], c)
  <2>1. h.call \notin {"consume", "produce", "resetChan", "resetScope"}
    BY <1>1, <1>2
  <2> QED
    BY <1>1, <1>4, <2>1, LoneTokens
<1>8. ASSUME NEW n \in Node
      PROVE  StateDue(todo', running', state'[n], n) = StateDue(todo, running, state[n], n)
  <2>1. Restarted(todo, n) <=> Restarted(todo', n)
    BY <1>4, <1>5 DEF Turn
  <2> QED
    BY <1>1, <1>6, <2>1 DEF StateDue
<1>9. ASSUME NEW n \in Node PROVE OnDue(todo', on'[n], n) <=> OnDue(todo, on[n], n)
  <2>1. on \in [Node -> BOOLEAN]
    BY DEF ActorsInv, Typed
  <2>2. (n # m => on'[n] = on[n]) /\ (n = m => on'[n] = flag)
    BY <1>1, <2>1
  <2>3. /\ Untouched(todo, n) <=> n # m /\ Untouched(r, n)
        /\ Untouched(todo', n) <=> Untouched(r, n)
        /\ LastOn(todo, n) <=> LastOn(r, n) \/ (n = m /\ flag /\ Untouched(r, n))
        /\ LastOn(todo', n) <=> LastOn(r, n)
    BY <1>4, <1>5 DEF Turn
  <2>4. CASE n = m
    BY <2>2, <2>3, <2>4 DEF OnDue
  <2>5. CASE n # m
    BY <2>2, <2>3, <2>5 DEF OnDue
  <2> QED
    BY <2>4, <2>5
<1> QED
  BY <1>7, <1>8, <1>9, PointwiseAfter

(* The end of a firing: the actor gets the state that it was going to get. *)
LEMMA ExecutedAfter ==
  ASSUME ActorsInv, ActorsInv', NEW m \in Node, executed(m)
  PROVE  SameAfter
<1>1. /\ todo # <<>> /\ Head(todo).call = "executed" /\ running = m
      /\ todo' = <<>> \o Tail(todo)
      /\ state' = [state EXCEPT ![m] = Head(todo).dest]
      /\ UNCHANGED <<tok, on>>
  BY DEF executed, Doing, Instead
<1>2. PICK h : h = Head(todo)
  OBVIOUS
<1>3. PICK r : r = Tail(todo)
  OBVIOUS
<1>4. /\ Turn(todo, todo', h, r, <<>>)
      /\ \A n : ~Restarted(<<>>, n)
      /\ \A c : ~Cleared(<<>>, c)
  BY <1>1, <1>2, <1>3, LoneTurn
<1>5. /\ \A n : ~Restarts(h, n)
      /\ \A n : ~Switches(h, n)
  BY <1>1, <1>2 DEF Restarts, Switches
<1>6. todo \in Seq(Calls) /\ InOrder
  BY DEF ActorsInv, Typed
<1>7. Range(r) = {}
  <2>1. \A y \in Range(r) : Fine(h, y)
    BY <1>1, <1>2, <1>3, <1>6, HeadFirst
  <2> QED
    BY <1>1, <1>2, <2>1, ExecutedLast
<1>8. r = <<>> /\ todo' = <<>> /\ Last(todo) = h
  <2>1. r \in Seq(Calls)
    BY <1>1, <1>3, <1>6
  <2>2. DOMAIN r = {}
    BY <1>7 DEF Range
  <2>3. r = <<>>
    BY <2>1, <2>2
  <2>4. todo \in Seq(Calls) /\ todo # <<>> /\ Tail(todo) = r
    BY <1>1, <1>3, <1>6
  <2>5. Len(r) = Len(todo) - 1 /\ Len(todo) \in Nat
    BY ONLY <2>4
  <2>6. Len(r) = 0
    BY ONLY <2>3
  <2>7. Len(todo) = 1
    BY ONLY <2>5, <2>6
  <2>8. Head(todo) = todo[1]
    BY ONLY <2>4
  <2>9. Last(todo) = Head(todo)
    BY ONLY <2>7, <2>8 DEF Last
  <2> QED
    BY <1>1, <1>2, <1>3, <2>3, <2>9
<1>9. \A c \in Chan : TokDue(todo', tok'[c], c) = TokDue(todo, tok[c], c)
  <2>1. h.call \notin {"consume", "produce", "resetChan", "resetScope"}
    BY <1>1, <1>2
  <2> QED
    BY <1>1, <1>4, <2>1, LoneTokens
<1>10. ASSUME NEW n \in Node
       PROVE  StateDue(todo', running', state'[n], n) = StateDue(todo, running, state[n], n)
  <2>1. ~Restarted(todo, n) /\ ~Restarted(todo', n)
    BY <1>4, <1>5, <1>8 DEF Turn
  <2>2. DOMAIN state = Node
    BY DEF ActorsInv, Typed
  <2>3. (n # m => state'[n] = state[n]) /\ (n = m => state'[n] = h.dest)
    BY <1>1, <1>2, <2>2
  <2> QED
    BY <1>1, <1>8, <2>1, <2>3 DEF StateDue
<1>11. \A n \in Node : OnDue(todo', on'[n], n) <=> OnDue(todo, on[n], n)
  BY <1>1, <1>4, <1>5 DEF OnDue, Turn
<1> QED
  BY <1>9, <1>10, <1>11, PointwiseAfter

(* No firing, no change. *)
LEMMA UnmovedAfter ==
  ASSUME ActorsInv, UNCHANGED <<tok, state, on, todo>>, running' = running \/ todo = <<>>
  PROVE  SameAfter
<1>1. \A m \in Node : StateDue(todo', running', state'[m], m) = StateDue(todo, running, state[m], m)
  BY DEF StateDue
<1> QED
  BY <1>1, PointwiseAfter

(* What the calls of a firing's parts come to. *)
LEMMA SwitchingDue ==
  ASSUME NEW m \in Node, NEW rule \in RuleSet(m), NEW a, a = Switching(rule)
  PROVE  /\ a \in Seq(Calls) /\ \A x \in Range(a) : x.call = "setActive"
         /\ \A k : Untouched(a, k) <=> \A s \in Range(rule.switch) : s.node # k
         /\ \A k : LastOn(a, k) <=>
              \E i \in DOMAIN rule.switch :
                /\ rule.switch[i].node = k /\ rule.switch[i].flag
                /\ \A j \in DOMAIN rule.switch : i < j => rule.switch[j].node # k
<1>1. a \in Seq(Calls) /\ \A x \in Range(a) : x.call = "setActive"
  BY SwitchingFine
<1>2. PICK seq : seq = rule.switch
  OBVIOUS
<1>3. DOMAIN a = DOMAIN seq /\ \A i \in DOMAIN seq : a[i] = SwitchCall(seq[i])
  BY <1>2 DEF Switching, Each
<1>4. \A s, k : Switches(SwitchCall(s), k) <=> s.node = k
  BY DEF Switches, SwitchCall
<1>5. \A s : SwitchCall(s).flag = s.flag
  BY DEF SwitchCall
<1>6. \A k : Untouched(a, k) <=> \A s \in Range(seq) : s.node # k
  BY ONLY <1>3, <1>4 DEF Untouched, Range
<1>7. \A k : LastOn(a, k) <=>
        \E i \in DOMAIN seq : /\ seq[i].node = k /\ seq[i].flag
                              /\ \A j \in DOMAIN seq : i < j => seq[j].node # k
  BY ONLY <1>3, <1>4, <1>5 DEF LastOn
<1> QED
  BY <1>1, <1>2, <1>6, <1>7

LEMMA ConsumingDue ==
  ASSUME NEW m \in Node, NEW rule \in RuleSet(m), WellFormed(rule), NEW b, b = Consuming(rule)
  PROVE  /\ b \in Seq(Calls) /\ \A x \in Range(b) : x.call = "consume"
         /\ \A c : Moved(b, "consume", c) = Graph!Taken(rule, c)
<1>1. /\ b \in Seq(Calls) /\ \A x \in Range(b) : \E p \in Range(rule.in) : x = InCall(p)
      /\ \A i, j \in DOMAIN b : i < j => Fine(b[i], b[j])
  BY ConsumingFine
<1>2. PICK seq : seq = rule.in
  OBVIOUS
<1>3. DOMAIN b = DOMAIN seq /\ \A i \in DOMAIN seq : b[i] = InCall(seq[i])
  BY <1>2 DEF Consuming, Each
<1>4. \A p, c : /\ IsMove(InCall(p), "consume", c) <=> p.chan = c
                /\ InCall(p).n = p.c /\ InCall(p).call = "consume" /\ ~Clears(InCall(p), c)
  BY DEF IsMove, InCall, Clears
<1>5. ASSUME NEW c PROVE Moved(b, "consume", c) = Graph!Taken(rule, c)
  <2> DEFINE ports == {p \in Range(seq) : p.chan = c}
  <2>1. Graph!Taken(rule, c) = IF ports = {} THEN 0 ELSE (CHOOSE p \in ports : TRUE).c
    BY <1>2 DEF Graph!Taken, Graph!Range, Range
  <2>2. CASE ports = {}
    <3>1. \A i \in DOMAIN seq : seq[i].chan # c
      BY <2>2 DEF Range
    <3>2. \A i \in DOMAIN b : ~IsMove(b[i], "consume", c)
      BY <1>3, <1>4, <3>1
    <3>3. Moved(b, "consume", c) = 0
      BY <3>2, MovedNone
    <3> QED
      BY <2>1, <2>2, <3>3
  <2>3. CASE ports # {}
    <3>1. PICK p : p = CHOOSE q \in ports : TRUE
      OBVIOUS
    <3>2. p \in ports
      BY <2>3, <3>1
    <3>3. PICK i \in DOMAIN seq : seq[i] = p
      BY <3>2 DEF Range
    <3>4. p.chan = c
      BY <3>2
    <3>5. i \in DOMAIN b /\ IsMove(b[i], "consume", c) /\ b[i].n = p.c
      BY <1>3, <1>4, <3>3, <3>4
    <3>6. \A j \in DOMAIN b : ~Clears(b[j], c)
      BY <1>3, <1>4
    <3>7. Once(b, "consume", c)
      BY <1>1, OnceInOrder
    <3>8. Moved(b, "consume", c) = b[i].n
      BY <3>5, <3>6, <3>7, MovedOne
    <3> QED
      BY <2>1, <2>3, <3>1, <3>5, <3>8
  <2> QED
    BY <2>2, <2>3
<1>6. \A x \in Range(b) : x.call = "consume"
  BY <1>1, <1>4
<1> QED
  BY <1>1, <1>5, <1>6

LEMMA ProducingDue ==
  ASSUME NEW m \in Node, NEW rule \in RuleSet(m), WellFormed(rule), NEW d, d = Producing(rule)
  PROVE  /\ d \in Seq(Calls) /\ \A x \in Range(d) : x.call \in {"resetScope", "produce"}
         /\ \A c : Cleared(d, c) <=> \E p \in Range(rule.out) : Graph!Clears(p, c)
         /\ \A k : Restarted(d, k) <=> \E p \in Range(rule.out) : Graph!Restarts(p, k)
         /\ \A c \in Chan : Moved(d, "produce", c) = Graph!Produced(rule, c)
<1>1. d \in Seq(Calls) /\ \A x \in Range(d) : \E p \in Range(rule.out) : x = OutCall(p)
  BY ProducingFine
<1>2. PICK seq : seq = rule.out
  OBVIOUS
<1>3. DOMAIN d = DOMAIN seq /\ \A i \in DOMAIN seq : d[i] = OutCall(seq[i])
  BY <1>2 DEF Producing, Each
<1>4. \A p, c : Clears(OutCall(p), c) <=> Graph!Clears(p, c)
  BY DEF Clears, OutCall, resetEntry, Graph!Clears
<1>5. \A p, k : Restarts(OutCall(p), k) <=> Graph!Restarts(p, k)
  BY DEF Restarts, OutCall, resetEntry, Graph!Restarts
<1>6. \A p : /\ OutCall(p).call \in {"resetScope", "produce"}
             /\ OutCall(p).n = p.n /\ OutCall(p).chan = p.chan
             /\ OutCall(p).call = "produce" <=> p.chan \notin ResetChan
  BY DEF OutCall, resetEntry
<1>7. \A c : Cleared(d, c) <=> \E p \in Range(seq) : Graph!Clears(p, c)
  BY ONLY <1>3, <1>4 DEF Cleared, Range
<1>8. \A k : Restarted(d, k) <=> \E p \in Range(seq) : Graph!Restarts(p, k)
  BY ONLY <1>3, <1>5 DEF Restarted, Range
<1>9. ASSUME NEW c \in Chan PROVE Moved(d, "produce", c) = Graph!Produced(rule, c)
  <2> DEFINE moves == {i \in DOMAIN d : /\ d[i].call = "produce" /\ d[i].chan = c
                                        /\ \A j \in DOMAIN d : i < j => ~Clears(d[j], c)}
             ports == {i \in DOMAIN seq : /\ seq[i].chan = c
                                          /\ \A j \in DOMAIN seq : i < j => ~Graph!Clears(seq[j], c)}
  <2>1. Moved(d, "produce", c) = IF moves = {} THEN 0 ELSE d[CHOOSE i \in moves : TRUE].n
    BY DEF Moved
  <2>2. Graph!Produced(rule, c) = IF ports = {} THEN 0 ELSE seq[CHOOSE i \in ports : TRUE].n
    BY <1>2 DEF Graph!Produced
  <2>3. c \notin ResetChan
    BY ActorsAssumption
  <2>4. \A i \in DOMAIN seq : d[i].call = "produce" /\ d[i].chan = c <=> seq[i].chan = c
    BY <1>3, <1>6, <2>3
  <2>5. \A j \in DOMAIN seq : Clears(d[j], c) <=> Graph!Clears(seq[j], c)
    BY <1>3, <1>4
  <2>6. moves = ports
    BY ONLY <1>3, <2>4, <2>5
  <2>7. \A i \in ports : d[i].n = seq[i].n
    BY <1>3, <1>6
  <2>8. ports # {} => (CHOOSE i \in ports : TRUE) \in ports
    OBVIOUS
  <2> HIDE DEF moves, ports
  <2> QED
    BY <2>1, <2>2, <2>6, <2>7, <2>8
<1>10. \A x \in Range(d) : x.call \in {"resetScope", "produce"}
  BY <1>1, <1>6
<1> QED
  BY <1>1, <1>2, <1>7, <1>8, <1>9, <1>10

(* What a whole firing comes to. *)
Comes(cs, rule) ==
  /\ \A c : Cleared(cs, c) <=> \E p \in Range(rule.out) : Graph!Clears(p, c)
  /\ \A k : Restarted(cs, k) <=> \E p \in Range(rule.out) : Graph!Restarts(p, k)
  /\ \A c \in Chan : /\ Moved(cs, "consume", c) = (IF Cleared(cs, c) THEN 0 ELSE Graph!Taken(rule, c))
                     /\ Moved(cs, "produce", c) = Graph!Produced(rule, c)
  /\ \A k : Untouched(cs, k) <=> \A s \in Range(rule.switch) : s.node # k
  /\ \A k : LastOn(cs, k) <=>
       \E i \in DOMAIN rule.switch :
         /\ rule.switch[i].node = k /\ rule.switch[i].flag
         /\ \A j \in DOMAIN rule.switch : i < j => rule.switch[j].node # k

LEMMA NoSwitches ==
  ASSUME NEW s, \A x \in Range(s) : x.call # "setActive", NEW k
  PROVE  Untouched(s, k) /\ ~LastOn(s, k)
<1>1. \A i \in DOMAIN s : s[i] \in Range(s)
  BY DEF Range
<1>2. \A i \in DOMAIN s : ~Switches(s[i], k)
  BY <1>1 DEF Switches
<1> QED
  BY <1>2 DEF Untouched, LastOn, Switches

LEMMA NoResets ==
  ASSUME NEW s, \A x \in Range(s) : x.call \notin {"resetScope", "resetChan", "resetNode"}
  PROVE  (\A c : ~Cleared(s, c)) /\ (\A k : ~Restarted(s, k))
  BY DEF Cleared, Restarted, Clears, Restarts

LEMMA NoMoves ==
  ASSUME NEW s, NEW name, \A x \in Range(s) : x.call # name
  PROVE  /\ \A c : \A x \in Range(s) : ~IsMove(x, name, c)
         /\ \A c : Moved(s, name, c) = 0
<1>1. \A c : \A x \in Range(s) : ~IsMove(x, name, c)
  BY DEF IsMove
<1>2. \A c : \A i \in DOMAIN s : ~IsMove(s[i], name, c)
  BY <1>1 DEF Range
<1> QED
  BY <1>1, <1>2, MovedNone

LEMMA LastJoined ==
  ASSUME NEW a, a \in Seq(Calls), NEW b, b \in Seq(Calls), DOMAIN b = {1}, NEW s, s = Joined(a, b)
  PROVE  s # <<>> /\ Last(s) = b[1]
<1>1. PICK n : n = Len(a)
  OBVIOUS
<1>2. /\ s \in Seq(Calls) /\ n \in Nat
      /\ \A i \in DOMAIN a : i <= n
      /\ \A i \in DOMAIN b : n + i \in DOMAIN s /\ s[n + i] = b[i]
      /\ \A k \in DOMAIN s : k \in DOMAIN a \/ \E i \in DOMAIN b : k = n + i
  BY <1>1, JoinedAt
<1>3. n + 1 \in DOMAIN s /\ s[n + 1] = b[1]
  BY <1>2
<1>4. \A k \in DOMAIN s : k <= n + 1
  BY <1>2
<1>5. PICK k : k = Len(s)
  OBVIOUS
<1>6. k \in Nat /\ DOMAIN s = 1 .. k
  BY <1>2, <1>5
<1>7. k = n + 1
  <2>1. n + 1 <= k /\ 1 <= k
    BY ONLY <1>2, <1>3, <1>6
  <2>2. k \in DOMAIN s
    BY ONLY <1>6, <2>1
  <2>3. k <= n + 1
    BY <1>4, <2>2
  <2> QED
    BY ONLY <1>2, <1>6, <2>1, <2>3
<1>8. s # <<>>
  BY <1>3, Nothing
<1>9. Last(s) = s[k]
  BY <1>5 DEF Last
<1> QED
  BY ONLY <1>3, <1>7, <1>8, <1>9

LEMMA ExecutionDue ==
  ASSUME NEW m \in Node, NEW rule \in RuleSet(m), WellFormed(rule), NEW cs, cs = Execution(rule)
  PROVE  Comes(cs, rule) /\ cs # <<>> /\ Last(cs).dest = rule.dest
<1>1. PICK a : a = Switching(rule)
  OBVIOUS
<1>2. PICK b : b = Consuming(rule)
  OBVIOUS
<1>3. PICK d : d = Producing(rule)
  OBVIOUS
<1>4. PICK e : e = Ending(rule)
  OBVIOUS
<1>5. PICK last : last = [call |-> "executed", dest |-> rule.dest]
  OBVIOUS
<1>6. PICK ab : ab = Joined(a, b)
  OBVIOUS
<1>7. PICK abd : abd = Joined(ab, d)
  OBVIOUS
<1>8. cs = Joined(abd, e)
  BY <1>1, <1>2, <1>3, <1>4, <1>6, <1>7, ExecutionParts
<1>9. /\ a \in Seq(Calls) /\ \A x \in Range(a) : x.call = "setActive"
      /\ \A k : Untouched(a, k) <=> \A s \in Range(rule.switch) : s.node # k
      /\ \A k : LastOn(a, k) <=>
           \E i \in DOMAIN rule.switch :
             /\ rule.switch[i].node = k /\ rule.switch[i].flag
             /\ \A j \in DOMAIN rule.switch : i < j => rule.switch[j].node # k
  BY <1>1, SwitchingDue
<1>10. /\ b \in Seq(Calls) /\ \A x \in Range(b) : x.call = "consume"
       /\ \A c : Moved(b, "consume", c) = Graph!Taken(rule, c)
  BY <1>2, ConsumingDue
<1>11. /\ d \in Seq(Calls) /\ \A x \in Range(d) : x.call \in {"resetScope", "produce"}
       /\ \A c : Cleared(d, c) <=> \E p \in Range(rule.out) : Graph!Clears(p, c)
       /\ \A k : Restarted(d, k) <=> \E p \in Range(rule.out) : Graph!Restarts(p, k)
       /\ \A c \in Chan : Moved(d, "produce", c) = Graph!Produced(rule, c)
  BY <1>3, ProducingDue
<1>12. last \in Calls /\ last.call = "executed"
  <2>1. rule.dest \in UNION {DOMAIN Rules[n] : n \in Node}
    BY DEF RuleSet
  <2> QED
    BY <1>5, <2>1 DEF Calls, LastCall
<1>13. e \in Seq(Calls) /\ DOMAIN e = {1} /\ e[1] = last /\ \A x \in Range(e) : x.call = "executed"
  <2>1. e = <<last>>
    BY <1>4, <1>5 DEF Ending
  <2>2. e \in Seq(Calls) /\ DOMAIN e = {1} /\ e[1] = last
    BY <1>12, <2>1
  <2> QED
    BY <1>12, <2>2 DEF Range
<1>14. ab \in Seq(Calls) /\ abd \in Seq(Calls) /\ cs \in Seq(Calls)
  BY <1>6, <1>7, <1>8, <1>9, <1>10, <1>11, <1>13 DEF Joined
<1>15. \A i, j \in DOMAIN cs : i < j => Fine(cs[i], cs[j])
  BY ExecutionFine
<1>16. \A k : Untouched(cs, k) <=> Untouched(a, k)
  <2>1. \A k : Untouched(b, k) /\ Untouched(d, k) /\ Untouched(e, k)
    BY <1>10, <1>11, <1>13, NoSwitches
  <2>2. /\ \A k : Untouched(ab, k) <=> Untouched(a, k) /\ Untouched(b, k)
        /\ \A k : Untouched(abd, k) <=> Untouched(ab, k) /\ Untouched(d, k)
        /\ \A k : Untouched(cs, k) <=> Untouched(abd, k) /\ Untouched(e, k)
    BY <1>6, <1>7, <1>8, <1>9, <1>10, <1>11, <1>13, <1>14, ClearedJoined
  <2> QED
    BY <2>1, <2>2
<1>17. \A k : LastOn(cs, k) <=> LastOn(a, k)
  <2>1. \A k : /\ Untouched(b, k) /\ Untouched(d, k) /\ Untouched(e, k)
               /\ ~LastOn(b, k) /\ ~LastOn(d, k) /\ ~LastOn(e, k)
    BY <1>10, <1>11, <1>13, NoSwitches
  <2>2. \A k : LastOn(ab, k) <=> LastOn(b, k) \/ (LastOn(a, k) /\ Untouched(b, k))
    BY <1>6, <1>9, <1>10, LastOnJoined
  <2>3. \A k : LastOn(abd, k) <=> LastOn(d, k) \/ (LastOn(ab, k) /\ Untouched(d, k))
    BY <1>7, <1>11, <1>14, LastOnJoined
  <2>4. \A k : LastOn(cs, k) <=> LastOn(e, k) \/ (LastOn(abd, k) /\ Untouched(e, k))
    BY <1>8, <1>13, <1>14, LastOnJoined
  <2> QED
    BY <2>1, <2>2, <2>3, <2>4
<1>18. (\A c : Cleared(cs, c) <=> Cleared(d, c)) /\ (\A k : Restarted(cs, k) <=> Restarted(d, k))
  <2>1. /\ \A c : ~Cleared(a, c) /\ ~Cleared(b, c) /\ ~Cleared(e, c)
        /\ \A k : ~Restarted(a, k) /\ ~Restarted(b, k) /\ ~Restarted(e, k)
    BY <1>9, <1>10, <1>13, NoResets
  <2>2. /\ \A c : Cleared(ab, c) <=> Cleared(a, c) \/ Cleared(b, c)
        /\ \A k : Restarted(ab, k) <=> Restarted(a, k) \/ Restarted(b, k)
    BY <1>6, <1>9, <1>10, ClearedJoined
  <2>3. /\ \A c : Cleared(abd, c) <=> Cleared(ab, c) \/ Cleared(d, c)
        /\ \A k : Restarted(abd, k) <=> Restarted(ab, k) \/ Restarted(d, k)
    BY <1>7, <1>11, <1>14, ClearedJoined
  <2>4. /\ \A c : Cleared(cs, c) <=> Cleared(abd, c) \/ Cleared(e, c)
        /\ \A k : Restarted(cs, k) <=> Restarted(abd, k) \/ Restarted(e, k)
    BY <1>8, <1>13, <1>14, ClearedJoined
  <2> QED
    BY <2>1, <2>2, <2>3, <2>4
<1>19. ASSUME NEW name \in {"consume", "produce"}, NEW c
       PROVE  /\ Moved(cs, name, c) = Moved(abd, name, c)
              /\ Once(abd, name, c) /\ Once(ab, name, c)
              /\ Cleared(d, c) \/ (\A x \in Range(ab) : ~IsMove(x, name, c)) =>
                   Moved(abd, name, c) = Moved(d, name, c)
              /\ ~Cleared(d, c) /\ (\A x \in Range(d) : ~IsMove(x, name, c)) =>
                   Moved(abd, name, c) = Moved(ab, name, c)
  <2>1. Once(cs, name, c)
    BY <1>14, <1>15, OnceInOrder
  <2>2. ~Cleared(e, c) /\ \A x \in Range(e) : ~IsMove(x, name, c)
    BY <1>13, NoResets, NoMoves
  <2>3. Once(abd, name, c) /\ Moved(cs, name, c) = Moved(abd, name, c)
    BY ONLY <1>8, <1>13, <1>14, <2>1, <2>2, MovedJoined
  <2> QED
    BY ONLY <1>7, <1>11, <1>14, <2>3, MovedJoined
<1>20. ASSUME NEW c
       PROVE  Moved(cs, "consume", c) = IF Cleared(cs, c) THEN 0 ELSE Graph!Taken(rule, c)
  <2>1. (\A x \in Range(d) : ~IsMove(x, "consume", c)) /\ Moved(d, "consume", c) = 0
    BY <1>11, NoMoves
  <2>2. \A x \in Range(a) : ~IsMove(x, "consume", c)
    BY <1>9, NoMoves
  <2>3. Once(ab, "consume", c)
    BY <1>19
  <2>4. Moved(ab, "consume", c) = Moved(b, "consume", c)
    BY ONLY <1>6, <1>9, <1>10, <2>2, <2>3, MovedJoined
  <2>5. Moved(b, "consume", c) = Graph!Taken(rule, c)
    BY <1>10
  <2>6. /\ Moved(cs, "consume", c) = Moved(abd, "consume", c)
        /\ Cleared(d, c) => Moved(abd, "consume", c) = Moved(d, "consume", c)
        /\ ~Cleared(d, c) => Moved(abd, "consume", c) = Moved(ab, "consume", c)
    BY <1>19, <2>1
  <2>7. Cleared(cs, c) <=> Cleared(d, c)
    BY <1>18
  <2> QED
    BY <2>1, <2>4, <2>5, <2>6, <2>7
<1>21. ASSUME NEW c \in Chan
       PROVE  Moved(cs, "produce", c) = Graph!Produced(rule, c)
  <2>1. Range(ab) = Range(a) \cup Range(b)
    BY <1>6, <1>9, <1>10, JoinedRange
  <2>2. \A x \in Range(ab) : x.call # "produce"
    BY <1>9, <1>10, <2>1
  <2>3. \A x \in Range(ab) : ~IsMove(x, "produce", c)
    BY <2>2, NoMoves
  <2>4. Moved(cs, "produce", c) = Moved(abd, "produce", c) /\ Moved(abd, "produce", c) = Moved(d, "produce", c)
    BY <1>19, <2>3
  <2> QED
    BY <1>11, <2>4
<1>22. cs # <<>> /\ Last(cs).dest = rule.dest
  <2>1. cs # <<>> /\ Last(cs) = e[1]
    BY ONLY <1>8, <1>13, <1>14, LastJoined
  <2> QED
    BY <1>5, <1>13, <2>1
<1> QED
  BY <1>9, <1>11, <1>16, <1>17, <1>18, <1>20, <1>21, <1>22 DEF Comes

(* Between two firings nothing is due. *)
LEMMA RestAfter ==
  ASSUME ActorsInv, todo = <<>>
  PROVE  /\ \A c \in Chan : TokAfter[c] = tok[c] /\ tok[c] \in Int
         /\ \A k \in Node : StateAfter[k] = state[k] /\ OnAfter[k] = on[k] /\ on[k] \in BOOLEAN
<1>1. Range(todo) = {} /\ DOMAIN todo = {}
  BY DEF Range
<1>2. /\ \A c : ~Cleared(todo, c)
      /\ \A k : ~Restarted(todo, k) /\ Untouched(todo, k) /\ ~LastOn(todo, k)
      /\ \A c : Moved(todo, "consume", c) = 0 /\ Moved(todo, "produce", c) = 0
  BY <1>1, MovedNone DEF Cleared, Restarted, Untouched, LastOn
<1>3. /\ \A c \in Chan : tok[c] \in Int
      /\ \A k \in Node : on[k] \in BOOLEAN
  BY DEF ActorsInv, Typed
<1>4. \A c \in Chan : TokDue(todo, tok[c], c) = tok[c]
  BY <1>2, <1>3 DEF TokDue
<1>5. \A k \in Node : StateDue(todo, running, state[k], k) = state[k]
  BY <1>2 DEF StateDue
<1>6. \A k \in Node : OnDue(todo, on[k], k) = on[k]
  BY <1>2, <1>3 DEF OnDue
<1> QED
  BY <1>3, <1>4, <1>5, <1>6, AfterForms

(* A firing starts: the step that the atomic graph takes. *)
LEMMA ScheduleAfter ==
  ASSUME ActorsInv, NEW m \in Node, schedule(m)
  PROVE  Graph!Fire(m)
<1>1. running = m /\ todo = <<>> /\ m # None
  BY ActorsAssumption DEF schedule
<1>2. PICK rule : rule = Current(m)[ct[m]]
  OBVIOUS
<1>3. todo' = Execution(rule) /\ UNCHANGED <<tok, state, on, running>>
  BY <1>2 DEF schedule
<1>4. canFire(m)
  BY <1>1 DEF ActorsInv, Firing
<1>5. /\ rule \in RuleSet(m) /\ WellFormed(rule)
      /\ \A p \in Range(rule.in) : p.chan \in Chan /\ p.r <= tok[p.chan]
      /\ \A p \in Range(rule.out) : ~resetEntry(p) =>
           p.chan \in Chan /\ tok[p.chan] + p.n <= Depth[p.chan]
  BY <1>1, <1>2, <1>4, ChosenFits
<1>6. PICK cs : cs = Execution(rule)
  OBVIOUS
<1>7. Comes(cs, rule) /\ cs # <<>> /\ Last(cs).dest = rule.dest /\ cs \in Seq(Calls)
  BY <1>5, <1>6, ExecutionDue, ExecutionFine
<1>8. /\ \A c \in Chan : TokAfter[c] = tok[c] /\ tok[c] \in Int
      /\ \A k \in Node : StateAfter[k] = state[k] /\ OnAfter[k] = on[k] /\ on[k] \in BOOLEAN
  BY <1>1, RestAfter
<1>9. todo' = cs
  BY <1>3, <1>6
<1>10. ct[m] \in DOMAIN Rules[m][StateAfter[m]] /\ rule = Rules[m][StateAfter[m]][ct[m]]
  <2>1. state[m] \in DOMAIN Rules[m] /\ ct[m] \in 0 .. Len(Rules[m][state[m]]) /\ ct[m] # 0
    BY <1>4 DEF ActorsInv, Typed, canFire
  <2>2. Rules[m][state[m]] \in Seq(RuleSet(m))
    BY <2>1, ActorsAssumption
  <2>3. Len(Rules[m][state[m]]) \in Nat /\ DOMAIN Rules[m][state[m]] = 1 .. Len(Rules[m][state[m]])
    BY <2>2
  <2>4. ct[m] \in DOMAIN Rules[m][state[m]]
    BY <2>1, <2>3
  <2> QED
    BY <1>2, <1>8, <2>4 DEF Current
<1>11. OnAfter[m]
  BY <1>4, <1>8 DEF canFire
<1>12. Graph!Enough(rule)
  <2>1. \A p \in Range(rule.in) : p.r <= TokAfter[p.chan]
    BY <1>5, <1>8
  <2>2. \A p \in Range(rule.out) : p.chan \in Chan => TokAfter[p.chan] + p.n <= Depth[p.chan]
    <3>1. \A p \in Range(rule.out) : p.chan \in Chan => ~resetEntry(p)
      BY ActorsAssumption DEF resetEntry
    <3> QED
      BY <1>5, <1>8, <3>1
  <2> QED
    BY <2>1, <2>2 DEF Graph!Enough, Graph!Range, Range
<1>13. ASSUME NEW c \in Chan
       PROVE  TokDue(cs, tok[c], c) =
                (IF \E p \in Range(rule.out) : Graph!Clears(p, c)
                 THEN Marking[c] ELSE TokAfter[c] - Graph!Taken(rule, c)) + Graph!Produced(rule, c)
  <2>1. /\ Cleared(cs, c) <=> \E p \in Range(rule.out) : Graph!Clears(p, c)
        /\ Moved(cs, "consume", c) = (IF Cleared(cs, c) THEN 0 ELSE Graph!Taken(rule, c))
        /\ Moved(cs, "produce", c) = Graph!Produced(rule, c)
    BY <1>7 DEF Comes
  <2>2. Moved(cs, "consume", c) \in Nat /\ Moved(cs, "produce", c) \in Nat
    BY <1>7, MovedNat
  <2>3. TokAfter[c] = tok[c] /\ tok[c] \in Int /\ Marking[c] \in Nat
    BY <1>8, ActorsAssumption
  <2>4. CASE Cleared(cs, c)
    BY <2>1, <2>2, <2>3, <2>4 DEF TokDue
  <2>5. CASE ~Cleared(cs, c)
    BY <2>1, <2>2, <2>3, <2>5 DEF TokDue
  <2> QED
    BY <2>4, <2>5
<1>14. \A k \in Node : StateDue(cs, m, state[k], k) =
          IF k = m THEN rule.dest
          ELSE IF \E p \in Range(rule.out) : Graph!Restarts(p, k) THEN Initial[k] ELSE StateAfter[k]
  BY <1>7, <1>8 DEF StateDue, Comes
<1>15. ASSUME NEW k \in Node PROVE OnDue(cs, on[k], k) = Graph!Switched(rule, k)
  <2>1. OnDue(cs, on[k], k) <=> Graph!Switched(rule, k)
    BY <1>7, <1>8 DEF OnDue, Comes, Graph!Switched, Graph!Range, Range
  <2> QED
    BY <2>1 DEF OnDue, Graph!Switched
<1>16. Graph!Effect(m, rule)
  <2>1. TokAfter' = [c \in Chan |-> TokDue(cs, tok[c], c)]
    BY <1>3, <1>9, AfterFormsThen
  <2>2. StateAfter' = [k \in Node |-> StateDue(cs, m, state[k], k)]
    BY <1>1, <1>3, <1>9, AfterFormsThen
  <2>3. OnAfter' = [k \in Node |-> OnDue(cs, on[k], k)]
    BY <1>3, <1>9, AfterFormsThen
  <2>4. TokAfter' = [c \in Chan |-> (IF \E p \in Range(rule.out) : Graph!Clears(p, c)
                                     THEN Marking[c] ELSE TokAfter[c] - Graph!Taken(rule, c))
                                      + Graph!Produced(rule, c)]
    BY <1>13, <2>1
  <2>5. StateAfter' = [k \in Node |->
          IF k = m THEN rule.dest
          ELSE IF \E p \in Range(rule.out) : Graph!Restarts(p, k) THEN Initial[k] ELSE StateAfter[k]]
    BY <1>14, <2>2
  <2>6. OnAfter' = [k \in Node |-> Graph!Switched(rule, k)]
    BY <1>15, <2>3
  <2> QED
    BY <2>4, <2>5, <2>6 DEF Graph!Effect, Graph!Range, Range
<1> QED
  BY <1>10, <1>11, <1>12, <1>16 DEF Graph!Fire

LEMMA DataflowInit == Init => Graph!Init
<1> SUFFICES ASSUME Init PROVE Graph!Init
  OBVIOUS
<1>1. ActorsInv /\ todo = <<>>
  BY ActorsInit DEF Init
<1>2. /\ \A c \in Chan : TokAfter[c] = tok[c]
      /\ \A k \in Node : StateAfter[k] = state[k] /\ OnAfter[k] = on[k]
  BY <1>1, RestAfter
<1>3. tok = Marking /\ state = Initial /\ on = [k \in Node |-> TRUE]
  BY DEF Init
<1>4. TokAfter = [c \in Chan |-> TokAfter[c]] /\ Marking = [c \in Chan |-> Marking[c]]
  BY ActorsAssumption DEF TokAfter
<1>5. StateAfter = [k \in Node |-> StateAfter[k]] /\ Initial = [k \in Node |-> Initial[k]]
  BY ActorsAssumption DEF StateAfter
<1>6. OnAfter = [k \in Node |-> OnAfter[k]]
  BY DEF OnAfter
<1>7. TokAfter = Marking
  BY <1>2, <1>3, <1>4
<1>8. StateAfter = Initial
  BY <1>2, <1>3, <1>5
<1>9. OnAfter = [k \in Node |-> TRUE]
  BY <1>2, <1>3, <1>6
<1> QED
  BY <1>7, <1>8, <1>9 DEF Graph!Init

LEMMA DataflowNext ==
  ActorsInv /\ ActorsInv' /\ [Next]_vars => [Graph!Next]_<<TokAfter, StateAfter, OnAfter>>
<1> SUFFICES ASSUME ActorsInv, ActorsInv', [Next]_vars
             PROVE  SameAfter \/ \E m \in Node : Graph!Fire(m)
  BY DEF SameAfter, Graph!Next
<1>1. CASE Call
  BY <1>1, EventAfters, SignaledAfter, WalkAfter, ConsumeAfter, ProduceAfter, ResetChanAfter,
     ResetScopeAfter, ResetNodeAfter, SetActiveAfter, ExecutedAfter DEF Call
<1>2. CASE NextDelta
  BY <1>2, UnmovedAfter DEF NextDelta
<1>3. ASSUME NEW m \in Node, schedule(m) PROVE \E k \in Node : Graph!Fire(k)
  BY <1>3, ScheduleAfter
<1>4. ASSUME NEW m \in Node, scheduleRequestMethod(m) PROVE SameAfter
  <2>1. todo = <<>>
    BY <1>4 DEF scheduleRequestMethod, ActorsInv, Firing
  <2> QED
    BY <1>4, <2>1, UnmovedAfter DEF scheduleRequestMethod
<1>5. CASE UNCHANGED vars
  BY <1>5, UnmovedAfter DEF vars
<1> QED
  BY <1>1, <1>2, <1>3, <1>4, <1>5 DEF Next

-----------------------------------------------------------------------------
(* The theorems.                                                           *)

(* No call of any firing, no delta cycle and no scheduler method breaks    *)
(* what the runtime keeps between the FIFOs, their events, the event lists *)
(* and the actors' choices and requests.                                   *)
LEMMA ActorsNext == ActorsInv /\ [Next]_vars => ActorsInv'
<1> SUFFICES ASSUME ActorsInv, [Next]_vars PROVE ActorsInv'
  OBVIOUS
<1>1. CASE Call
  BY <1>1, NotifyStep, ResetEventStep, RenotifyStep, SignaledStep, WalkStep, ConsumeStep,
     ProduceStep, ResetScopeStep, ResetChanStep, ResetNodeStep, ExecutedStep, SetActiveStep
  DEF Call
<1>2. CASE NextDelta
  BY <1>2, NextDeltaStep
<1>3. ASSUME NEW m \in Node, schedule(m) PROVE ActorsInv'
  BY <1>3, ScheduleStep
<1>4. ASSUME NEW m \in Node, scheduleRequestMethod(m) PROVE ActorsInv'
  BY <1>4, ScheduleRequestStep
<1>5. CASE UNCHANGED vars
  BY <1>5, StutterStep
<1> QED
  BY <1>1, <1>2, <1>3, <1>4, <1>5 DEF Next

THEOREM ActorsInvariance == Spec => []ActorsInv
<1>1. Init => ActorsInv
  BY ActorsInit
<1>2. ActorsInv /\ [Next]_vars => ActorsInv'
  BY ActorsNext
<1> QED
  BY <1>1, <1>2, PTL DEF Spec

(* Every variable has its type: in particular commExec of an input port    *)
(* never takes a token that is not there and commExec of an output port    *)
(* never writes to a place that is not free, in whatever order the firings *)
(* of several actors, their resets and switches come.                      *)
THEOREM ActorsTypes == Spec => []TypeOK
<1>1. ActorsInv => TypeOK
  <2> SUFFICES ASSUME ActorsInv PROVE TypeOK
    OBVIOUS
  <2>1. \A c \in Chan : tok[c] \in 0 .. Depth[c]
    BY DEF ActorsInv, Fits
  <2>2. running = None => todo = <<>>
    BY DEF ActorsInv, Firing
  <2> QED
    BY <2>1, <2>2 DEF ActorsInv, Typed, TypeOK
<1> QED
  BY <1>1, ActorsInvariance, PTL

(* Between two communications the events of every FIFO say what the FIFO   *)
(* holds and the event lists what their events say, after any sequence of  *)
(* walks, notifications and resets of several FIFOs.                       *)
THEOREM ActorsEvents == Spec => []EventsTrue
<1>1. ActorsInv => EventsTrue
  <2> SUFFICES ASSUME ActorsInv, Settled
               PROVE  /\ \A e \in Events : e \in enabled <=> e[3] <= Count(e[1], e[2])
                      /\ \A P \in Lists : P \in live <=> P \subseteq enabled
    BY DEF EventsTrue
  <2>1. AtRest
    BY SettledAtRest
  <2>2. \A e \in Events : e \in enabled <=> e[3] <= Count(e[1], e[2])
    <3>1. SUFFICES ASSUME NEW e \in Events PROVE e \in enabled <=> e[3] <= Count(e[1], e[2])
      OBVIOUS
    <3>2. e[1] \in Chan /\ e[2] \in Side
      BY EventFacts
    <3>3. UpTo(e[1], e[2], Count(e[1], e[2])) /\ (EventAfter(e) <=> e \in enabled)
      BY <2>1, <3>2, RestFacts
    <3> QED
      BY <3>3 DEF UpTo
  <2>3. \A P \in Lists : P \in live <=> P \subseteq enabled
    BY <2>1, RestFacts
  <2> QED
    BY <2>2, <2>3
<1> QED
  BY <1>1, ActorsInvariance, PTL

(* An active actor that can fire has its scheduler's method notified,      *)
(* runnable or running: no cancelled request, reset, deactivation or       *)
(* firing of another actor loses the last one.                             *)
THEOREM ActorsActivation == Spec => []NoLostActivation
<1>1. ActorsInv => NoLostActivation
  BY DEF ActorsInv, Requested, NoLostActivation
<1> QED
  BY <1>1, ActorsInvariance, PTL

(* schedule() executes no transition whose tokens or places went while the *)
(* request was on its way: NodeBase::schedule's assert(ct->check()) for    *)
(* the transition's event list, and what the FIFOs' commExec assert.       *)
FiringsCovered ==
  [][ \A m \in Node : schedule(m) =>
        /\ \A p \in Range(Current(m)[ct[m]].in) : p.r <= tok[p.chan]
        /\ \A p \in Range(Current(m)[ct[m]].out) : ~resetEntry(p) =>
             tok[p.chan] + p.n <= Depth[p.chan] ]_vars

(* A firing, once its method's loop has decided for it, has every token it *)
(* asked for and every place it writes to, whatever other actors did since *)
(* the transition was found.                                               *)
THEOREM ActorsFirings == Spec => FiringsCovered
<1>1. ActorsInv /\ [Next]_vars =>
        [\A m \in Node : schedule(m) =>
           /\ \A p \in Range(Current(m)[ct[m]].in) : p.r <= tok[p.chan]
           /\ \A p \in Range(Current(m)[ct[m]].out) : ~resetEntry(p) =>
                tok[p.chan] + p.n <= Depth[p.chan]]_vars
  <2> SUFFICES ASSUME ActorsInv, NEW m \in Node, schedule(m)
               PROVE  /\ \A p \in Range(Current(m)[ct[m]].in) : p.r <= tok[p.chan]
                      /\ \A p \in Range(Current(m)[ct[m]].out) : ~resetEntry(p) =>
                           tok[p.chan] + p.n <= Depth[p.chan]
    OBVIOUS
  <2>1. running = m /\ todo = <<>> /\ m # None
    BY ActorsAssumption DEF schedule
  <2>2. canFire(m)
    BY <2>1 DEF ActorsInv, Firing
  <2> QED
    BY <2>1, <2>2, ChosenFits
<1> QED
  BY <1>1, ActorsInvariance, PTL DEF Spec, FiringsCovered

(* The transition an active actor has in mind is, whenever the events have *)
(* settled, the first one that its tokens, places and guard allow: no      *)
(* sequence of walks, notifications and resets, no other actor's firing    *)
(* and no switching off and on leaves NodeBase's ct stale.                 *)
THEOREM ActorsChoices == Spec => []ChoiceExact
<1>1. Init => ActorsInv /\ ChoiceInv
  BY ActorsInit, ChoiceInit
<1>2. ActorsInv /\ [Next]_vars => ActorsInv'
  BY ActorsNext
<1>3. ActorsInv /\ ActorsInv' /\ ChoiceInv /\ [Next]_vars => ChoiceInv'
  BY ChoiceNext
<1>4. ActorsInv /\ ChoiceInv => ChoiceExact
  BY ToldExact
<1> QED
  BY <1>1, <1>2, <1>3, <1>4, PTL DEF Spec

(* In a graph whose FIFOs have one reader and one writer each and where    *)
(* nothing is reset, a search never evaluates a guard function while the   *)
(* tokens it reads or the places it writes are missing: what NodeBase.cpp  *)
(* says of signaled().  (With readers that share a FIFO it is not so.)     *)
THEOREM ActorsGuards ==
  ASSUME PointToPoint
  PROVE  Spec => GuardsSeeTokens
<1>1. Init => ActorsInv /\ PromiseInv
  BY ActorsInit, PromiseInit
<1>2. ActorsInv /\ [Next]_vars => ActorsInv'
  BY ActorsNext
<1>3. ActorsInv /\ ActorsInv' /\ PromiseInv /\ [Next]_vars => PromiseInv'
  BY PromiseNext
<1>4. ActorsInv /\ PromiseInv' /\ [Next]_vars =>
        [Doing("list") => \A m \in Node : Hears(m, Head(todo).list, Head(todo).flag)
                                            => ~EvaluatesInVain(m)']_vars
  BY SeesTokens
<1> QED
  BY <1>1, <1>2, <1>3, <1>4, PTL DEF Spec, GuardsSeeTokens

(* Every firing of the scheduler's loop, the cascade of communications,    *)
(* events, searches and resets below it included, is one atomic firing of  *)
(* the dataflow graph.                                                     *)
THEOREM ActorsDataflow == Spec => ImplementsDataflow
<1>1. Init => ActorsInv /\ Graph!Init
  BY ActorsInit, DataflowInit
<1>2. ActorsInv /\ [Next]_vars => ActorsInv'
  BY ActorsNext
<1>3. ActorsInv /\ ActorsInv' /\ [Next]_vars => [Graph!Next]_<<TokAfter, StateAfter, OnAfter>>
  BY DataflowNext
<1> QED
  BY <1>1, <1>2, <1>3, PTL DEF Spec, ImplementsDataflow, Graph!Spec
=============================================================================
