------------------------------- MODULE Actors -------------------------------
(***************************************************************************)
(* A dataflow graph run by SysteMoC's own scheduler: actors (NodeBase),    *)
(* the transitions of their state machines (RuntimeTransition,             *)
(* RuntimeFiringRule), one SysteMoCScheduler per actor, and the channels   *)
(* between them.                                                           *)
(*                                                                         *)
(* An actor never polls.  It listens on one event list per transition of   *)
(* its current state (the AND over "r tokens here", "n places there"),     *)
(* keeps the transition it will take in ct, and has its scheduler          *)
(* notified.  Everything below a firing happens synchronously: the channel *)
(* walks its event map, each event runs down its lists one by one, each    *)
(* list calls signaled() of the actors listening on it, and these search   *)
(* their transitions and evaluate guards while the events and lists still  *)
(* to come hold their old values.  The calls of a firing that are still to *)
(* be made are kept in todo, the next one first, and every call is a step. *)
(*                                                                         *)
(* A channel is here its number of tokens and its two event maps; FifoChan *)
(* has the ring behind it.  What a guard function returns depends on the   *)
(* tokens it reads and on the actor's variables and is chosen freely       *)
(* whenever one of these changes (holds).                                  *)
(***************************************************************************)
EXTENDS EventMap, Integers, FiniteSets, SequencesExt, FiniteSetsExt

CONSTANTS
  Node,        \* the actors
  Chan,        \* the FIFOs
  ResetChan,   \* the reset channels
  Shared,      \* the FIFOs that are smoc_multireader_fifos
  Depth,       \* how many tokens each FIFO holds
  Marking,     \* how many initial tokens each FIFO has
  ResetScope,  \* what each reset channel resets: sets chans and nodes
  Initial,     \* each actor's initial state
  Rules,       \* each actor's transitions: state -> sequence of rules
  None

(***************************************************************************)
(* A rule is a transition: the ports it reads and writes in the order of   *)
(* the guard expression, the actors its action switches on or off, whether *)
(* it has a guard function besides its ports, and its destination.         *)
(*   in      sequence of [chan, c, r]: consume c of at least r tokens      *)
(*   out     sequence of [chan, n]: n places needed, n tokens produced     *)
(*   switch  sequence of [node, flag]: calls of setActive                  *)
(***************************************************************************)
Transitions ==
  UNION {UNION {{<<m, s, i>> : i \in DOMAIN Rules[m][s]} : s \in DOMAIN Rules[m]} : m \in Node}
RuleOf(t)  == Rules[t[1]][t[2]][t[3]]
Guarded(M) == {t \in Transitions : t[1] \in M /\ RuleOf(t).guarded}
Reading(c) == {t \in Guarded(Node) : \E p \in Range(RuleOf(t).in) : p.chan = c}

(* blockEvent of an input and of an output port.  The event of a reset     *)
(* channel's entry is always enabled and never changes: nobody waits.      *)
dataEvent(p)  == <<p.chan, "data", p.r>>
resetEntry(p) == p.chan \in ResetChan
spaceEvent(p) == <<p.chan, "space", p.n>>

\* Mutant: the event lists leave the output ports out.
ListOfInputs(rule) == {dataEvent(p) : p \in Range(rule.in)}

(* getCAP: rules that wait for the same events share one list. *)
ListOf(rule) ==
  {dataEvent(p) : p \in Range(rule.in)}
    \cup {spaceEvent(p) : p \in {o \in Range(rule.out) : ~resetEntry(o)}}

Lists  == {ListOf(RuleOf(t)) : t \in Transitions}
Events == UNION Lists

(* What a rule is made of, and what its designer has to keep to: it names  *)
(* a FIFO once as input and once as output at most, and writes to one that *)
(* it has just reset only what fits besides the initial tokens.            *)
RuleSet(m) ==
  [in      : Seq([chan : Chan, c : Nat, r : Nat]),
   out     : Seq([chan : Chan \cup ResetChan, n : Nat]),
   switch  : Seq([node : Node, flag : BOOLEAN]),
   guarded : BOOLEAN,
   dest    : DOMAIN Rules[m]]

WellFormed(rule) ==
  /\ \A p \in Range(rule.in) : p.c <= p.r
  /\ \A i, j \in DOMAIN rule.in : i < j => rule.in[i].chan # rule.in[j].chan
  /\ \A i, j \in DOMAIN rule.out : i < j =>
       /\ rule.out[i].chan \in Chan => rule.out[i].chan # rule.out[j].chan
       /\ rule.out[i].chan \in ResetChan /\ rule.out[j].chan \in ResetScope[rule.out[i].chan].chans =>
            Marking[rule.out[j].chan] + rule.out[j].n <= Depth[rule.out[j].chan]

ASSUME ActorsAssumption ==
  /\ IsFiniteSet(Node) /\ None \notin Node
  /\ IsFiniteSet(Chan) /\ Shared \subseteq Chan /\ Chan \cap ResetChan = {}
  /\ Depth \in [Chan -> Nat \ {0}]
  /\ Marking \in [Chan -> Nat] /\ \A c \in Chan : Marking[c] <= Depth[c]
  /\ \A c \in ResetChan : /\ ResetScope[c].chans \subseteq Chan
                          /\ ResetScope[c].nodes \subseteq Node
  /\ Initial \in [Node -> UNION {DOMAIN Rules[m] : m \in Node}]
  /\ \A m \in Node : Initial[m] \in DOMAIN Rules[m]
  /\ \A m \in Node : \A s \in DOMAIN Rules[m] : Rules[m][s] \in Seq(RuleSet(m))
  /\ IsFiniteSet(Transitions)
  /\ \A t \in Transitions : WellFormed(RuleOf(t))

VARIABLES
  tok,       \* tokens in each FIFO
  enabled,   \* the enabled events of all FIFOs
  live,      \* the active event lists
  state,     \* currentState of each actor
  ct,        \* its transition to take: an index into the rules, or 0
  on,        \* active: does it listen?
  holds,     \* the guarded transitions whose guard function is true
  pending,   \* actors whose scheduleRequest is notified for the next delta
  runnable,  \* actors whose scheduler method is still to run in this delta
  running,   \* the actor in its scheduler's loop, or None
  todo       \* the calls of its firing still to be made

vars == <<tok, enabled, live, state, ct, on, holds, pending, runnable, running, todo>>

-----------------------------------------------------------------------------
(* NodeBase: the transition to take.                                       *)

Current(m) == Rules[m][state[m]]

(* RuntimeTransition::check: the event list first, then the guard. *)
check(m, i) == /\ ListOf(Current(m)[i]) \in live
               /\ Current(m)[i].guarded => <<m, state[m], i>> \in holds

(* searchActiveTransition: the first transition that passes, or 0. *)
FirstReady(m) ==
  LET ready == {i \in DOMAIN Current(m) : check(m, i)}
  IN  IF ready = {} THEN 0 ELSE Min(ready)

(* These guard functions may now return something else.  A guard sees its  *)
(* actor's variables and tokens of the ports its own rule names, the only  *)
(* ones commSetup() opens while it is evaluated.                           *)
GuardsChange(G) == \E T \in SUBSET G : holds' = (holds \ G) \cup T

\* Mutant: an actor that was switched off in its own action goes on.
canFireInactive(m) == ct[m] # 0

canFire(m) == on[m] /\ ct[m] # 0

-----------------------------------------------------------------------------
(* The calls of a firing.                                                  *)

Doing(call)    == todo # <<>> /\ Head(todo).call = call
Instead(calls) == todo' = calls \o Tail(todo)

Each(seq, Op(_)) == [i \in DOMAIN seq |-> Op(seq[i])]

AndLists(order, flag) == Each(order, LAMBDA P : [call |-> "list", list |-> P, flag |-> flag])

(* Event::notify: a list becomes active with the last of its events.  In   *)
(* which order an event calls its lists is not defined.                    *)
notify ==
  LET e == Head(todo).event
  IN  /\ Doing("notify")
      /\ enabled' = enabled \cup {e}
      /\ \E order \in SetToSeqs({P \in Lists : e \in P /\ P \subseteq enabled'}) :
           Instead(AndLists(order, TRUE))
      /\ UNCHANGED <<tok, live, state, ct, on, holds, pending, runnable, running>>

(* Event::reset: an active list becomes inactive with the first of them. *)
resetEvent ==
  LET e == Head(todo).event
  IN  /\ Doing("reset")
      /\ enabled' = enabled \ {e}
      /\ \E order \in SetToSeqs({P \in live : e \in P}) : Instead(AndLists(order, FALSE))
      /\ UNCHANGED <<tok, live, state, ct, on, holds, pending, runnable, running>>

(* Event::renotifyListener: the active lists tell their listeners again. *)
renotifyListener ==
  LET e == Head(todo).event
  IN  /\ Doing("renotify")
      /\ \E order \in SetToSeqs({P \in live : e \in P}) : Instead(AndLists(order, TRUE))
      /\ UNCHANGED <<tok, enabled, live, state, ct, on, holds, pending, runnable, running>>

\* Mutant: an executing actor searches, too.
HearsExecuting(m, P, flag) ==
  /\ on[m]
  /\ \E i \in DOMAIN Current(m) : ListOf(Current(m)[i]) = P
  /\ flag \/ ct[m] # 0

(* An active actor listens on the lists of its current state; while it     *)
(* executes it ignores what it hears, and when a list becomes inactive it  *)
(* only cares if it has a transition to lose.                              *)
Hears(m, P, flag) ==
  /\ on[m] /\ m # running
  /\ \E i \in DOMAIN Current(m) : ListOf(Current(m)[i]) = P
  /\ flag \/ ct[m] # 0

(* The schedulers' requests after the listeners' search: notifyActivation  *)
(* with what it found, or cancelled if nothing is left.                    *)
Answered(hears, flag) ==
  IF flag THEN pending \cup {m \in hears : ct'[m] # 0}
          ELSE pending \ {m \in hears : ct'[m] = 0}

(* NodeBase::signaled of every listener of a list that changed. *)
signaled ==
  LET P     == Head(todo).list
      flag  == Head(todo).flag
      hears == {m \in Node : Hears(m, P, flag)}
  IN  /\ Doing("list")
      /\ live' = IF flag THEN live \cup {P} ELSE live \ {P}
      /\ UNCHANGED <<tok, enabled, state, on, holds, runnable, running>>
      /\ ct' = [m \in Node |-> IF m \in hears THEN FirstReady(m)' ELSE ct[m]]
      /\ pending' = Answered(hears, flag)
      /\ Instead(<<>>)

(* The walks of EventMapManager. *)
EachEvent(call, c, side, order) ==
  Each(order, LAMBDA n : [call |-> call, event |-> <<c, side, n>>])
EachAgain(c, side, order, count) ==
  Each(order, LAMBDA n : [call |-> IF n <= count THEN "renotify" ELSE "reset",
                          event |-> <<c, side, n>>])
EventCalls(call, c, side, orders) == {EachEvent(call, c, side, order) : order \in orders}

Upwards(S)   == {order \in SetToSeqs(S) : \A i, j \in DOMAIN order : i < j => order[i] < order[j]}
Downwards(S) == {order \in SetToSeqs(S) : \A i, j \in DOMAIN order : i < j => order[j] < order[i]}

Count(c, side) == IF side = "data" THEN tok[c] ELSE Depth[c] - tok[c]
EventMapOf(c, side) ==
  [n \in {e[3] : e \in {x \in Events : x[1] = c /\ x[2] = side}} |-> <<c, side, n>> \in enabled]

(* The calls of a walk, in the order of the map. *)
Walk(chan, side, kind) ==
  LET map == EventMapOf(chan, side)
      n   == Count(chan, side)
  IN  CASE kind = "increasedCount" ->
             EventCalls("notify", chan, side, Downwards(notifiedBy(map, n)))
        [] kind = "decreasedCount" ->
             EventCalls("reset", chan, side, Upwards(resetBy(map, n)))
        [] kind = "decreasedCountRenotify" ->
             {EachAgain(chan, side, order, n) : order \in Upwards(DOMAIN map)}
        [] kind = "reset" ->
             EventCalls("reset", chan, side, Upwards(DOMAIN map))

walk ==
  /\ Doing("walk")
  /\ \E calls \in Walk(Head(todo).chan, Head(todo).side, Head(todo).kind) : Instead(calls)
  /\ UNCHANGED <<tok, enabled, live, state, ct, on, holds, pending, runnable, running>>

WalkCall(c, side, kind) == [call |-> "walk", chan |-> c, side |-> side, kind |-> kind]

(* A shared FIFO tells all readers that the tokens are others now. *)
ConsumeWalk(c) == IF c \in Shared THEN "decreasedCountRenotify" ELSE "decreasedCount"

(* commExec of an input port.  The other readers of a shared FIFO may see  *)
(* different tokens from now on.                                           *)
consume ==
  LET c == Head(todo).chan
  IN  /\ Doing("consume")
      /\ tok' = [tok EXCEPT ![c] = @ - Head(todo).n]
      /\ GuardsChange(IF c \in Shared THEN Reading(c) \ Guarded({running}) ELSE {})
      /\ Instead(<<WalkCall(c, "data", ConsumeWalk(c)), WalkCall(c, "space", "increasedCount")>>)
      /\ UNCHANGED <<enabled, live, state, ct, on, pending, runnable, running>>

(* commExec of an output port. *)
produce ==
  LET c == Head(todo).chan
  IN  /\ Doing("produce")
      /\ tok' = [tok EXCEPT ![c] = @ + Head(todo).n]
      /\ Instead(<<WalkCall(c, "space", "decreasedCount"), WalkCall(c, "data", "increasedCount")>>)
      /\ UNCHANGED <<enabled, live, state, ct, on, holds, pending, runnable, running>>

\* Mutant: the events keep what they said before the reset.
ResetWalksOnlyUp(c) ==
  <<WalkCall(c, "space", "increasedCount"), WalkCall(c, "data", "increasedCount")>>

ResetWalks(c) ==
  <<WalkCall(c, "space", "reset"), WalkCall(c, "data", "reset"),
    WalkCall(c, "space", "increasedCount"), WalkCall(c, "data", "increasedCount")>>

(* doReset of a FIFO: the marking is back before the events change. *)
resetChan ==
  LET c == Head(todo).chan
  IN  /\ Doing("resetChan")
      /\ tok' = [tok EXCEPT ![c] = Marking[c]]
      /\ GuardsChange(Reading(c))
      /\ Instead(ResetWalks(c))
      /\ UNCHANGED <<enabled, live, state, ct, on, pending, runnable, running>>

\* Mutant: only the actors are reset.
resetScopeNodes ==
  /\ Doing("resetScope")
  /\ \E nodes \in SetToSeqs(ResetScope[Head(todo).chan].nodes) :
       Instead(Each(nodes, LAMBDA m : [call |-> "resetNode", node |-> m]))
  /\ UNCHANGED <<tok, enabled, live, state, ct, on, holds, pending, runnable, running>>

(* smoc_reset_chan::produce: all channels, then all actors, each of the    *)
(* two sets in the order of its elements' addresses.                       *)
resetScope ==
  /\ Doing("resetScope")
  /\ \E chans \in SetToSeqs(ResetScope[Head(todo).chan].chans),
        nodes \in SetToSeqs(ResetScope[Head(todo).chan].nodes) :
       Instead(Each(chans, LAMBDA c : [call |-> "resetChan", chan |-> c])
                 \o Each(nodes, LAMBDA m : [call |-> "resetNode", node |-> m]))
  /\ UNCHANGED <<tok, enabled, live, state, ct, on, holds, pending, runnable, running>>

(* NodeBase::doReset, the user's reset() included. *)
resetNode(m) ==
  /\ Doing("resetNode") /\ Head(todo).node = m
  /\ GuardsChange(Guarded({m}))
  /\ state' = [state EXCEPT ![m] = Initial[m]]
  /\ UNCHANGED <<tok, enabled, live, on, runnable, running>>
  /\ ct' = [ct EXCEPT ![m] = IF on[m] THEN FirstReady(m)' ELSE 0]
  /\ pending' = IF ~on[m] THEN pending
                ELSE IF ct'[m] # 0 THEN pending \cup {m} ELSE pending \ {m}
  /\ Instead(<<>>)

\* Mutant: an actor switched on again trusts the ct it had.
setActiveStale(m, flag) ==
  /\ Doing("setActive") /\ Head(todo).node = m /\ Head(todo).flag = flag
  /\ on' = [on EXCEPT ![m] = flag]
  /\ pending' = IF flag /\ ct[m] # 0 THEN pending \cup {m} ELSE pending
  /\ Instead(<<>>)
  /\ UNCHANGED <<tok, enabled, live, state, ct, holds, runnable, running>>

(* NodeBase::setActive.  An actor that is switched off keeps its ct, and   *)
(* one that switches itself off leaves it to its scheduler to notice.      *)
setActive(m, flag) ==
  /\ Doing("setActive") /\ Head(todo).node = m /\ Head(todo).flag = flag
  /\ on' = [on EXCEPT ![m] = flag]
  /\ UNCHANGED <<tok, enabled, live, state, holds, runnable, running>>
  /\ ct' = IF flag /\ ~on[m] THEN [ct EXCEPT ![m] = FirstReady(m)'] ELSE ct
  /\ pending' = IF on[m] = flag THEN pending
                ELSE IF flag /\ ct'[m] # 0 THEN pending \cup {m}
                ELSE IF flag \/ m # running THEN pending \ {m}
                ELSE pending
  /\ Instead(<<>>)

\* Mutant: the scheduler fires once and does not loop.
executedOnce(m) ==
  /\ Doing("executed") /\ running = m
  /\ state' = [state EXCEPT ![m] = Head(todo).dest]
  /\ UNCHANGED <<tok, enabled, live, on, holds, pending, runnable>>
  /\ ct' = [ct EXCEPT ![m] = FirstReady(m)']
  /\ running' = None
  /\ Instead(<<>>)

(* NodeBase::schedule, once the transition is executed: the destination    *)
(* becomes the current state, whatever happened to it meanwhile, and the   *)
(* actor searches its next transition; the loop ends if there is none.     *)
executed(m) ==
  /\ Doing("executed") /\ running = m
  /\ state' = [state EXCEPT ![m] = Head(todo).dest]
  /\ UNCHANGED <<tok, enabled, live, on, holds, pending, runnable>>
  /\ ct' = [ct EXCEPT ![m] = FirstReady(m)']
  /\ running' = IF canFire(m)' THEN m ELSE None
  /\ Instead(<<>>)

Call == \/ notify \/ resetEvent \/ renotifyListener \/ signaled \/ walk
        \/ consume \/ produce \/ resetScope \/ resetChan
        \/ \E m \in Node : \/ resetNode(m) \/ executed(m)
                           \/ \E flag \in BOOLEAN : setActive(m, flag)

-----------------------------------------------------------------------------
(* The scheduler and the SystemC kernel.                                   *)

(* disableActor and reEnableActor, called by an action. *)
SwitchCall(s) == [call |-> "setActive", node |-> s.node, flag |-> s.flag]

(* RuntimeTransition::execute and SysteMoCScheduler::executeFiringRule:    *)
(* the action, the inputs, the outputs, port by port.                      *)
Execution(rule) ==
  Each(rule.switch, SwitchCall)
    \o Each(rule.in, LAMBDA p : [call |-> "consume", chan |-> p.chan, n |-> p.c])
    \o Each(rule.out, LAMBDA p :
         [call |-> IF resetEntry(p) THEN "resetScope" ELSE "produce",
          chan |-> p.chan, n |-> p.n])
    \o <<[call |-> "executed", dest |-> rule.dest]>>

(* The loop of scheduleRequestMethod fires m.  Its action changes m's      *)
(* variables, and its communications the tokens m's guards read.           *)
schedule(m) ==
  /\ running = m /\ todo = <<>>
  /\ GuardsChange(Guarded({m}))
  /\ todo' = Execution(Current(m)[ct[m]])
  /\ UNCHANGED <<tok, enabled, live, state, ct, on, pending, runnable, running>>

(* The method starts: its loop ends at once if the actor cannot fire any   *)
(* more.  No other method runs until it returns.                           *)
scheduleRequestMethod(m) ==
  /\ running = None
  /\ m \in runnable
  /\ runnable' = runnable \ {m}
  /\ running' = IF canFire(m) THEN m ELSE None
  /\ UNCHANGED <<tok, enabled, live, state, ct, on, holds, pending, todo>>

(* The kernel: all notified methods become runnable in the next delta      *)
(* cycle, and no cancel() stops one of them any more.                      *)
NextDelta ==
  /\ running = None /\ runnable = {} /\ pending # {}
  /\ runnable' = pending
  /\ pending' = {}
  /\ UNCHANGED <<tok, enabled, live, state, ct, on, holds, running, todo>>

(* start_of_simulation: all channels are reset, then all actors. *)
Init ==
  /\ tok = Marking
  /\ enabled = {e \in Events : e[3] <= Count(e[1], e[2])}
  /\ live = {P \in Lists : P \subseteq enabled}
  /\ state = Initial
  /\ on = [m \in Node |-> TRUE]
  /\ holds \in SUBSET Guarded(Node)
  /\ ct = [m \in Node |-> FirstReady(m)]
  /\ pending = {m \in Node : ct[m] # 0}
  /\ runnable = {} /\ running = None /\ todo = <<>>

Next == Call \/ NextDelta \/ \E m \in Node : schedule(m) \/ scheduleRequestMethod(m)

Spec == Init /\ [][Next]_vars

(* The SystemC kernel runs as long as anything is notified. *)
FairSpec == Spec /\ WF_vars(Next)

-----------------------------------------------------------------------------
(* Every variable has its type; in particular no FIFO ever holds fewer     *)
(* than none or more than Depth tokens.                                    *)
TypeOK ==
  /\ \A c \in Chan : tok[c] \in 0 .. Depth[c]
  /\ enabled \subseteq Events /\ live \subseteq Lists
  /\ \A m \in Node : /\ state[m] \in DOMAIN Rules[m]
                     /\ ct[m] \in 0 .. Len(Rules[m][state[m]])
  /\ on \in [Node -> BOOLEAN]
  /\ holds \subseteq Guarded(Node)
  /\ pending \subseteq Node /\ runnable \subseteq Node
  /\ running \in Node \cup {None}
  /\ running = None => todo = <<>>

(* No change is on its way through the events. *)
Settled == todo # <<>> => Head(todo).call \notin {"notify", "reset", "renotify", "list", "walk"}

(* Between two communications the events and the lists tell the truth      *)
(* about the tokens and places of all FIFOs.                               *)
EventsTrue ==
  Settled => /\ \A e \in Events : e \in enabled <=> e[3] <= Count(e[1], e[2])
             /\ \A P \in Lists : P \in live <=> P \subseteq enabled

(* The transition an active actor has in mind is the first one, in the     *)
(* order of its state's list, whose tokens, places and guard allow it:     *)
(* neither a change it slept through nor one that came in the middle of a  *)
(* cascade of events has left it with a stale choice.  schedule()'s        *)
(* assertion ct->check() is a consequence.                                 *)
Executing(m)  == running = m /\ todo # <<>>
Missing(m, i) == \E e \in ListOf(Current(m)[i]) : e[3] > Count(e[1], e[2])
Allowed(m, i) == ~Missing(m, i) /\ (Current(m)[i].guarded => <<m, state[m], i>> \in holds)

ChoiceExact ==
  Settled => \A m \in Node : on[m] /\ ~Executing(m) =>
               \A i \in DOMAIN Current(m) :
                 /\ i = ct[m] => Allowed(m, i)
                 /\ i < ct[m] \/ ct[m] = 0 => ~Allowed(m, i)

(* An active actor that can fire has a request on its way to its           *)
(* scheduler: switching off and on, resets, cancelled requests and firings *)
(* of other actors never lose the last one.                                *)
NoLostActivation ==
  Settled => \A m \in Node : canFire(m) => m \in pending \cup runnable \cup {running}

(* NodeBase.cpp:192, "Never execute t->evaluateGuard() if events are       *)
(* reseted": a listener's search evaluates no guard function while the     *)
(* tokens it reads or the places it writes are missing.                    *)
EvaluatesInVain(m) ==
  \E i \in DOMAIN Current(m) : /\ ListOf(Current(m)[i]) \in live
                               /\ Current(m)[i].guarded /\ Missing(m, i)
                               /\ FirstReady(m) = 0 \/ i <= FirstReady(m)

GuardsSeeTokens ==
  [][ Doing("list") => \A m \in Node : Hears(m, Head(todo).list, Head(todo).flag)
                                         => ~EvaluatesInVain(m)' ]_vars

(* Where it holds: every FIFO has one reader and one writer, and nothing   *)
(* is reset.                                                               *)
PointToPoint ==
  /\ ResetChan = {}
  /\ \A t, u \in Transitions :
       /\ \A p \in Range(RuleOf(t).in) : \A q \in Range(RuleOf(u).in) :
            p.chan = q.chan => t[1] = u[1]
       /\ \A p \in Range(RuleOf(t).out) : \A q \in Range(RuleOf(u).out) :
            p.chan = q.chan => t[1] = u[1]

(* NodeBase.cpp:204 (debug build), "Event was enabled but transition       *)
(* vanished!": a listener told of an enabled event keeps a transition.     *)
NothingVanishes ==
  [][ Doing("list") /\ Head(todo).flag =>
        \A m \in Node : Hears(m, Head(todo).list, TRUE) /\ ct[m] # 0 => ct'[m] # 0 ]_vars

(* An actor that can fire gets its turn: no other actor's scheduler loop   *)
(* and no chain of deltas keeps it waiting for ever.                       *)
Served ==
  \A m \in Node : canFire(m) ~> (running = m \/ ~canFire(m))

(* What a FIFO's tokens, an actor's state and its active flag will be when *)
(* the calls are done.  A call that resets c makes the earlier ones on c   *)
(* irrelevant, and the last one of a firing gives its actor its state.     *)
Clears(x, c) == \/ x.call = "resetChan" /\ x.chan = c
                \/ x.call = "resetScope" /\ c \in ResetScope[x.chan].chans
Restarts(x, m) == \/ x.call = "resetNode" /\ x.node = m
                  \/ x.call = "resetScope" /\ m \in ResetScope[x.chan].nodes
Switches(x, m) == x.call = "setActive" /\ x.node = m

Moved(calls, name, c) ==
  LET moves == {i \in DOMAIN calls :
                  /\ calls[i].call = name /\ calls[i].chan = c
                  /\ \A j \in DOMAIN calls : i < j => ~Clears(calls[j], c)}
  IN  IF moves = {} THEN 0 ELSE calls[CHOOSE i \in moves : TRUE].n

TokAfter == [c \in Chan |->
  (IF \E x \in Range(todo) : Clears(x, c) THEN Marking[c] ELSE tok[c])
    - Moved(todo, "consume", c) + Moved(todo, "produce", c)]
StateAfter == [m \in Node |->
  IF Executing(m) THEN Last(todo).dest
  ELSE IF \E x \in Range(todo) : Restarts(x, m) THEN Initial[m] ELSE state[m]]
OnAfter == [m \in Node |->
  \/ on[m] /\ \A x \in Range(todo) : ~Switches(x, m)
  \/ \E i \in DOMAIN todo : /\ Switches(todo[i], m) /\ todo[i].flag
                            /\ \A j \in DOMAIN todo : i < j => ~Switches(todo[j], m)]

(* Every firing, its whole cascade of calls included, is one atomic firing *)
(* of the dataflow graph: seen with the calls of todo already done, tokens *)
(* states and active flags change only when a firing starts, and then by a *)
(* transition whose tokens and places are there.                           *)
Graph == INSTANCE Dataflow WITH tok <- TokAfter, state <- StateAfter, on <- OnAfter
ImplementsDataflow == Graph!Spec
=============================================================================
