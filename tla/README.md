# SysteMoC: models, checks and proofs

SysteMoC is a C++ library on top of SystemC for actor-oriented (dataflow) models: *actors* with
finite state machines exchange tokens over bounded *channels*; an actor takes a transition when the
tokens it reads and the places it writes are there and a guard function agrees. This directory
models the run time (channels, the events through which channels wake actors, the search for a
transition, the scheduler, resets, periodic actors, the adapters for SystemC threads), the
flattening of hierarchical state machines before it, the designs that are built on it (regression
tests, tutorial, actor library), and the tools around the network-graph format. All paths are
relative to the repository root; `H/` is `src/systemoc/headers/smoc/detail/`, `C/` is
`src/systemoc/cpp/detail/`.

## The system and its parts

| Part | State | Operations | Talks to | Hard because | Correct if |
|---|---|---|---|---|---|
| Ring index arithmetic (`H/Queue{RW,RVW,FRVW}Ptr.hpp`) | findex, rindex, vindex, windex | `wpp vpp rpp fpp`, counts, drop, reset | owned by a FIFO | modulo arithmetic, full against empty | indices never overrun one another |
| Event maps (`H/EventMapManager.hpp`) | one event per awaited count | `increasedCount`, `decreasedCount`, `decreasedCountRenotify`, `reset` | called by channels, call events | walks stop early | event enabled = count reached |
| FIFO (`H/FifoChan*.hpp`, `H/Fifo{Entry,Outlet,Storage}.hpp`, `H/QueueWithStorage.hpp`, `H/Storage.hpp`) | indices, slots, two event maps | `commStart/commFinish/commExec` of both sides, `latencyExpired[_dropped]`, `doReset` | ports of two actors; a latency simulator | split communications in any order, dropped writes | a bounded queue: nothing lost, duplicated, reordered |
| Multi-reader FIFO (`src/systemoc/cpp/smoc_multireader_fifo.cpp`) | the same | `consume`, `produce`, renotification | several readers | readers race for the same tokens | all readers learn what one took |
| Actor run time (`C/NodeBase.cpp`, `C/FSM/Runtime*.cpp`) | currentState, ct, executing, active, listeners | `signaled`, `searchActiveTransition`, `schedule`, `doReset`, `setActive` | events call it, it calls its scheduler and its channels | runs inside a cascade of events | ct is exact whenever it is used |
| Built-in scheduler (`C/SysteMoCSimulator.cpp`) | one `sc_event` per actor | `notifyActivation`, `scheduleRequestMethod`, `executeFiringRule` | SystemC kernel | notify and cancel in any order | nobody who can fire sleeps |
| Reset channel, graphs (`src/systemoc/cpp/smoc_reset.cpp`, `C/GraphBase.cpp`, `src/systemoc/cpp/smoc_graph.cpp`) | sets of channels and actors | reset, enable, disable | channels, actors | run in the middle of a firing | as above, afterwards |
| Hierarchical state machines (`C/FSM/`) | states, transitions | `finalise`, flattening | produces the run-time states | AND, XOR, junctions, guards over state | flat machine = hierarchical one |
| Multiplex FIFO (`src/systemoc/headers/systemoc/smoc_multiplex_fifo.hpp`) | shared ring, virtual FIFOs | as FIFO, per virtual FIFO | ports | out-of-order window | each virtual FIFO is a queue |
| Periodic actor (`src/systemoc/cpp/smoc_periodic_actor.cpp`) | next release time, period counter, flags | `updateReleaseTime`, `canFire`, `schedule` | scheduler, SystemC's clock | unsigned time, late data, jitter | one firing per period, none lost or late |
| Registers (`H/Register*.hpp`) | one slot | write, read, reset | ports | overwriting, no events | the last value is seen |
| Channel adapters (`src/systemoc/headers/systemoc/smoc_chan_adapter.hpp`) | which thread is blocked in what | `get peek put`, `nb_*`, transport | a FIFO, SystemC threads | blocking calls interleave | a TLM queue |
| SNG dumper (`C/SNGDumper.cpp`) | expected and unresolved connections per visitor | one visitor per graph, actor, channel | the elaborated design | an edge is resolved levels above its ends | the dump is the design |
| Network-graph library and tools (`src/systemoc-sng/`, `tools/src/`) | a bipartite graph | `loadSNG`, `saveSNG`, `transform`; drawing an SDF graph | files | every number is random; unsigned arithmetic | requested shape, live, within budget |
| Actor library (`src/actorlibrary/`) | per block | one transition per block | channels | C++ integer semantics | the block's function |
| Tests and tutorial (`testcases/`, `tutorial/`) | per design | transitions of their actors | channels | feedback, small buffers | the golden log in every order |
| Context, ids, `SMXDumper`, `SMXImporter`, `TraceLog` | options, ids, XML | I/O | everything | - | not modelled |

`PROJECT.json` lists every component with what is and is not modelled, and the hazards with the
properties aimed at them.

## Modules

| Module | What it is |
|---|---|
| `RingQueue` | the index classes: counts, moves, and what each move asserts; `Depth` is any positive number |
| `EventMap` | the two stopping walks as sets: which events a count change notifies or resets |
| `RingStorage` | the slots: construction, invalidation, moving tokens up for a dropped write |
| `TokenStream` | abstract FIFO: pipeline, visible tokens, places being consumed |
| `FifoChan` | `smoc_fifo`: composes `RingQueue`, `RingStorage` and `EventMap`; implements `TokenStream` |
| `RingStorage_proof` | lemmas for every channel on a ring: distances, walks over exact event maps, slots |
| `FifoChan_proof`, `FifoStream_proof` | theorems of `FifoChan`: the invariants; slots and the refinement of `TokenStream` |
| `VirtualFifos` | abstract multiplex FIFO: one queue per virtual FIFO |
| `MultiplexFifo` | `smoc_multiplex_fifo`: the same ring with coloured tokens and a window; implements `VirtualFifos`, and `TokenStream` if nobody reads a virtual FIFO |
| `MultiplexFifo_proof`, `MultiplexQueues_proof` | its theorems: the invariants; the two refinements |
| `Dataflow` | abstract graph: an active actor with enough tokens and places fires, at once |
| `Actors` | actors, events, lists, schedulers, FIFO counts, shared FIFOs, resets; implements `Dataflow` |
| `Actors_proof` | its theorems |
| `StateChart` | what a hierarchical state machine means: legal configurations and the one a transition leads to, described by what is true of it |
| `HierFSM` | `FiringFSM`: codes, expanded transitions, product states, the moves of the flat machine; implements `StateChart` |
| `PeriodicActor` | `smoc_periodic_actor` on the scheduler with timed notifications, time modulo `Wrap` |
| `PeriodicActor_proof` | its theorems |
| `TlmFifo` | abstract: a bounded queue with blocking, peeking and non-blocking calls |
| `ChanAdapter` | `smoc_chan_adapter` on top of `FifoChan`; implements `TlmFifo` |
| `ChanAdapter_proof` | the refinement, on the theorems of `FifoChan` |
| `Network` | a design: channels, registers, firings as one step each, resets, the log of each actor |
| `SrcSnkDesigns`, `ComputeDesigns`, `FsmDesigns`, `ClusterDesign`, `TutorialDesigns` | the tests and the tutorial, one `...Net` (the elaborated graph and its golden log) and one `...Next` (its actors) each |
| `LibraryBlocks`, `LibraryDesigns` | what the blocks of the actor library compute, and networks of them |
| `Designs` | composes the design modules |
| `SngGraph` | the network graph of the tools, its file, `loadSNG`, `saveSNG`, `transform` |
| `GenerateSdf` | `sng-generate-sdf` from command line to file, then `sng-to-dot` |
| `SngDumper`, `Tools` | `dumpSNG`; both sources of graphs and their reader |
| `MCFifoChan`, `MCMultiplexFifo`, `MCActors`, `MCHierFSM`, `MCChanAdapter`, `MCTools` | small instances for TLC |

**FifoChan.** A communication has two halves. The library's own scheduler runs them back to back
(`commExec`); a simulator of communication latency runs them apart and may drop a write. The model
keeps the halves apart (`EntryCommStart`, `EntryCommFinish`, `OutletCommStart`,
`OutletCommFinish`), of which the back-to-back order is one schedule, and counts what has been
started and not finished (`inFlight`, `inConsume`). The guards are the code's: a start needs its
*event*, not the room itself. That the room is there is the theorem `Assertions`. `doReset` is
enabled only when nothing is half done, because the only simulator that splits communications is
outside the repository.

**MultiplexFifo.** Readers of a virtual FIFO see the tokens of its colour among the first
`fifoOutOfOrder + 1` visible ones (the window). `VOutletCommStart` is `consume()`: it takes a token
from inside the window, moves the older ones up (`closeGap`), and announces the tokens that slide
into the window to their readers, which keep counts of their own (`countAvailable` in `outlets`). The loops over
the ring are written as what they compute; `AssertionsHold` is what the loops assert, and
`SearchEnds` that the search of `operator[]` finds its token, which the code does not check.
The tokens of a colour (`OfColors`) and an outlet that is told of several (`hears`) are recursive
functions.

**HierFSM.** `PlaceOf` gives each state its code and bits, `ExpandedTransitions` is `etl` in the
order `finalise()` fills it, `LookAt` is one round of the loop in `before_end_of_elaboration()` and
`Fire` a move of the finished machine. A partial transition has a *rule*, which stands for its
guard and its action; through junctions a transition collects several. Guards may have any value,
but the same rule has one value: a transition is not taken if an earlier one asks for no more.

**Actors.** Below a firing everything is one synchronous cascade of C++ calls: action, then
`commExec` port by port; each changes a count, walks an event map, each event runs down its event
lists (`smoc_event_and_list`, shared by `getCAP`), each list signals its listeners, each listener
searches its transitions and evaluates guards. `todo` is the call stack of that cascade seen as the
sequence of calls still to be made, and each call is one step; no other process moves in between,
as in SystemC. So the half-updated states in which listeners run are states of the model. Two
orders that the code leaves to addresses are free: the lists of one event, and the elements of a
reset channel's sets. A walk (`Walk`) is the set of its possible call sequences, of which there is one,
as the order of the map is known. `holds` is the set of transitions whose guard function is true. It changes,
arbitrarily, when what a guard may read changes: with its actor's own firing or reset, and, if its
transition names the FIFO as input, when another reader of a shared FIFO consumes or the FIFO is
reset. Tokens of other ports a guard cannot see: `RuntimeTransition::check()` opens the ports of its
own rule only, and only while it evaluates the guard (`commSetup`, `commReset`,
`C/FSM/RuntimeFiringRule.hpp:74-102`). `pending`, `runnable`,
`running` are SystemC's delta cycle: a notified method runs in the next one, `cancel()` removes it
only until then, and a method runs to its end.
Channels are counts here (`tok`); that a FIFO really behaves as a count with exact events is what
`FifoChan` establishes. The atomic graph (`Dataflow`) sees the calls of `todo` as done: `TokAfter` is
the count with all communications still due made, of which a reset of the FIFO makes the earlier
ones void; `StateAfter` the state after the resets due or, of the firing actor, its destination;
`OnAfter` what the last `setActive` due says.

**PeriodicActor.** `scheduleRequest` is a set of at most one notification time; of two pending ones
SystemC keeps the earlier. `notifyActivation` computes `nextReleaseTime - now` in unsigned
arithmetic and the kernel adds it to the clock again, both modulo `Wrap`. One call of `canFire` in
the scheduler's loop is one of `CannotFire`, `TooEarly`, `schedule`. What ports and other actors do
to the actor (signals, resets, switching) may happen at any time between two methods.

**ChanAdapter.** The halves of a communication run back to back here, as the adapters call
`commExec`. A call that would block is a step that sets `reader` or `writer`, and the return from
`smoc_wait` another. `KeepsBytes` says whether the destructor of the token type leaves the bytes of
a token alone, on which `get()` depends (see below).

**Network and the designs.** `Fire(a, takes, gives, state, prints)` is one firing: it needs the
tokens and the places, and does all its effects at once, which `ImplementsDataflow` shows the run
time does. A design's constants (how long its source runs, the factor of the cluster, the message of the
tutorial) are cut to bounds; channel sizes, initial tokens and rates are those of the source. A
token is the value the actors see; a `double` is kept as far as its reader compares it. Golden logs
are stated per actor, as functions of the bounds, because that is how the test driver compares
them: `testcases/scripts/runtest.py:75-92` with the filter of `testcases/Makefile.am:122` sorts the
lines by the actor that prints them. For the tests that run without such a filter only the order per
actor is checked, not the order between actors. Every actor that prints has its log; time stamps and what
the actor library prints for debugging are left out. Two actors do not have one log but a set
of them. The sink of the tutorial's data-flow, behind a merge, may print any interleaving of the two
messages. In `test-fsm-hierarchy-and` two transitions of multi-states are equally urgent and
their order is that of addresses (`C/FSM/FiringFSM.cpp:234`); in one order the transformer makes a
detour for every token, in the other only while the sink has not yet emptied the channel. `golden.log`,
without a detour, is one of the permitted logs.

**GenerateSdf.** One step per random choice, in the order of the code: options, clusters and their
sizes, channels inside and between clusters, channels that join components, source actor, border registers,
initial tokens (by playing an iteration and forcing an actor when none is ready), extra delay,
token sizes, file. Numbers the code leaves uninitialised may have any of the values they can take.

**SngDumper.** A design is a tree of graphs. `dumpSNG` is written as what a visitor has expected,
resolved and handed up when it is left.

## What is checked

| Run | Instance | Shows |
|---|---|---|
| `fifo` | depth 4, two token values, one initial token, writers of 1, 2 or 4 and readers of 1, 2, 3 or 5 tokens | types, area arithmetic, exact events, assertions, slot validity, refinement of `TokenStream` |
| `multiplex` | two virtual FIFOs, depth 4, window of two, one initial token each, one virtual and one plain writer; with virtual readers or without | types, exact window counts and events, assertions, slot validity, refinement of `VirtualFifos` and, without virtual readers, of `TokenStream` |
| `pipeline` | 3 actors, 2 FIFOs of depth 2, rates depending on state, an actor that is switched off by itself and its reader and on by both neighbours | types, no lost request, guards see their tokens, everyone is served, refinement of `Dataflow` |
| `shared` | one writer, two racing readers of a multi-reader FIFO of depth 3, all guarded, and resets of FIFOs, a reader and the controller itself | exact events and choices, refinement of `Dataflow` |
| `fsm` | every tree of four or five states (each inner state AND or XOR, first or last child initial) with all permitted transitions, junctions and conditions, and with one forbidden transition more; the machines of `test-fsm-hierarchy-and` and `test-fsm-junction-state` | no transition lost or added, errors are deserved, priorities, the tests' `fsms.dot`, refinement of `StateChart` |
| `periodic` | period 3, offset 1, mobility 1, four periods | no release is lost, early or doubled, and none late while its data are there |
| `adapter` | depth 2, one initial token, a reading and a writing thread that may use every adapter, values or void | refinement of `TlmFifo`, blocked threads come back |
| `designs` | all designs, sources of 6 tokens | in every order of firings every actor prints its golden log, or one of those its design permits, and every order completes it |
| `tools` | nine command lines for up to three actors, with source actor, with border registers and without both; designs of two or three actors below up to two graphs | the drawn graph has the shape asked for, is live, stays within the budget and survives file and loader, which refuse exactly the graphs without actors, with an unconnected actor or with two actors of one name; the dump is the design; the tool comes to an end |
| `shared_vanishes`, `multiplex_initial`, `fsm_only_child` | the instance of `shared`; depth 3, no overtaking; trees of three states with only children | statements that do not hold, see below |

*Bounds.* Depth 4 with five slots lets every index wrap while every area is non-empty, and lets
visible tokens be moved across the end of the ring. Threshold 5 is never reached, so an event map
has an event beyond the walk. In the actor instances depth 2 or 3 and rates 1 and 2 give every
FIFO two events per side, which is what a walk with an order needs, and every actor that is woken
has two transitions or two states. A window of two on a ring of four is smaller than the ring and
larger than one, so tokens wait outside of it, are overtaken and slide in. Five states are an AND
state with an XOR partition and a leaf partition, or an XOR state in an XOR state, next to or
instead of other states; the machine of the AND test has AND states inside AND states and 20 states.
States other than the top one have two children or more in `fsm`; only children are the subject of
`fsm_only_child`. Period 3 with mobility 1 and offset 1 lets jittered releases of two periods lie
one tick apart, `MaxTime` 12 leaves four periods of which any number may be missed, and `Wrap` 32 is the
smallest power of two beyond every time that occurs, so only a negative difference wraps. Depth 2
lets either thread of `adapter` block. `Iter` 6 is more than the places of the FIFOs of most designs, so that they fill and actors wait for
room; the one with changing rates has FIFOs of 10 places, and its source sends 9 * `Iter` tokens. The
`sc_fifo`s of `systemc-sqr` and the FIFO of `fsm-dynamic` have 16 places and do not fill. `Steps` 2 lets the
square-root loop go round up to three times per number; `Factor` 2 and `Dummies` 1 (10 and 5 in the test)
keep the cluster multi-rate and its chains longer than one actor. Three actors
are the fewest with a component to join besides a cluster of two; an internal volume of 100 and a
border volume of 9 leave remainders in the divisions. `MaxTime` is the one bound that a guard adds (`Tick`);
otherwise the state spaces are finite because FIFOs, sources and drawn graphs are.

*Deadlock* is checked in `fifo`, `multiplex`, `periodic` and `adapter`, where no state is final. It
is not in the actor runs (a graph whose guards all refuse, or whose actors are all switched off,
stops), in the `fsm` runs (a rejected machine stops), in `designs` (a source runs dry) and in `tools` (a
program ends). There `Served`, `RunsComplete` and `Finishes` say that they do not stop early.

*Fairness.* For actors and designs `WF_vars(Next)`: the SystemC kernel keeps executing as long as a
process is notified, and every C++ call returns. Nothing is assumed about which process goes first.
`Served` is therefore a fact about requests and delta cycles. An actor whose transitions need no port
and whose guards stay true is never left by the loop `while (canFire()) schedule()`, and then nobody
else is served: that is how the code is meant, and a hazard for its user. `Served` is stated for
`pipeline`, where every transition has a port. In `adapter`, weak fairness of getting, peeking and putting: the kernel continues a
thread whose event stays enabled, and the threads of the co-simulation tests call again in a loop;
`ThreadsServed` needs that the thread at the other end goes on. In `tools`, weak fairness of the
generator's next step: a program runs. `periodic` needs none, as it says that time does not pass (`Punctual`).

### Where the code and its documentation disagree

1. `NothingVanishes` (`C/NodeBase.cpp:204`, an assertion of debug builds; run `shared_vanishes`).
   `EventMapManager::decreasedCountRenotify`, used by multi-reader FIFOs only, renotifies a reader
   whose guard accepted the head token after another reader took it; its guard refuses the next
   one, and the transition vanishes on an enabled event. Release builds continue correctly.
2. `SearchEnds` (`src/systemoc/headers/systemoc/smoc_multiplex_fifo.hpp:204`; run
   `multiplex_initial`). `doReset()` announces every initial token to its reader,
   `latencyExpired()` and `consume()` only those that enter the window. With more initial tokens
   than the window holds one is announced twice, and its reader counts a token that is not there.
   With as many as the window holds all is well (`multiplex`).
3. `TransitionsComplete` (`C/FSM/StateImpl.cpp:137`; run `fsm_only_child`;
   `tutorial/tex/hierarchy.tex:124`: transitions of an XOR state "are added (recursively) to all
   child states"). An only child has no bits of its own and is not recognised as a descendant of
   its parent, so the parent's transitions are lost while it is active. This rests on `flog2c(1) =
   0`; the function is CoSupport's.

### Observations without a run

Met while modelling; the models do what the code does, so that the runs show them on demand.

- *Guards and multi-reader FIFOs* (`C/NodeBase.cpp:192-197`: guards are never executed while
  availability is worse than denoted). The renotifying walk goes upwards and tells readers of the
  thresholds still reached before it resets those no longer reached, so a guard may read a token
  that was just consumed. `GuardsSeeTokens` holds in every graph of point-to-point FIFOs without
  resets (theorem `ActorsGuards`) and fails on the instance of `shared`; the choice is corrected by
  the reset that follows (theorem `ActorsChoices`).
- *Adapters.* `get()` copies the token after `commExec(1)` has destroyed it (`smoc_chan_adapter.hpp:233`).
  For `int` nothing is lost; with `KeepsBytes = FALSE`, `ImplementsTlm` fails.
- *Registers.* The reset at the start of a simulation empties a register and does not bring its
  initial token back (`H/RegisterStorage.hpp:93`).
- *Generator.* More outputs than actors wrap around and no actor gets one
  (`sng-generate-sdf.cpp:313`); `vdSource` is uninitialised when no source was asked for (1096,
  1115); blocks that all have weight 0 draw from an empty range when clusters are chosen at
  random (953), and so does the border of a graph without actors (1137); without border such a graph, like one of a single
  unconnected actor, is written and refused by the schema (`sng.xsd:59`, 108-109); a block of weight 0 takes the key of the
  block before it (928); two blocks of one type give two actors one name, which `loadSNG` refuses
  (309); the delay of a multicast channel may fill it for one of its readers and trip the
  assertion of the deadlock check (1233, 412); the help text of the extra delay says `cons(edge)`,
  the code takes the production rate (1251, 766-769); `channelsBetweenClusters` is never filled
  (1260); a read ratio without multicast channels divides zero by zero (1354).
- *Dumper.* Multi-reader, multiplex and reset channels are not dumped and their ports dangle
  (`C/SNGDumper.cpp:719-733`); a FIFO nobody reads gives a file the schema refuses (496), which is
  the one way `DumpExact` permits a refusal.
- *Designs.* The transition to `stuck` in `testcases/src/test-cluster-example/cpp/DynSwitch.hpp:222` has the
  guard `invocation_id < num_iterations`, where the same transition of the other path has `>=`.
- *Library.* `MinMax` starts from 0 (`MinMax.hpp:34`), `RelationalOperator` compares its inputs as
  Booleans (67), `Lookup` reads past its table (70), the state of `DiscreteIntegrator` is
  uninitialised until its first firing (57).

## What is proved

Each theorem holds for every value of the constants that the named assumptions allow.

| Module | Theorems | From |
|---|---|---|
| `FifoChan_proof` | `TypeOK`, `AreasAddUp`, `EventsExact`, `AssertionsHold` are invariants | `FifoInv` |
| `FifoStream_proof` | `SlotsValid` is an invariant; `smoc_fifo` implements `TokenStream` | `StreamInv` |
| `ChanAdapter_proof` | the adapters implement `TlmFifo` if `KeepsBytes` | `AdapterInv` |
| `PeriodicActor_proof` | `NoLostRelease` is an invariant; `Punctual`, `OncePerPeriod` | `PeriodicInv` |
| `MultiplexFifo_proof` | `TypeOK`, `WindowExact`, `EventsExact`, `AssertionsHold`, `SlotsValid`, `SearchEnds` are invariants if `Fits` | `MuxInv` |
| `MultiplexQueues_proof` | `smoc_multiplex_fifo` implements `VirtualFifos` if `Fits`, and `TokenStream` without virtual readers | `MuxInv` |
| `Actors_proof` | `TypeOK`, `EventsTrue`, `NoLostActivation` are invariants; `FiringsCovered` | `ActorsInv` |
| `Actors_proof` | `ChoiceExact` is an invariant; `GuardsSeeTokens` if `PointToPoint` | `ChoiceInv`, `PromiseInv` |
| `Actors_proof` | the run time implements `Dataflow` | `ActorsInv` |

**The FIFO** (`DepthAssumption`, `FifoAssumption`: the depth is positive and the marking fits; any
token type and any thresholds). `FifoInv` is the conjunction of `TypeOK`, `AreasAddUp` and
`EventsExact`, none of which is inductive alone: a write is guarded by its event, so the indices stay
in order only if events are exact; a walk leaves the map exact only if it was exact for the old
count; and the counts move by the expected amount only if the indices are in order. The lemmas come
in three groups, in `RingStorage_proof`: arithmetic of distances on a ring (`Nearer`, `Farther`, `Distance`, `Around`) and
what each index move does to all four counts (`WppCounts` ... `DropCounts`); a walk over an exact map
leaves an exact map (`IncreasedExact`, `DecreasedExact`, `DisabledExact`), although it stops early;
and the types of the slots. Each action then has one lemma, and `Invariance` puts them together.

*Its contents.* `StreamInv` adds `SlotsValid`, without which a slot that a step moves into the
visible area need not hold a token. The lemmas say what the sequence of the slots between two indices
(`Slice`) becomes when either index moves by some places, and when a dropped write moves the
visible tokens up by one (`RingStorage_proof`, second half); each action is then shown to be a step of
`TokenStream` or to leave its three queues as they are (`NextStream`).

**The multiplex FIFO** (`DepthAssumption`, `MultiplexAssumption`: the depth is positive, the window not
larger than the ring, the marking fits; any colours, tokens and thresholds). `MuxInv` is about the
ring (`RingInv`), the writers' events (`WriterInv`), the events of the plain reader (`ReaderInv`) and the virtual readers (`OutletInv`): each has been told of exactly the tokens of its
colour in the window, and its event map says so. None stands alone: `consume()` finds its token in the window
because the outlet's count is exact, and the counts stay exact because what `closeGap` moves up keeps its
order, so that the tokens that enter the window are those behind it before. The lemmas say what `OfColors` gives of
a sequence put together from two, of its beginnings, and of one from which some tokens of a colour were
taken; the claims over recursive functions that need induction (`OfColors`, `hears`) are reduced to a set of
numbers or lengths for which the claim holds (`NatSet`, `SeqSet`), since the induction theorems with an operator
parameter cannot be used. `MultiplexQueues_proof` then maps each step to one of `VirtualFifos`.

Two hypotheses are needed and both are real. `Fits` (nobody reads a virtual FIFO, or the initial tokens fit into the window): without it
`doReset()` announces tokens twice, which is what the run `multiplex_initial` finds. `0 \notin DataThresholds` for
`EventsExact` alone: after `reset()` the event of a transition that asks a virtual FIFO for no
token at all stays disabled until a first token comes. The instance of `multiplex` satisfies both.

**The adapters** (`AdapterAssumption`: the events of threshold 1 exist). `AdapterInv` is `StreamInv`
and no communication half done. Then the two events the adapters ask say exactly whether the queue is
empty or full (`AdapterFacts`), a call blocks or refuses only then, and what it returns is the head
of the queue. The hypothesis `KeepsBytes` of `TlmRefinement` is the one of the run: `get()` copies a token
after its destructor has run, and for a type whose destructor spoils its bytes the statement is false.

**The periodic actor** (`PeriodicAssumption`: the period is positive, the jitter smaller than the
period, and the unsigned clock does not run out).
`PeriodicInv` is `NoLostRelease` with the facts it needs: the release time is off its period by no
more than the mobility (`OnPeriod`), while the actor's method runs nothing is pending, and the
release time lies in the past if it is about to be recomputed. `NoLostRelease` is not inductive
without them. The core is `RequestInTime`: an unsigned difference that wraps around, added to the
clock modulo `Wrap`, gives the release time again, or the present if that has passed.

**The run time** (`ActorsAssumption`: a finite graph, markings that fit, rules that read no more than they
wait for, and three obligations of the designer that the code does not check: a transition names a FIFO at
most once among its inputs and once among its outputs, and writes to a FIFO it has just reset only what fits besides the
initial tokens). The invariants speak of the moments between two cascades, so the inductive one has
to say what every half-done cascade will have done when it is over. `ActorsInv` has these parts:

- `InOrder`: of any two calls of `todo` the deeper one comes first (`Rank`), one event's lists all
  rise or all fall, one walk's events are not both notified and reset, the side of a channel that
  loses is walked before the side that wins, and no communication follows one of the same kind on the same FIFO;
- `Levels`: the events as they will be after the calls due (`EventAfter`) are those up to some number
  `k`, for each side of each FIFO; `k` is the count unless a walk is still due, and then lies on the side of the
  count that this walk mends. With it a walk that stops at the first event that already is as it should be
  has missed none (`WalkOf`);
- `ListsFollow`: likewise the lists follow the enabled events once the calls to lists are done;
- `Fits`: every communication still to be made finds its tokens or places, as the ones before it do not touch them;
- `Firing`, `ChoiceLive`, `Requested`: a firing belongs to the running actor and ends with `executed`;
  an active actor's choice has its list active, except while it executes; it has its request.

Each action has one lemma. The steps that only replace a call by the calls it makes share `Cascade`,
`EventTurn`, `WalkTurn` and `ChanTurn`; a step in which one actor searches shares `ActorTurn` and
`ActorTyped`. `RestFacts` draws the conclusion: with no walk, event or list due the events are exact and the lists
follow. From it and `ChoiceLive` comes `ChosenFits`: the transition about to fire has its tokens and
places, which is what keeps `Fits`. `FiringsCovered` states it of every firing.

*Choices.* `ChoiceExact` is not inductive: in the middle of a cascade an actor's choice is stale in many
ways. `ChoiceInv` says that it is stale about a transition only as long as a call is due that will make the
actor search again (`WillTell`: a call to the transition's list, a reset or renotification of one of its events, or a walk that
makes such calls whatever it finds). A `notify` or a walk that stops early need not be counted, as
nobody is wrong before the list changes. The executing actor is exempt, since it ignores what it hears, and searches
when it is done (`ExecutedChoice`). Where `holds` changes, the calls just made due tell the readers of that FIFO (`ReadersTold`).

*Guards.* `GuardsSeeTokens` is about searches in the middle of a cascade. `PromiseInv` says of every event that has got to a
list, or is on its way to one, and promises more than its FIFO holds: only the running actor waits for it. It
took the tokens or places itself, and it does not listen while it executes. This needs `PointToPoint`
(one reader and one writer for each FIFO, no resets). `PipelineIsPointToPoint`, an assumption TLC evaluates,
says that the instance of `pipeline` is such a graph; that of `shared` is not, and there the property fails.

*Atomic firings.* `ActorsDataflow` needs no invariant beyond `ActorsInv`, but all of its `InOrder`: a communication
can be counted as made because no other of its kind on the same FIFO is due, no reset comes before an input, and
`executed` is last. `Turn` says what replacing a call by the calls it makes does to the calls due, as far as
`TokAfter`, `StateAfter` and `OnAfter` look at them. One lemma per action shows that these three stay
(`SignaledAfter`, `CommAfter`, `ResetScopeAfter`, ...); `ExecutionDue` says what all the calls of a firing come to, and with
it `ScheduleAfter` that the start of a firing is `Fire` of the atomic graph, by `ChosenFits` with tokens and places that are there.

TLC checked the parts of `ActorsInv`, `ChoiceInv`, `PromiseInv` and `MuxInv` on the instances of the runs before they were proved.

*Only model-checked.* Liveness (`Served`, `ThreadsServed`, `RunsComplete`, `Finishes`) and the dumper's
trees, which are `RECURSIVE` operators, are outside the prover's reach. `HierFSM` and `GenerateSdf` compute by
recursion over trees and graphs; `NatSet` shows a way to prove about such functions, but what their
properties need (that expansion visits every configuration once, that playing an iteration returns to the
initial tokens) has not been attempted. The designs are finite instances to begin with.

## Not modelled

- Token ids (no code reads them); elaboration: port binding errors, naming, the id pool, command-line
  options of the simulation; the static checks on state machines (`fsm` has only well-formed ones),
  the limit of 64 bits on their codes, transition hooks (the log of `test-fsm-hooking` depends on the
  order of firings) and `select()`.
- `setUseActivationCallback` and quasi-static schedules; latencies beyond the two halves of a
  communication, whose simulator is external; the build without routing.
- `SMXDumper`, `SMXImporter` and `TraceLog` write and read the formats of external libraries and do
  not influence the network. The expression templates of `smoc_guard.hpp` and the port templates are
  C++ type machinery around the guard that `Actors` takes as given.
- Of the actor library: `CFS*` and `tt/Socket.h` (I/O), `simulink/DiscreteDerivative.hpp` (does not
  compile), `tt/TT.hpp` (needs a kernel that is not in the repository); blocks for types other than `int`.
- XML syntax, the layout of the dot file, and floating point in the generator (exact numbers, rounded
  down).

External code is modelled from its use: CoSupport's `Event`, `EventAndList`, `ModuloGroup`,
`flog2c` and `smoc_wait`, SystemC's events, delta cycles and clock, and NGA's firing of SDF graphs.

## Plan

1. *Done*: `RingQueue`, `EventMap`, `RingStorage`, `TokenStream`, `FifoChan`, `VirtualFifos`,
   `MultiplexFifo`, `Dataflow`, `Actors`, `StateChart`, `HierFSM`; `FifoChan_proof`.
2. *Done*: `PeriodicActor`; `TlmFifo` and `ChanAdapter` on `FifoChan`; `Network` with registers and
   resets, and the designs on it; `SngGraph`, `GenerateSdf`, `SngDumper`, `Tools`.
3. *Done*: proofs of `SlotsValid` and of the refinement of `TokenStream`, of the refinement of
   `TlmFifo` on it, of `PeriodicActor`'s safety for every period, offset and jitter, and of
   `Actors`' types, events, requests and firings for every graph.
4. *Done*: `ChoiceExact`, `GuardsSeeTokens` for point-to-point graphs and the refinement of `Dataflow`; all
   properties of `MultiplexFifo`.
5. Open: one instance in which `Actors` composes the rings of `FifoChan` instead of counts; the hazards that
   `PROJECT.json` lists without a property, most of which concern designs the code does not refuse.
