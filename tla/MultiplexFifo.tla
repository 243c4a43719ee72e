--------------------------- MODULE MultiplexFifo ---------------------------
(***************************************************************************)
(* smoc_multiplex_fifo: virtual FIFOs that share one ring buffer.          *)
(*                                                                         *)
(* Every token carries the id of its virtual FIFO.  A reader is offered    *)
(* the tokens with its id among the first Window visible ones; when it     *)
(* takes tokens from the middle of the ring, the older ones of others are  *)
(* moved up to close the gap, and more tokens slide into the window.       *)
(*                                                                         *)
(* The multiplex FIFO has a plain writer and a plain reader as well: the   *)
(* first is for an actor that colours its tokens itself, the second hears  *)
(* of tokens only as long as no virtual FIFO has a reader.                 *)
(* The halves of a communication are taken apart as in FifoChan.           *)
(***************************************************************************)
EXTENDS RingStorage, EventMap, Integers

CONSTANTS VEntries,        \* the ids of virtual FIFOs with a writer
          Color,           \* the ids a token can carry
          Data,            \* the rest of a token
          fifoOutOfOrder,  \* how many tokens may be overtaken
          DataThresholds,  \* the n of every in(n) a transition waits for
          SpaceThresholds  \* the n of every out(n) a transition waits for

Token == [fifoId : Color, data : Data]

ASSUME MultiplexAssumption ==
  /\ fifoOutOfOrder \in Nat
  /\ fifoOutOfOrder + 1 <= Depth
  /\ VEntries \subseteq Color
  /\ NoToken \notin Token
  /\ Marking \in Seq(Token)
  /\ Len(Marking) <= Depth
  /\ DataThresholds \subseteq Nat
  /\ SpaceThresholds \subseteq Nat

VARIABLES q,             \* findex, rindex, vindex, windex
          storage,       \* what each slot holds
          emmFree,       \* the events of all writers
          emmAvailable,  \* the events of the plain reader
          outlets,       \* countAvailable and emmAvailable of the others
          inFlight,      \* tokens between the halves of a write
          inConsume,     \* tokens between the halves of a read
          VOutlets       \* the ids of virtual FIFOs with a reader

vars == <<q, storage, emmFree, emmAvailable, outlets, inFlight, inConsume, VOutlets>>

-----------------------------------------------------------------------------
Lesser(a, b) == IF a <= b THEN a ELSE b

Window == fifoOutOfOrder + 1

Off == [n \in DataThresholds |-> FALSE]

(* The loops that look at one token after another for its fifoId. *)
OfColors(toks, C) ==
  LET of[i \in 0 .. Len(toks)] ==
        IF i = 0 THEN <<>>
        ELSE IF toks[i].fifoId \in C THEN Append(of[i - 1], toks[i])
        ELSE of[i - 1]
  IN  of[Len(toks)]

OfColor(toks, c) == OfColors(toks, {c})

Visible(st, p) == Slice(st, p.rindex, visibleCount(p))

(* smoc_multiplex_vfifo_outlet::moreData and the two halves of a read that *)
(* concern the outlet itself.                                              *)
moreData(o, n) ==
  LET count == o.countAvailable + n
  IN  [countAvailable |-> count,
       emmAvailable   |-> increasedCount(o.emmAvailable, count)]

lessData(o, n) ==
  LET count == o.countAvailable - n
  IN  [countAvailable |-> count,
       emmAvailable   |-> decreasedCount(o.emmAvailable, count)]

(* moreData(1), n times. *)
hears(o, n) ==
  LET told[i \in 0 .. n] == IF i = 0 THEN o ELSE moreData(told[i - 1], 1)
  IN  told[n]

(* moreData(1) on the outlet of each of these tokens, one after another:   *)
(* an outlet hears nothing of the tokens of others.                        *)
Announce(outs, toks) ==
  [c \in DOMAIN outs |-> hears(outs[c], Len(OfColor(toks, c)))]

(* The tokens that enter the window: positions x .. o-1 of the visible     *)
(* area, the loop from xindex to oindex.                                   *)
Entering(st, p, x, o) == Slice(st, Plus(p.rindex, x), o - x)

(* The shortest beginning of the visible area with n tokens of colour c:   *)
(* where the two searches of consume(), and operator[], end.               *)
Reach(st, p, c, n) ==
  CHOOSE m \in 0 .. visibleCount(p) :
    /\ Len(OfColor(Slice(st, p.rindex, m), c)) = n
    /\ m > 0 => Len(OfColor(Slice(st, p.rindex, m - 1), c)) < n

\* Mutant: the tokens of others stay where they are.
leaveGap(st, p, c, n) == Invalidate(st, p.rindex, n)

\* Mutant: they move down to rindex.
closeGapLow(st, p, c, n) ==
  PutAt(st, p.rindex, OfColors(Slice(st, p.rindex, Reach(st, p, c, n)), Color \ {c}))

(* consume() up to rpp: within the searched part, the tokens of others     *)
(* move up, in their order, and n places become free at rindex.            *)
closeGap(st, p, c, n) ==
  LET others == OfColors(Slice(st, p.rindex, Reach(st, p, c, n)), Color \ {c})
  IN  PutAt(Invalidate(st, p.rindex, n), Plus(p.rindex, n), others)

\* Mutant: the window is taken for one token smaller.
RemainingLess(n, vcount) ==
  IF n <= fifoOutOfOrder THEN Lesser(fifoOutOfOrder - n, vcount) ELSE vcount

(* After n tokens of the window have left, this many of it remain.  The    *)
(* difference is one of size_t: below zero it exceeds every count.         *)
Remaining(n, vcount) ==
  IF n <= Window THEN Lesser(Window - n, vcount) ELSE vcount

-----------------------------------------------------------------------------
(* The channel's callbacks, on the state they share.                       *)

latencyExpired(n) ==
  LET vcount == visibleCount(q')
  IN  /\ q' = vpp(q, n)
      /\ IF VOutlets # {}
         THEN /\ outlets' = Announce(outlets,
                   Entering(storage, q', Lesser(Window, vcount - n),
                                         Lesser(Window, vcount)))
              /\ UNCHANGED emmAvailable
         ELSE /\ emmAvailable' = increasedCount(emmAvailable, vcount)
              /\ UNCHANGED outlets
      /\ UNCHANGED <<storage, emmFree>>

readConsumeEventExpired(n) ==
  /\ q' = fpp(q, n)
  /\ emmFree' = increasedCount(emmFree, freeCount(q'))
  /\ UNCHANGED <<storage, emmAvailable, outlets>>

\* Mutant: the plain reader does not hear of the initial tokens.
RestartSilent(evFree, evAvailable) ==
  /\ q' = MarkedQueue
  /\ emmFree' = increasedCount(reset(evFree), freeCount(q'))
  /\ emmAvailable' = reset(evAvailable)
  /\ UNCHANGED outlets

(* The second half of FifoStorage::doReset, and both doResets of the       *)
(* multiplex FIFO: all initial tokens are announced.                       *)
Restart(evFree, evAvailable) ==
  /\ q' = MarkedQueue
  /\ emmFree' = increasedCount(reset(evFree), freeCount(q'))
  /\ emmAvailable' = IF VOutlets = {}
                     THEN increasedCount(reset(evAvailable), visibleCount(q'))
                     ELSE reset(evAvailable)
  /\ outlets' = Announce([c \in VOutlets |-> [countAvailable |-> 0,
                                              emmAvailable   |-> Off]],
                         IF VOutlets = {} THEN <<>> ELSE Marking)

-----------------------------------------------------------------------------
(* The outlets of virtual FIFOs register with the channel before the       *)
(* simulation starts.  Whoever colours tokens does so for virtual FIFOs    *)
(* that are read, if any is: every lookup in vOutlets asserts it.          *)
Elaborated == VOutlets \in {{}, Color}

(* The elaboration leaves every event disabled and every slot empty;       *)
(* start_of_simulation then resets the channel.                            *)
Init ==
  /\ Elaborated
  /\ q = MarkedQueue
  /\ storage = PutAt([i \in Idx |-> NoToken], 0, Marking)
  /\ emmFree = increasedCount([n \in SpaceThresholds |-> FALSE],
                              freeCount(MarkedQueue))
  /\ emmAvailable = IF VOutlets = {}
                    THEN increasedCount(Off, visibleCount(MarkedQueue))
                    ELSE Off
  /\ outlets = Announce([c \in VOutlets |-> [countAvailable |-> 0,
                                             emmAvailable   |-> Off]],
                        IF VOutlets = {} THEN <<>> ELSE Marking)
  /\ inFlight = 0
  /\ inConsume = 0

\* Mutant: windex moves before the tokens are put.
EntryCommStartEarly(toks) ==
  LET n == Len(toks)
  IN  /\ n \in SpaceThresholds
      /\ emmFree[n]
      /\ q' = wpp(q, n)
      /\ storage' = PutAt(storage, q'.windex, toks)
      /\ emmFree' = decreasedCount(emmFree, freeCount(q'))
      /\ inFlight' = inFlight + n
      /\ UNCHANGED <<emmAvailable, outlets, inConsume>>

(* Either kind of writer: the action puts the tokens behind windex, then   *)
(* commStart.                                                              *)
EntryCommStart(toks) ==
  LET n == Len(toks)
  IN  /\ n \in SpaceThresholds
      /\ emmFree[n]
      /\ storage' = PutAt(storage, q.windex, toks)
      /\ q' = wpp(q, n)
      /\ emmFree' = decreasedCount(emmFree, freeCount(q'))
      /\ inFlight' = inFlight + n
      /\ UNCHANGED <<emmAvailable, outlets, inConsume>>

(* A virtual entry colours what its writer has put there. *)
VEntryCommStart(c, data) ==
  EntryCommStart([i \in DOMAIN data |-> [fifoId |-> c, data |-> data[i]]])

(* commFinish of either writer; a dropped write is not supported. *)
EntryCommFinish(n) ==
  /\ n <= inFlight
  /\ inFlight' = inFlight - n
  /\ latencyExpired(n)
  /\ UNCHANGED inConsume

(* smoc_multiplex_vfifo_outlet::commStart and chan->consume(): the reader  *)
(* of c waits for r tokens and takes n of them.  Should they not all be    *)
(* visible, the assertions of the two searches end the program.            *)
VOutletCommStart(c, n, r) ==
  LET vcount == visibleCount(q')
  IN  /\ n <= r
      /\ outlets[c].emmAvailable[r]
      /\ n <= Len(OfColor(Visible(storage, q), c))
      /\ storage' = closeGap(storage, q, c, n)
      /\ q' = rpp(q, n)
      /\ emmAvailable' = decreasedCount(emmAvailable, vcount)
      /\ outlets' = Announce([outlets EXCEPT ![c] = lessData(@, n)],
                      Entering(storage', q', Remaining(n, vcount),
                                             Lesser(Window, vcount)))
      /\ inConsume' = inConsume + n
      /\ UNCHANGED <<emmFree, inFlight>>

(* smoc_multiplex_fifo_outlet::commStart, the plain reader. *)
OutletCommStart(n, r) ==
  /\ n <= r
  /\ emmAvailable[r]
  /\ storage' = Invalidate(storage, q.rindex, n)
  /\ q' = rpp(q, n)
  /\ emmAvailable' = decreasedCount(emmAvailable, visibleCount(q'))
  /\ inConsume' = inConsume + n
  /\ UNCHANGED <<emmFree, outlets, inFlight>>

(* commFinish of either reader. *)
OutletCommFinish(n) ==
  /\ n <= inConsume
  /\ inConsume' = inConsume - n
  /\ readConsumeEventExpired(n)
  /\ UNCHANGED inFlight

(* As in FifoChan, between two firings. *)
doReset ==
  /\ inFlight = 0
  /\ inConsume = 0
  /\ storage' = resetStorage(storage, q)
  /\ Restart(emmFree, emmAvailable)
  /\ UNCHANGED <<inFlight, inConsume>>

Communication ==
  \/ \E n \in SpaceThresholds :
       \/ \E toks \in [1 .. n -> Token] : EntryCommStart(toks)
       \/ \E c \in VEntries, data \in [1 .. n -> Data] : VEntryCommStart(c, data)
  \/ \E n \in 1 .. Depth : EntryCommFinish(n) \/ OutletCommFinish(n)
  \/ \E r \in DataThresholds : \E n \in 0 .. r :
       \/ OutletCommStart(n, r)
       \/ \E c \in VOutlets : VOutletCommStart(c, n, r)

Next == (Communication \/ doReset) /\ UNCHANGED VOutlets

Spec == Init /\ [][Next]_vars

-----------------------------------------------------------------------------
(* Every index, slot, event and counter has its type. *)
TypeOK ==
  /\ VOutlets \in {{}, Color}
  /\ q \in Indices
  /\ storage \in [Idx -> Token \cup {NoToken}]
  /\ emmFree \in EventMaps(SpaceThresholds)
  /\ emmAvailable \in EventMaps(DataThresholds)
  /\ outlets \in [VOutlets -> [countAvailable : 0 .. Depth,
                               emmAvailable   : EventMaps(DataThresholds)]]
  /\ inFlight \in 0 .. Depth
  /\ inConsume \in 0 .. Depth

(* Tokens are announced when they slide into the window, whether because   *)
(* their latency expires or because older ones leave, and are counted off  *)
(* when they are read.  Whatever the order, each reader has been told of   *)
(* exactly the tokens of its colour in the window.                         *)
WindowExact ==
  \A c \in VOutlets :
    outlets[c].countAvailable =
      Len(OfColor(Slice(storage, q.rindex, Lesser(Window, visibleCount(q))), c))

(* An event is enabled exactly when its count is reached, for all writers, *)
(* which share one map, and for every reader.  The plain reader is never   *)
(* woken beside virtual ones.                                              *)
EventsExact ==
  /\ \A n \in SpaceThresholds : emmFree[n] <=> n <= freeCount(q)
  /\ \A n \in DataThresholds :
       /\ emmAvailable[n] <=> VOutlets = {} /\ n <= visibleCount(q)
       /\ \A c \in VOutlets :
            outlets[c].emmAvailable[n] <=> n <= outlets[c].countAvailable

(* The two searches of consume() assert that they stay in front of vindex: *)
(* nobody is told of more tokens of its colour than are visible.           *)
SearchEnds ==
  \A c \in VOutlets :
    outlets[c].countAvailable <= Len(OfColor(Visible(storage, q), c))

(* The assertions of the index moves hold for whatever the events admit,   *)
(* the places add up to the memory, and the size of the window that        *)
(* remains after a read does not fall below zero.                          *)
AssertionsHold ==
  /\ \A n \in SpaceThresholds : emmFree[n] => wppAssert(q, n)
  /\ \A n \in 0 .. inFlight : vppAssert(q, n)
  /\ \A n \in 0 .. inConsume : fppAssert(q, n)
  /\ inConsume + visibleCount(q) + inFlight + freeCount(q) = Depth
  /\ \A c \in VOutlets, n \in DataThresholds :
       outlets[c].emmAvailable[n] => n <= Window /\ rppAssert(q, n)

(* Closing a gap moves tokens within the valid slots: a slot holds a token *)
(* exactly when it lies between rindex and windex.                         *)
SlotsValid ==
  \A i \in Idx : storage[i] # NoToken <=> Minus(i, q.rindex) < usedCount(q)

(* The data of these tokens that belong to the virtual FIFO c. *)
DataOf(toks, c) ==
  LET mine == OfColor(toks, c) IN [i \in DOMAIN mine |-> mine[i].data]

(* The virtual FIFOs, seen by their writers and readers; nothing is seen   *)
(* where there are no readers.                                             *)
Virtual ==
  INSTANCE VirtualFifos
    WITH Ids       <- Color,
         Most      <- Depth,
         Initially <- [c \in Color |-> DataOf(Marking, c)],
         queued    <- [c \in Color |->
                        DataOf(IF VOutlets = {} THEN Marking
                               ELSE Slice(storage, q.rindex, usedCount(q)), c)],
         offered   <- [c \in Color |->
                        IF VOutlets = {} THEN 0 ELSE outlets[c].countAvailable]

(* Every virtual FIFO is a queue of its own, although others' tokens are   *)
(* moved up and overtaken within the shared memory.                        *)
EachIsAQueue == Virtual!VSpec

(* Without virtual readers the multiplex FIFO is an ordinary FIFO. *)
Stream ==
  INSTANCE TokenStream
    WITH Capacity  <- Depth,
         pipeline  <- IF VOutlets # {} THEN <<>>
                      ELSE Slice(storage, q.vindex, invisibleCount(q)),
         visible   <- IF VOutlets # {} THEN Marking ELSE Visible(storage, q),
         consuming <- IF VOutlets # {} THEN 0 ELSE inconsumeCount(q)

ImplementsStream == Stream!StreamSpec
=============================================================================
