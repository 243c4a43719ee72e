------------------------------ MODULE FifoChan ------------------------------
(***************************************************************************)
(* smoc_fifo: one writer, one reader, a ring buffer between them.          *)
(*                                                                         *)
(* The module composes what FifoChan<T> inherits and holds: the indices    *)
(* (RingQueue), the slots (QueueWithStorage, FifoStorage, Storage), and    *)
(* the two event maps (EventMap) through which actors learn that they can  *)
(* be scheduled.  A transition of an actor is only ever guarded by those   *)
(* events (RuntimeTransition::check), so is every communication here; that *)
(* no index overruns another one is a consequence, not an assumption.      *)
(*                                                                         *)
(* A communication has two halves.  The built-in scheduler runs them back  *)
(* to back (commExec); a simulator that models the latency of a transfer,  *)
(* or loses it, runs them apart, hence the counters inFlight and inConsume *)
(* of what that simulator has started and not yet finished.  It finishes   *)
(* in the order it started, in portions of any size.                       *)
(***************************************************************************)
EXTENDS RingStorage, EventMap

CONSTANTS Token,           \* the data type T
          DataThresholds,  \* the n of every in(n) a transition waits for
          SpaceThresholds  \* the n of every out(n) a transition waits for

ASSUME FifoAssumption ==
  /\ NoToken \notin Token
  /\ Marking \in Seq(Token)
  /\ Len(Marking) <= Depth
  /\ DataThresholds \subseteq Nat
  /\ SpaceThresholds \subseteq Nat

VARIABLES q,          \* findex, rindex, vindex, windex
          storage,    \* what each slot holds
          emmData,    \* the reader's events
          emmSpace,   \* the writer's events
          inFlight,   \* tokens between the halves of a write
          inConsume   \* tokens between the halves of a read

vars == <<q, storage, emmData, emmSpace, inFlight, inConsume>>

-----------------------------------------------------------------------------
(* The channel's callbacks, on the state they share.                       *)

latencyExpired(n) ==
  /\ q' = vpp(q, n)
  /\ emmData' = increasedCount(emmData, visibleCount(q'))
  /\ UNCHANGED <<storage, emmSpace>>

latencyExpired_dropped(n) ==
  /\ storage' = moveTokensRight(storage, q, n)
  /\ q' = dropRInvisible(q, n)
  /\ emmSpace' = increasedCount(emmSpace, freeCount(q'))
  /\ UNCHANGED emmData

readConsumeEventExpired(n) ==
  /\ q' = fpp(q, n)
  /\ emmSpace' = increasedCount(emmSpace, freeCount(q'))
  /\ UNCHANGED <<storage, emmData>>

(* FifoStorage::doReset and FifoChanBase::doReset. *)
ResetTo(st, evData, evSpace) ==
  /\ q' = MarkedQueue
  /\ storage' = st
  /\ emmSpace' = increasedCount(reset(evSpace), freeCount(q'))
  /\ emmData' = increasedCount(reset(evData), visibleCount(q'))

-----------------------------------------------------------------------------
(* The elaboration leaves every event disabled and every slot empty;       *)
(* start_of_simulation then resets the channel.                            *)
Init ==
  /\ q = MarkedQueue
  /\ storage = PutAt([i \in Idx |-> NoToken], 0, Marking)
  /\ emmData = increasedCount([n \in DataThresholds |-> FALSE],
                              visibleCount(MarkedQueue))
  /\ emmSpace = increasedCount([n \in SpaceThresholds |-> FALSE],
                               freeCount(MarkedQueue))
  /\ inFlight = 0
  /\ inConsume = 0

(* The writer fires a transition guarded by out(n): its action puts the    *)
(* tokens into the slots from windex on, then FifoEntry::commStart(n).     *)
EntryCommStart(toks) ==
  LET n == Len(toks)
  IN  /\ n \in SpaceThresholds
      /\ emmSpace[n]
      /\ storage' = PutAt(storage, q.windex, toks)
      /\ q' = wpp(q, n)
      /\ emmSpace' = decreasedCount(emmSpace, freeCount(q'))
      /\ inFlight' = inFlight + n
      /\ UNCHANGED <<emmData, inConsume>>

(* FifoEntry::commFinish(n, dropped). *)
EntryCommFinish(n, dropped) ==
  /\ n <= inFlight
  /\ inFlight' = inFlight - n
  /\ \/ ~dropped /\ latencyExpired(n)
     \/ dropped  /\ latencyExpired_dropped(n)
  /\ UNCHANGED inConsume

(* The reader fires a transition guarded by in(c, r): r tokens must be     *)
(* there, c <= r of them are consumed.  FifoOutlet::commStart(c).          *)
OutletCommStart(c, r) ==
  /\ c <= r
  /\ emmData[r]
  /\ storage' = Invalidate(storage, q.rindex, c)
  /\ q' = rpp(q, c)
  /\ emmData' = decreasedCount(emmData, visibleCount(q'))
  /\ inConsume' = inConsume + c
  /\ UNCHANGED <<emmSpace, inFlight>>

(* FifoOutlet::commFinish(n). *)
OutletCommFinish(n) ==
  /\ n <= inConsume
  /\ inConsume' = inConsume - n
  /\ readConsumeEventExpired(n)
  /\ UNCHANGED inFlight

(* The reset channel, or the graph, resets the FIFO between two firings;   *)
(* no communication is then half done.                                     *)
doReset ==
  /\ inFlight = 0
  /\ inConsume = 0
  /\ ResetTo(resetStorage(storage, q), emmData, emmSpace)
  /\ UNCHANGED <<inFlight, inConsume>>

Next ==
  \/ \E n \in SpaceThresholds : \E toks \in [1 .. n -> Token] :
       EntryCommStart(toks)
  \/ \E n \in 1 .. Depth, dropped \in BOOLEAN : EntryCommFinish(n, dropped)
  \/ \E r \in DataThresholds : \E c \in 0 .. r : OutletCommStart(c, r)
  \/ \E n \in 1 .. Depth : OutletCommFinish(n)
  \/ doReset

Spec == Init /\ [][Next]_vars

-----------------------------------------------------------------------------
(* Every index, slot, event and counter has its type. *)
TypeOK ==
  /\ q \in Indices
  /\ storage \in [Idx -> Token \cup {NoToken}]
  /\ emmData \in EventMaps(DataThresholds)
  /\ emmSpace \in EventMaps(SpaceThresholds)
  /\ inFlight \in 0 .. Depth
  /\ inConsume \in 0 .. Depth

(* The four areas of the ring are as large as the communications say, and  *)
(* together they never take the slot that keeps full apart from empty.     *)
AreasAddUp ==
  /\ invisibleCount(q) = inFlight
  /\ inconsumeCount(q) = inConsume
  /\ inConsume + visibleCount(q) + inFlight + freeCount(q) = Depth

(* An event is enabled exactly when its count is reached, whatever         *)
(* sequence of notifying and resetting walks, each of which stops at the   *)
(* first event it need not change, has led here: no actor is left asleep   *)
(* and none is woken for tokens or places that are not there.              *)
EventsExact ==
  /\ \A n \in DataThresholds : emmData[n] <=> n <= visibleCount(q)
  /\ \A n \in SpaceThresholds : emmSpace[n] <=> n <= freeCount(q)

(* The assertions in wpp, rpp, vpp and fpp hold whichever half of a        *)
(* communication comes next: a transition enabled by its event alone       *)
(* never overruns the index in front of it.                                *)
AssertionsHold ==
  /\ \A n \in SpaceThresholds : emmSpace[n] => wppAssert(q, n)
  /\ \A n \in DataThresholds : emmData[n] => rppAssert(q, n)
  /\ \A n \in 0 .. inFlight : vppAssert(q, n)
  /\ \A n \in 0 .. inConsume : fppAssert(q, n)

(* A slot holds a token exactly when it lies between rindex and windex:    *)
(* the assertion valid in Storage::get() const holds for every token a     *)
(* guard or an action may read, and a consumed or dropped token is         *)
(* destroyed when it leaves.                                               *)
SlotsValid ==
  \A i \in Idx : storage[i] # NoToken <=> Minus(i, q.rindex) < usedCount(q)

(* The tokens from index i on, n of them, as a reader would see them. *)
Contents(i, n) == Slice(storage, i, n)

(* The channel keeps the promise of TokenStream: no token is duplicated,   *)
(* reordered, overwritten or read twice, across wrap-around, partial       *)
(* arrivals, dropped writes that shift the visible tokens, and resets.     *)
Stream ==
  INSTANCE TokenStream
    WITH Capacity  <- Depth,
         pipeline  <- Contents(q.vindex, invisibleCount(q)),
         visible   <- Contents(q.rindex, visibleCount(q)),
         consuming <- inconsumeCount(q)

ImplementsStream == Stream!StreamSpec
=============================================================================
