------------------------- MODULE ChanAdapter_proof -------------------------
(***************************************************************************)
(* The TLM adapters keep the promise of TlmFifo for every depth, token     *)
(* type, marking and set of thresholds, in whatever order the two threads  *)
(* call, block and go on, and whenever the channel is reset.               *)
(*                                                                         *)
(* An adapter asks for one token or one place, so the invariant of the     *)
(* FIFO decides what the event of threshold 1 says: a call that blocks or  *)
(* refuses does so on an empty or full channel because EventsExact holds   *)
(* and because no communication is ever half done between two calls.       *)
(***************************************************************************)
EXTENDS ChanAdapter, FifoStream_proof

AdapterInv == StreamInv /\ inFlight = 0 /\ inConsume = 0

(* With nothing under way the queue is the used area of the ring, and the  *)
(* two events say whether it is empty or full.                             *)
LEMMA AdapterFacts ==
  ASSUME AdapterInv
  PROVE  /\ q \in Indices /\ Apart(q) /\ storage \in Slots(Token)
         /\ q.rindex \in Idx /\ q.vindex \in Idx /\ q.windex \in Idx
         /\ invisibleCount(q) = 0 /\ inconsumeCount(q) = 0
         /\ Visible \in Seq(Held(Token)) /\ Len(Visible) = visibleCount(q)
         /\ visibleCount(q) \in 0 .. Depth
         /\ freeCount(q) = Depth - visibleCount(q)
         /\ dataAvailable <=> visibleCount(q) # 0
         /\ spaceAvailable <=> visibleCount(q) # Depth
<1>1. StreamInv /\ FifoInv
  BY DEF AdapterInv, StreamInv
<1>2. /\ q \in Indices /\ Apart(q) /\ storage \in Slots(Token)
      /\ Visible \in Seq(Held(Token)) /\ Len(Visible) = visibleCount(q)
      /\ visibleCount(q) \in 0 .. Depth
  BY <1>1, StreamInvFacts
<1>3. q.rindex \in Idx /\ q.vindex \in Idx /\ q.windex \in Idx
  BY <1>2 DEF Indices
<1>4. invisibleCount(q) = 0 /\ inconsumeCount(q) = 0
  BY <1>1, FifoInvFacts DEF AdapterInv
<1>5. freeCount(q) = Depth - visibleCount(q)
  BY <1>2, <1>4, CountType, DepthAssumption DEF Apart
<1>6. /\ emmData[1] <=> 1 <= visibleCount(q)
      /\ emmSpace[1] <=> 1 <= freeCount(q)
  BY <1>1, FifoInvFacts, AdapterAssumption DEF Exact
<1>7. /\ 1 <= visibleCount(q) <=> visibleCount(q) # 0
      /\ 1 <= freeCount(q) <=> visibleCount(q) # Depth
  BY <1>2, <1>5, DepthAssumption
<1> QED
  BY <1>2, <1>3, <1>4, <1>5, <1>6, <1>7 DEF dataAvailable, spaceAvailable

(* The slot a reader looks at is the head of the queue. *)
LEMMA FirstIsHead ==
  ASSUME AdapterInv, dataAvailable
  PROVE  Visible # <<>> /\ First = Head(Visible)
<1>1. Visible # <<>> /\ visibleCount(q) \in 0 .. Depth /\ visibleCount(q) # 0
  BY AdapterFacts, EmptySeq
<1>2. 1 \in 1 .. visibleCount(q) /\ Plus(q.rindex, 1 - 1) = q.rindex
  BY <1>1, AdapterFacts, DepthAssumption DEF Idx, FSize, Plus
<1>3. Visible[1] = storage[Plus(q.rindex, 1 - 1)]
  BY <1>1, <1>2, AdapterFacts, SliceSeq DEF Visible, Contents
<1>4. Head(Visible) = Visible[1]
  BY <1>1, AdapterFacts
<1> QED
  BY <1>1, <1>2, <1>3, <1>4 DEF First

(* FifoOutlet::commExec(1) takes the head off the queue. *)
LEMMA OutletCommExec ==
  ASSUME AdapterInv, dataAvailable, outletCommExec
  PROVE  AdapterInv' /\ Visible' = Tail(Visible)
<1> DEFINE p == rpp(q, 1)
           vis == visibleCount(q)
<1>1. /\ vis \in 0 .. Depth /\ 1 \in Nat /\ 1 <= vis /\ vis - 1 \in 0 .. Depth
      /\ 1 \in 0 .. vis
  BY AdapterFacts, DepthAssumption
<1>2. /\ p \in Indices
      /\ inconsumeCount(p) = inconsumeCount(q) + 1
      /\ visibleCount(p) = vis - 1
      /\ invisibleCount(p) = invisibleCount(q)
      /\ freeCount(p) = freeCount(q)
  BY <1>1, AdapterFacts, RppCounts
<1>3. Apart(p) /\ inconsumeCount(p) = 1
  BY <1>1, <1>2, AdapterFacts, DepthAssumption DEF Apart
<1>4. /\ q' = fpp(p, 1) /\ storage' = Invalidate(storage, q.rindex, 1)
      /\ inFlight' = inFlight /\ inConsume' = inConsume
  BY DEF outletCommExec
<1>5. /\ q' \in Indices
      /\ inconsumeCount(q') = 0
      /\ visibleCount(q') = vis - 1
      /\ invisibleCount(q') = 0
      /\ freeCount(q') = freeCount(q) + 1
  BY <1>2, <1>3, <1>4, AdapterFacts, FppCounts
<1>6. Apart(q)'
  BY <1>1, <1>5, AdapterFacts, DepthAssumption DEF Apart
<1>7. /\ q'.rindex = p.rindex /\ q'.windex = p.windex
      /\ p.rindex = Plus(q.rindex, 1)
  BY <1>4, AdapterFacts DEF fpp, rpp, Indices
<1>8. /\ InUse(storage', p)
      /\ Slice(storage', Plus(q.rindex, 1), vis - 1) = Slice(storage, Plus(q.rindex, 1), vis - 1)
  BY <1>1, <1>4, AdapterFacts, ReadSlots, StreamInvFacts DEF AdapterInv
<1>9. SlotsValid'
  BY <1>7, <1>8, ValidSlots DEF InUse, usedCount
<1>10. storage' \in Slots(Token)
  BY <1>4, AdapterFacts, InvalidateType
<1>11. /\ emmData' \in EventMaps(DataThresholds)
       /\ Exact(DataThresholds, emmData', visibleCount(q'))
  <2>1. /\ emmData \in EventMaps(DataThresholds)
        /\ Exact(DataThresholds, emmData, vis)
    BY FifoInvFacts DEF AdapterInv, StreamInv
  <2>2. vis \in Nat /\ vis - 1 \in Nat /\ vis - 1 <= vis
    BY <1>1, DepthAssumption
  <2> QED
    BY <1>5, <2>1, <2>2, DecreasedExact, FifoAssumption DEF outletCommExec
<1>12. /\ emmSpace' \in EventMaps(SpaceThresholds)
       /\ Exact(SpaceThresholds, emmSpace', freeCount(q'))
  <2>1. /\ emmSpace \in EventMaps(SpaceThresholds)
        /\ Exact(SpaceThresholds, emmSpace, freeCount(q))
    BY FifoInvFacts DEF AdapterInv, StreamInv
  <2>2. freeCount(q) \in Nat /\ freeCount(q) + 1 \in Nat /\ freeCount(q) <= freeCount(q) + 1
    BY <1>1, AdapterFacts, DepthAssumption
  <2> QED
    BY <1>5, <2>1, <2>2, IncreasedExact, FifoAssumption DEF outletCommExec
<1>13. inFlight' = 0 /\ inConsume' = 0
  BY <1>4 DEF AdapterInv
<1>14. FifoInv'
  BY <1>5, <1>6, <1>10, <1>11, <1>12, <1>13, FifoInvNext
<1>15. Visible' = Tail(Visible)
  <2>1. SubSeq(Visible, 1 + 1, vis) = Slice(storage, Plus(q.rindex, 1), vis - 1)
    <3>1. /\ q.rindex \in Idx /\ storage \in Slots(Token)
          /\ vis \in 0 .. Depth /\ 1 \in 0 .. vis
      BY <1>1, AdapterFacts
    <3> QED
      BY <3>1, SliceParts DEF Visible, Contents
  <2>2. Tail(Visible) = SubSeq(Visible, 2, Len(Visible))
    BY AdapterFacts, FirstIsHead, TailIsSubSeq
  <2> QED
    <3>1. Visible' = Slice(storage', Plus(q.rindex, 1), vis - 1)
      BY <1>5, <1>7 DEF Visible, Contents
    <3>2. Tail(Visible) = SubSeq(Visible, 1 + 1, vis)
      BY <2>2, AdapterFacts
    <3> QED
      BY <1>8, <2>1, <3>1, <3>2
<1> QED
  BY <1>9, <1>13, <1>14, <1>15 DEF AdapterInv, StreamInv

(* FifoEntry::commExec(1) appends the token to the queue. *)
LEMMA EntryCommExec ==
  ASSUME AdapterInv, spaceAvailable, NEW t \in Token, entryCommExec(t)
  PROVE  /\ AdapterInv'
         /\ Len(Visible) < Depth /\ Visible' = Append(Visible, t)
<1> DEFINE p == wpp(q, 1)
           vis == visibleCount(q)
<1>1. /\ vis \in 0 .. Depth /\ 1 \in Nat /\ 1 <= freeCount(q) /\ vis < Depth
      /\ vis + 1 \in 0 .. Depth
  BY AdapterFacts, DepthAssumption
<1>2. /\ p \in Indices
      /\ inconsumeCount(p) = inconsumeCount(q)
      /\ visibleCount(p) = vis
      /\ invisibleCount(p) = invisibleCount(q) + 1
      /\ freeCount(p) = freeCount(q) - 1
  BY <1>1, AdapterFacts, WppCounts
<1>3. Apart(p) /\ invisibleCount(p) = 1
  BY <1>1, <1>2, AdapterFacts, DepthAssumption DEF Apart
<1>4. /\ q' = vpp(p, 1) /\ storage' = PutAt(storage, q.windex, <<t>>)
      /\ inFlight' = inFlight /\ inConsume' = inConsume
  BY DEF entryCommExec
<1>5. /\ q' \in Indices
      /\ inconsumeCount(q') = 0
      /\ visibleCount(q') = vis + 1
      /\ invisibleCount(q') = 0
      /\ freeCount(q') = freeCount(q) - 1
  BY <1>2, <1>3, <1>4, AdapterFacts, VppCounts
<1>6. Apart(q)'
  BY <1>1, <1>5, AdapterFacts, DepthAssumption DEF Apart
<1>7. q'.rindex = q.rindex /\ q'.windex = p.windex /\ p.rindex = q.rindex
  BY <1>4, AdapterFacts DEF vpp, wpp, Indices
<1>8. <<t>> \in Seq(Token) /\ Len(<<t>>) = 1 /\ <<t>> \in Seq(Held(Token))
  BY DEF Held
<1>9. /\ InUse(storage', p)
      /\ Slice(storage', q.rindex, vis) = Slice(storage, q.rindex, vis)
      /\ Slice(storage', q.vindex, 0 + 1) = Slice(storage, q.vindex, 0) \o <<t>>
  BY <1>1, <1>4, <1>8, AdapterFacts, PutSlots, FifoAssumption, StreamInvFacts DEF AdapterInv
<1>10. SlotsValid'
  BY <1>7, <1>9, ValidSlots DEF InUse, usedCount
<1>11. storage' \in Slots(Token)
  BY <1>4, <1>8, AdapterFacts, PutAtType
<1>12. /\ emmSpace' \in EventMaps(SpaceThresholds)
       /\ Exact(SpaceThresholds, emmSpace', freeCount(q'))
  <2>1. /\ emmSpace \in EventMaps(SpaceThresholds)
        /\ Exact(SpaceThresholds, emmSpace, freeCount(q))
    BY FifoInvFacts DEF AdapterInv, StreamInv
  <2>2. freeCount(q) \in Nat /\ freeCount(q) - 1 \in Nat /\ freeCount(q) - 1 <= freeCount(q)
    BY <1>1, AdapterFacts, DepthAssumption
  <2> QED
    BY <1>5, <2>1, <2>2, DecreasedExact, FifoAssumption DEF entryCommExec
<1>13. /\ emmData' \in EventMaps(DataThresholds)
       /\ Exact(DataThresholds, emmData', visibleCount(q'))
  <2>1. /\ emmData \in EventMaps(DataThresholds)
        /\ Exact(DataThresholds, emmData, vis)
    BY FifoInvFacts DEF AdapterInv, StreamInv
  <2>2. vis \in Nat /\ vis + 1 \in Nat /\ vis <= vis + 1
    BY <1>1, DepthAssumption
  <2> QED
    BY <1>5, <2>1, <2>2, IncreasedExact, FifoAssumption DEF entryCommExec
<1>14. inFlight' = 0 /\ inConsume' = 0
  BY <1>4 DEF AdapterInv
<1>15. FifoInv'
  BY <1>5, <1>6, <1>11, <1>12, <1>13, <1>14, FifoInvNext
<1>16. Visible' = Append(Visible, t)
  <2>1. Slice(storage, q.vindex, 0) = <<>>
    <3>1. 0 \in 0 .. Depth
      BY DepthAssumption
    <3>2. /\ Slice(storage, q.vindex, 0) \in Seq(Held(Token))
          /\ Len(Slice(storage, q.vindex, 0)) = 0
      BY <3>1, AdapterFacts, SliceSeq
    <3> QED
      BY <3>2, EmptySeq
  <2>2. Slice(storage', q.vindex, 1) = <<t>>
    BY <1>8, <1>9, <2>1, ConcatEmptySeq
  <2>3. Slice(storage', q.rindex, vis + 1) =
          Slice(storage', q.rindex, vis) \o Slice(storage', Plus(q.rindex, vis), 1)
    <3>1. vis \in Nat /\ 1 \in Nat /\ vis + 1 <= Depth
      BY <1>1, DepthAssumption
    <3>2. q.rindex \in Idx /\ storage' \in Slots(Token)
      BY <1>11, AdapterFacts
    <3> HIDE DEF vis
    <3> QED
      BY <3>1, <3>2, SliceSplit
  <2>4. Plus(q.rindex, vis) = q.vindex
    BY AdapterFacts, WayTo DEF visibleCount
  <2>5. Visible' = Visible \o <<t>>
    BY <1>5, <1>7, <1>9, <2>2, <2>3, <2>4 DEF Visible, Contents
  <2>6. t \in Held(Token)
    BY DEF Held
  <2> QED
    BY <2>5, <2>6, AdapterFacts, AppendIsConcat
<1> QED
  BY <1>1, <1>10, <1>14, <1>15, <1>16, AdapterFacts DEF AdapterInv, StreamInv

(* No step of a thread leaves a communication half done, and every step is *)
(* one of TlmFifo or changes nothing TlmFifo sees.                         *)
TlmStep == [Tlm!TNext]_(Tlm!tvars)

(* The queue TlmFifo sees. *)
LEMMA Queue == /\ Visible = Contents(q.rindex, visibleCount(q))
               /\ Visible' = Contents(q.rindex, visibleCount(q))'
BY DEF Visible

(* get and nb_get, with a value or void. *)
LEMMA GetsStep ==
  ASSUME AdapterInv, Gets
  PROVE  AdapterInv' /\ (KeepsBytes => TlmStep)
<1>1. /\ dataAvailable /\ outletCommExec
      /\ KeepsBytes => Reads(First)
  BY DEF Gets, get, get_void, nb_get, nb_get_void
<1>2. AdapterInv' /\ Visible' = Tail(Visible)
  BY <1>1, OutletCommExec
<1>3. Visible # <<>> /\ First = Head(Visible)
  BY <1>1, FirstIsHead
<1>4. KeepsBytes => Tlm!Get
  BY <1>1, <1>2, <1>3, Queue DEF Reads, Tlm!Get
<1> QED
  BY <1>2, <1>4 DEF TlmStep, Tlm!TNext

(* A step that leaves the channel alone keeps the invariant. *)
LEMMA SameChannel ==
  ASSUME UNCHANGED chanVars
  PROVE  /\ AdapterInv => AdapterInv'
         /\ Visible' = Visible
BY DEF chanVars, AdapterInv, StreamInv, FifoInv, TypeOK, AreasAddUp, EventsExact,
       SlotsValid, Visible, Contents

(* peek and nb_peek, with a value or void. *)
LEMMA PeeksStep ==
  ASSUME AdapterInv, Peeks
  PROVE  AdapterInv' /\ TlmStep
<1>1. dataAvailable /\ Reads(First) /\ UNCHANGED chanVars
  BY DEF Peeks, peek, peek_void, nb_peek, nb_peek_void
<1>2. Visible # <<>> /\ First = Head(Visible)
  BY <1>1, FirstIsHead
<1>3. Tlm!Peek
  BY <1>1, <1>2, SameChannel, Queue DEF Reads, Tlm!Peek
<1> QED
  BY <1>1, <1>3, SameChannel DEF TlmStep, Tlm!TNext

(* put and nb_put, with a value or void. *)
LEMMA PutsStep ==
  ASSUME AdapterInv, Puts
  PROVE  AdapterInv' /\ TlmStep
<1>1. PICK t \in Token : spaceAvailable /\ Writes(t)
  BY DEF Puts, put, put_void, nb_put, nb_put_void
<1>2. AdapterInv' /\ Len(Visible) < Depth /\ Visible' = Append(Visible, t)
  BY <1>1, EntryCommExec DEF Writes
<1>3. Tlm!Put(t)
  BY <1>1, <1>2, Queue DEF Writes, Tlm!Put
<1> QED
  BY <1>2, <1>3 DEF TlmStep, Tlm!TNext

(* A call that blocks or refuses does so on an empty or full channel. *)
LEMMA WaitsStep ==
  ASSUME AdapterInv,
         \/ smoc_waitData("get") \/ smoc_waitData("peek") \/ nb_refusesRead
         \/ nb_refusesWrite \/ \E t \in Token : smoc_waitSpace(t)
  PROVE  AdapterInv' /\ TlmStep
<1>1. UNCHANGED chanVars
  BY DEF smoc_waitData, nb_refusesRead, nb_refusesWrite, smoc_waitSpace
<1>2. AdapterInv' /\ Visible' = Visible
  BY <1>1, SameChannel
<1>3. /\ ~dataAvailable => Visible = <<>>
      /\ ~spaceAvailable => Len(Visible) = Depth
  BY AdapterFacts, EmptySeq
<1>4. ASSUME NEW op \in {"get", "peek"}, smoc_waitData(op) PROVE Tlm!BlockReader
  BY <1>2, <1>3, <1>4, Queue DEF smoc_waitData, Tlm!BlockReader
<1>5. CASE nb_refusesRead
  <2>1. Tlm!RefuseRead
    BY <1>2, <1>3, <1>5, Queue DEF nb_refusesRead, Tlm!RefuseRead
  <2> QED
    BY <1>2, <2>1 DEF TlmStep, Tlm!TNext
<1>6. CASE nb_refusesWrite
  <2>1. Tlm!RefuseWrite
    BY <1>2, <1>3, <1>6, Queue DEF nb_refusesWrite, Tlm!RefuseWrite
  <2> QED
    BY <1>2, <2>1 DEF TlmStep, Tlm!TNext
<1>7. ASSUME NEW t \in Token, smoc_waitSpace(t) PROVE Tlm!BlockWriter(t)
  BY <1>2, <1>3, <1>7, Queue DEF smoc_waitSpace, Tlm!BlockWriter
<1> QED
  BY <1>2, <1>4, <1>5, <1>6, <1>7 DEF TlmStep, Tlm!TNext

(* A reset leaves the initial tokens, whoever is blocked. *)
LEMMA ResetStep ==
  ASSUME AdapterInv, Reset
  PROVE  AdapterInv' /\ TlmStep
<1>1. doReset /\ UNCHANGED <<reader, writer, got, accepted>>
  BY DEF Reset
<1>2. FifoInv' /\ SlotsValid'
  BY <1>1, doResetInv, doResetStream DEF AdapterInv, StreamInv
<1>3. inFlight' = 0 /\ inConsume' = 0
  BY <1>1 DEF doReset
<1>4. Visible' = Marking
  <2> DEFINE st == Invalidate(storage, q.rindex, usedCount(q))
  <2>1. st \in Slots(Token) /\ \A i \in Idx : st[i] = NoToken
    BY StreamInvFacts, InvalidateAll DEF AdapterInv
  <2>2. q' = MarkedQueue /\ storage' = PutAt(st, 0, Marking)
    BY <1>1 DEF doReset, ResetTo, resetStorage
  <2> HIDE DEF st
  <2> QED
    BY <2>1, <2>2, ResetSlots, MarkedCounts DEF Visible, Contents
<1>5. Tlm!Reset
  BY <1>1, <1>4, Queue DEF Tlm!Reset
<1> QED
  BY <1>2, <1>3, <1>5 DEF AdapterInv, StreamInv, TlmStep, Tlm!TNext

(***************************************************************************)
(* The theorems.                                                           *)
(***************************************************************************)

(* Every step of a thread and every reset keeps the invariant and does     *)
(* what TlmFifo allows.                                                    *)
LEMMA AdapterNext ==
  ASSUME AdapterInv, [ANext]_avars
  PROVE  AdapterInv' /\ (KeepsBytes => TlmStep)
<1>1. CASE UNCHANGED avars
  <2>1. UNCHANGED chanVars /\ UNCHANGED <<reader, writer, got, accepted>>
    BY <1>1 DEF avars
  <2>2. UNCHANGED Tlm!tvars
    BY <2>1, SameChannel, Queue DEF Tlm!tvars
  <2> QED
    BY <2>1, <2>2, SameChannel DEF TlmStep
<1> QED
  BY <1>1, GetsStep, PeeksStep, PutsStep, WaitsStep, ResetStep DEF ANext

(* The adapters start with the initial tokens, nobody blocked. *)
LEMMA AdapterInit == AInit => AdapterInv /\ Tlm!TInit
<1> SUFFICES ASSUME AInit PROVE AdapterInv /\ Tlm!TInit
  OBVIOUS
<1>1. Init /\ inFlight = 0 /\ inConsume = 0
  BY DEF AInit, Init
<1>2. FifoInv /\ SlotsValid /\ Stream!Empty
  BY <1>1, InitInv, InitStream
<1> QED
  BY <1>1, <1>2 DEF AInit, AdapterInv, StreamInv, Stream!Empty, Tlm!TInit

(* Between two calls the channel satisfies the invariant of smoc_fifo and  *)
(* no communication is half done.                                          *)
THEOREM AdapterInvariance == ASpec => []AdapterInv
<1>1. AInit => AdapterInv
  BY AdapterInit
<1>2. AdapterInv /\ [ANext]_avars => AdapterInv'
  BY AdapterNext
<1> QED
  BY <1>1, <1>2, PTL DEF ASpec

(* The TLM adapters implement TlmFifo if the destructor of T leaves the    *)
(* bytes of the token alone, which get() copies after it has run: a call   *)
(* returns the oldest token, peek leaves it there, and a call blocks or    *)
(* refuses only on an empty or full channel.                               *)
THEOREM TlmRefinement == ASSUME KeepsBytes PROVE ASpec => ImplementsTlm
<1>1. AInit => Tlm!TInit
  BY AdapterInit
<1>2. AdapterInv /\ [ANext]_avars => [Tlm!TNext]_(Tlm!tvars)
  BY AdapterNext DEF TlmStep
<1> QED
  BY <1>1, <1>2, AdapterInvariance, PTL DEF ASpec, ImplementsTlm, Tlm!TSpec
=============================================================================
