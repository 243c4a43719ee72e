-------------------------- MODULE FifoStream_proof --------------------------
(***************************************************************************)
(* What lies in the slots of smoc_fifo, for every depth, token type,       *)
(* marking and set of thresholds: a slot holds a token exactly when it     *)
(* lies between rindex and windex, and the tokens in ring order, read from *)
(* rindex and from vindex on, are the two queues of TokenStream.           *)
(***************************************************************************)
EXTENDS FifoChan_proof

(***************************************************************************)
(* The steps of the channel, as steps of TokenStream.                      *)
(***************************************************************************)

StreamInv == FifoInv /\ SlotsValid

Pipeline == Contents(q.vindex, invisibleCount(q))
Visible  == Contents(q.rindex, visibleCount(q))

StreamStep == [Stream!StreamNext]_(Stream!svars)

(* SlotsValid speaks of the slots in use. *)
LEMMA ValidSlots ==
  /\ SlotsValid <=> InUse(storage, q)
  /\ SlotsValid' <=> InUse(storage', q')
BY DEF SlotsValid, InUse

(* What the invariant says of the two queues. *)
LEMMA StreamInvFacts ==
  ASSUME StreamInv
  PROVE  /\ FifoInv /\ InUse(storage, q)
         /\ q \in Indices /\ Apart(q) /\ storage \in Slots(Token)
         /\ Pipeline \in Seq(Held(Token)) /\ Len(Pipeline) = invisibleCount(q)
         /\ Visible \in Seq(Held(Token)) /\ Len(Visible) = visibleCount(q)
         /\ invisibleCount(q) \in 0 .. Depth /\ visibleCount(q) \in 0 .. Depth
         /\ inconsumeCount(q) \in 0 .. Depth
         /\ Depth - (Len(Pipeline) + Len(Visible) + inconsumeCount(q)) = freeCount(q)
<1>1. FifoInv /\ InUse(storage, q)
  BY ValidSlots DEF StreamInv
<1>2. /\ q \in Indices /\ Apart(q) /\ storage \in Slots(Token)
      /\ q.rindex \in Idx /\ q.vindex \in Idx
  BY <1>1, FifoInvFacts DEF Indices
<1>3. /\ invisibleCount(q) \in 0 .. Depth /\ visibleCount(q) \in 0 .. Depth
      /\ inconsumeCount(q) \in 0 .. Depth /\ freeCount(q) \in 0 .. Depth
  BY <1>2, CountType
<1>4. /\ Pipeline \in Seq(Held(Token)) /\ Len(Pipeline) = invisibleCount(q)
      /\ Visible \in Seq(Held(Token)) /\ Len(Visible) = visibleCount(q)
  BY <1>2, <1>3, SliceSeq DEF Pipeline, Visible, Contents
<1>5. Depth - (Len(Pipeline) + Len(Visible) + inconsumeCount(q)) = freeCount(q)
  BY <1>2, <1>3, <1>4, DepthAssumption DEF Apart
<1> QED
  BY <1>1, <1>2, <1>3, <1>4, <1>5

(* The simulation starts with the initial tokens visible and no others. *)
LEMMA InitStream ==
  ASSUME Init
  PROVE  SlotsValid /\ Stream!Empty
<1> DEFINE st == [i \in Idx |-> NoToken]
<1>1. st \in Slots(Token) /\ \A i \in Idx : st[i] = NoToken
  BY DEF Slots
<1>2. q = MarkedQueue /\ storage = PutAt(st, 0, Marking)
  BY DEF Init
<1> HIDE DEF st
<1> QED
  BY <1>1, <1>2, ResetSlots, ValidSlots, MarkedCounts DEF Contents, Stream!Empty

(* FifoEntry::commStart appends the tokens to the pipeline. *)
LEMMA EntryCommStartStream ==
  ASSUME StreamInv, NEW n \in SpaceThresholds, NEW toks \in [1 .. n -> Token],
         EntryCommStart(toks)
  PROVE  SlotsValid' /\ StreamStep
<1>1. n \in Nat /\ toks \in Seq(Token) /\ Len(toks) = n
  BY TokensSeq, FifoAssumption
<1>2. n <= freeCount(q) /\ freeCount(q) \in 0 .. Depth
  BY <1>1, StreamInvFacts, FifoInvFacts, CountType DEF EntryCommStart, Exact
<1>3. q' = wpp(q, n) /\ storage' = PutAt(storage, q.windex, toks)
  BY <1>1 DEF EntryCommStart
<1>4. /\ inconsumeCount(q') = inconsumeCount(q)
      /\ visibleCount(q') = visibleCount(q)
      /\ invisibleCount(q') = invisibleCount(q) + n
      /\ q'.rindex = q.rindex /\ q'.vindex = q.vindex
  BY <1>1, <1>2, <1>3, StreamInvFacts, WppCounts DEF wpp, Indices
<1>5. /\ InUse(storage', q')
      /\ Slice(storage', q.rindex, visibleCount(q)) = Slice(storage, q.rindex, visibleCount(q))
      /\ Slice(storage', q.vindex, invisibleCount(q) + n)
           = Slice(storage, q.vindex, invisibleCount(q)) \o toks
  <2>1. /\ NoToken \notin Token /\ storage \in Slots(Token) /\ q \in Indices /\ Apart(q)
        /\ InUse(storage, q)
    BY StreamInvFacts, FifoAssumption
  <2>2. toks \in Seq(Token) /\ Len(toks) = n /\ Len(toks) <= freeCount(q)
    BY <1>1, <1>2
  <2> QED
    BY ONLY <1>3, <2>1, <2>2, PutSlots
<1>6. Visible' = Visible /\ Pipeline' = Pipeline \o toks
  BY <1>4, <1>5 DEF Visible, Pipeline, Contents
<1>7. CASE n = 0
  <2>1. toks = <<>> /\ toks \in Seq(Held(Token))
    BY <1>1, <1>7, EmptySeq DEF Held
  <2>2. Pipeline' = Pipeline
    BY <1>6, <2>1, StreamInvFacts, ConcatEmptySeq
  <2>3. UNCHANGED Stream!svars
    BY <1>4, <1>6, <2>2 DEF Stream!svars, Visible, Pipeline
  <2> QED
    BY <1>5, <2>3, ValidSlots DEF StreamStep
<1>8. CASE n # 0
  <2>1. n \in 1 .. Depth
    BY <1>1, <1>2, <1>8, DepthAssumption
  <2>2. Stream!Write(toks)
    BY <1>1, <1>2, <1>4, <1>6, StreamInvFacts DEF Stream!Write, Stream!Room, Visible, Pipeline
  <2> QED
    BY <1>5, <2>1, <2>2, ValidSlots DEF StreamStep, Stream!StreamNext
<1> QED
  BY <1>7, <1>8

(* FifoEntry::commFinish makes the first tokens of the pipeline visible. *)
LEMMA LatencyExpiredStream ==
  ASSUME StreamInv, NEW n \in 1 .. Depth, EntryCommFinish(n, FALSE)
  PROVE  SlotsValid' /\ StreamStep
<1>1. n \in Nat /\ n <= invisibleCount(q) /\ n \in 0 .. invisibleCount(q)
  BY StreamInvFacts, FifoInvFacts, DepthAssumption DEF EntryCommFinish
<1>2. q' = vpp(q, n) /\ storage' = storage
  BY DEF EntryCommFinish, latencyExpired
<1>3. /\ inconsumeCount(q') = inconsumeCount(q)
      /\ visibleCount(q') = visibleCount(q) + n
      /\ invisibleCount(q') = invisibleCount(q) - n
      /\ q'.rindex = q.rindex /\ q'.windex = q.windex /\ q'.vindex = Plus(q.vindex, n)
  BY <1>1, <1>2, StreamInvFacts, VppCounts DEF vpp, Indices
<1>4. /\ q.rindex \in Idx /\ q.vindex \in Idx
      /\ q.vindex = Plus(q.rindex, visibleCount(q))
  BY StreamInvFacts, WayTo DEF Indices, visibleCount
<1>5. SlotsValid'
  BY <1>2, <1>3, StreamInvFacts, ValidSlots DEF InUse, usedCount
<1>6. /\ SubSeq(Pipeline, 1, n) = Slice(storage, q.vindex, n)
      /\ SubSeq(Pipeline, n + 1, invisibleCount(q)) = Pipeline'
  <2>1. /\ SubSeq(Pipeline, 1, n) = Slice(storage, q.vindex, n)
        /\ SubSeq(Pipeline, n + 1, invisibleCount(q))
             = Slice(storage, Plus(q.vindex, n), invisibleCount(q) - n)
    BY <1>1, <1>4, StreamInvFacts, SliceParts DEF Pipeline, Contents
  <2> QED
    BY <1>2, <1>3, <2>1 DEF Pipeline, Contents
<1>7. Visible' = Visible \o Slice(storage, q.vindex, n)
  <2>1. /\ visibleCount(q) \in Nat /\ n \in Nat
        /\ visibleCount(q) + n <= Depth
    BY <1>1, StreamInvFacts, CountType, DepthAssumption DEF Apart
  <2>2. Slice(storage, q.rindex, visibleCount(q) + n) =
          Slice(storage, q.rindex, visibleCount(q))
            \o Slice(storage, Plus(q.rindex, visibleCount(q)), n)
    BY <1>4, <2>1, StreamInvFacts, SliceSplit
  <2> QED
    BY <1>2, <1>3, <1>4, <2>2 DEF Visible, Contents
<1>8. Stream!Arrive(n)
  BY <1>1, <1>3, <1>6, <1>7, StreamInvFacts
     DEF Stream!Arrive, Stream!First, Stream!Rest, Visible, Pipeline
<1> QED
  BY <1>5, <1>8 DEF StreamStep, Stream!StreamNext

(* So does the other commFinish, which loses the first tokens of the       *)
(* pipeline although the visible ones have to move.                        *)
LEMMA LatencyExpiredDroppedStream ==
  ASSUME StreamInv, NEW n \in 1 .. Depth, EntryCommFinish(n, TRUE)
  PROVE  SlotsValid' /\ StreamStep
<1>1. n \in Nat /\ n <= invisibleCount(q) /\ n \in 0 .. invisibleCount(q)
  BY StreamInvFacts, FifoInvFacts, DepthAssumption DEF EntryCommFinish
<1>2. q' = dropRInvisible(q, n) /\ storage' = moveTokensRight(storage, q, n)
  BY DEF EntryCommFinish, latencyExpired_dropped
<1>3. /\ inconsumeCount(q') = inconsumeCount(q)
      /\ visibleCount(q') = visibleCount(q)
      /\ invisibleCount(q') = invisibleCount(q) - n
  BY <1>1, <1>2, StreamInvFacts, DropCounts
<1>4. q'.rindex = Plus(q.rindex, n) /\ q'.vindex = Plus(q.vindex, n)
  BY <1>2, StreamInvFacts DEF dropRInvisible, fpp, rpp, vpp, Indices
<1>5. /\ InUse(storage', q')
      /\ Slice(storage', Plus(q.rindex, n), visibleCount(q))
           = Slice(storage, q.rindex, visibleCount(q))
      /\ Slice(storage', Plus(q.vindex, n), invisibleCount(q) - n)
           = Slice(storage, Plus(q.vindex, n), invisibleCount(q) - n)
  BY <1>1, <1>2, StreamInvFacts, DropSlots
<1>6. SubSeq(Pipeline, n + 1, invisibleCount(q))
        = Slice(storage, Plus(q.vindex, n), invisibleCount(q) - n)
  <2>1. q.vindex \in Idx
    BY StreamInvFacts DEF Indices
  <2> QED
    BY <1>1, <2>1, StreamInvFacts, SliceParts DEF Pipeline, Contents
<1>7. Visible' = Visible /\ Pipeline' = SubSeq(Pipeline, n + 1, invisibleCount(q))
  BY <1>3, <1>4, <1>5, <1>6 DEF Visible, Pipeline, Contents
<1>8. Stream!Lose(n)
  BY <1>1, <1>3, <1>7, StreamInvFacts DEF Stream!Lose, Stream!Rest, Visible, Pipeline
<1> QED
  BY <1>5, <1>8, ValidSlots DEF StreamStep, Stream!StreamNext

(* FifoOutlet::commStart reads the first visible tokens. *)
LEMMA OutletCommStartStream ==
  ASSUME StreamInv, NEW r \in DataThresholds, NEW c \in 0 .. r,
         OutletCommStart(c, r)
  PROVE  SlotsValid' /\ StreamStep
<1>1. c \in Nat /\ c <= visibleCount(q) /\ c \in 0 .. visibleCount(q)
  <2>1. r \in Nat /\ r <= visibleCount(q)
    BY StreamInvFacts, FifoInvFacts, FifoAssumption DEF OutletCommStart, Exact
  <2> QED
    BY <2>1, StreamInvFacts, DepthAssumption
<1>2. q' = rpp(q, c) /\ storage' = Invalidate(storage, q.rindex, c)
  BY DEF OutletCommStart
<1>3. /\ inconsumeCount(q') = inconsumeCount(q) + c
      /\ visibleCount(q') = visibleCount(q) - c
      /\ invisibleCount(q') = invisibleCount(q)
      /\ q'.rindex = Plus(q.rindex, c) /\ q'.vindex = q.vindex
  BY <1>1, <1>2, StreamInvFacts, RppCounts DEF rpp, Indices
<1>4. /\ InUse(storage', q')
      /\ Slice(storage', Plus(q.rindex, c), visibleCount(q) - c)
           = Slice(storage, Plus(q.rindex, c), visibleCount(q) - c)
      /\ Slice(storage', q.vindex, invisibleCount(q))
           = Slice(storage, q.vindex, invisibleCount(q))
  BY <1>1, <1>2, StreamInvFacts, ReadSlots
<1>5. SubSeq(Visible, c + 1, visibleCount(q))
        = Slice(storage, Plus(q.rindex, c), visibleCount(q) - c)
  <2>1. q.rindex \in Idx
    BY StreamInvFacts DEF Indices
  <2> QED
    BY <1>1, <2>1, StreamInvFacts, SliceParts DEF Visible, Contents
<1>6. Pipeline' = Pipeline /\ Visible' = SubSeq(Visible, c + 1, visibleCount(q))
  BY <1>3, <1>4, <1>5 DEF Visible, Pipeline, Contents
<1>7. CASE c = 0
  <2>1. /\ Plus(q.rindex, 0) = q.rindex /\ visibleCount(q) - 0 = visibleCount(q)
        /\ inconsumeCount(q) + 0 = inconsumeCount(q)
    BY StreamInvFacts, DepthAssumption DEF Indices, Idx, FSize, Plus
  <2>2. Visible' = Visible
    BY <1>3, <1>4, <1>7, <2>1 DEF Visible, Contents
  <2>3. UNCHANGED Stream!svars
    BY <1>3, <1>6, <1>7, <2>1, <2>2 DEF Stream!svars, Visible, Pipeline
  <2> QED
    BY <1>4, <2>3, ValidSlots DEF StreamStep
<1>8. CASE c # 0
  <2>1. c \in 1 .. Depth
    BY <1>1, <1>8, StreamInvFacts, DepthAssumption
  <2>2. Stream!Read(c)
    BY <1>1, <1>3, <1>6, StreamInvFacts DEF Stream!Read, Stream!Rest, Visible, Pipeline
  <2> QED
    BY <1>4, <2>1, <2>2, ValidSlots DEF StreamStep, Stream!StreamNext
<1> QED
  BY <1>7, <1>8

(* FifoOutlet::commFinish releases the places of tokens that were read. *)
LEMMA OutletCommFinishStream ==
  ASSUME StreamInv, NEW n \in 1 .. Depth, OutletCommFinish(n)
  PROVE  SlotsValid' /\ StreamStep
<1>1. /\ n \in Nat /\ n <= inconsumeCount(q)
      /\ q' = fpp(q, n) /\ storage' = storage
  BY StreamInvFacts, FifoInvFacts, DepthAssumption
     DEF OutletCommFinish, readConsumeEventExpired
<1>2. /\ inconsumeCount(q') = inconsumeCount(q) - n
      /\ visibleCount(q') = visibleCount(q)
      /\ invisibleCount(q') = invisibleCount(q)
      /\ q'.rindex = q.rindex /\ q'.vindex = q.vindex /\ q'.windex = q.windex
  BY <1>1, StreamInvFacts, FppCounts DEF fpp, Indices
<1>3. SlotsValid'
  BY <1>1, <1>2, StreamInvFacts, ValidSlots DEF InUse, usedCount
<1>4. Stream!Release(n)
  BY <1>1, <1>2 DEF Stream!Release, Contents
<1> QED
  BY <1>3, <1>4 DEF StreamStep, Stream!StreamNext

(* doReset empties the channel down to its initial tokens. *)
LEMMA doResetStream ==
  ASSUME StreamInv, doReset
  PROVE  SlotsValid' /\ StreamStep
<1> DEFINE st == Invalidate(storage, q.rindex, usedCount(q))
<1>1. st \in Slots(Token) /\ \A i \in Idx : st[i] = NoToken
  BY StreamInvFacts, InvalidateAll
<1>2. q' = MarkedQueue /\ storage' = PutAt(st, 0, Marking)
  BY DEF doReset, ResetTo, resetStorage
<1> HIDE DEF st
<1>3. /\ InUse(storage', q')
      /\ Slice(storage', q'.rindex, visibleCount(q')) = Marking
      /\ Slice(storage', q'.vindex, invisibleCount(q')) = <<>>
      /\ inconsumeCount(q') = 0
  BY <1>1, <1>2, ResetSlots, MarkedCounts
<1>4. Stream!Reset
  BY <1>3 DEF Stream!Reset, Stream!Empty, Contents
<1> QED
  BY <1>3, <1>4, ValidSlots DEF StreamStep, Stream!StreamNext

(* Every step of the channel keeps SlotsValid and is one of TokenStream or *)
(* changes nothing TokenStream sees.                                       *)
LEMMA NextStream ==
  ASSUME StreamInv, [Next]_vars
  PROVE  SlotsValid' /\ StreamStep
<1>1. ASSUME NEW n \in SpaceThresholds, NEW toks \in [1 .. n -> Token],
             EntryCommStart(toks)
      PROVE  SlotsValid' /\ StreamStep
  BY <1>1, EntryCommStartStream
<1>2. ASSUME NEW n \in 1 .. Depth, NEW dropped \in BOOLEAN,
             EntryCommFinish(n, dropped)
      PROVE  SlotsValid' /\ StreamStep
  BY <1>2, LatencyExpiredStream, LatencyExpiredDroppedStream
<1>3. ASSUME NEW r \in DataThresholds, NEW c \in 0 .. r, OutletCommStart(c, r)
      PROVE  SlotsValid' /\ StreamStep
  BY <1>3, OutletCommStartStream
<1>4. ASSUME NEW n \in 1 .. Depth, OutletCommFinish(n)
      PROVE  SlotsValid' /\ StreamStep
  BY <1>4, OutletCommFinishStream
<1>5. CASE doReset
  BY <1>5, doResetStream
<1>6. CASE UNCHANGED vars
  <2>1. q' = q /\ storage' = storage
    BY <1>6 DEF vars
  <2>2. SlotsValid'
    BY <2>1, StreamInvFacts, ValidSlots
  <2>3. UNCHANGED Stream!svars
    BY <2>1 DEF Stream!svars, Contents
  <2> QED
    BY <2>2, <2>3 DEF StreamStep
<1> QED
  BY <1>1, <1>2, <1>3, <1>4, <1>5, <1>6 DEF Next

(***************************************************************************)
(* The theorems.                                                           *)
(***************************************************************************)

(* Between rindex and windex every slot holds a token, and no other does,  *)
(* in every reachable state of smoc_fifo.                                  *)
THEOREM Validity == Spec => []SlotsValid
<1>1. Init => SlotsValid
  BY InitStream
<1>2. FifoInv /\ SlotsValid /\ [Next]_vars => SlotsValid'
  BY NextStream DEF StreamInv
<1> QED
  BY <1>1, <1>2, Invariance, PTL DEF Spec

(* smoc_fifo implements TokenStream: no token is duplicated, reordered,    *)
(* overwritten or read twice.                                              *)
THEOREM Refinement == Spec => ImplementsStream
<1>1. Init => Stream!Empty
  BY InitStream
<1>2. FifoInv /\ SlotsValid /\ [Next]_vars => [Stream!StreamNext]_(Stream!svars)
  BY NextStream DEF StreamInv, StreamStep
<1> QED
  BY <1>1, <1>2, Invariance, Validity, PTL DEF Spec, ImplementsStream, Stream!StreamSpec
=============================================================================
