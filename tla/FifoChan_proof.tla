--------------------------- MODULE FifoChan_proof ---------------------------
(***************************************************************************)
(* Safety of smoc_fifo for every depth, every token type, every initial    *)
(* marking and every set of thresholds.                                    *)
(*                                                                         *)
(* The inductive invariant joins three facts that need each other.  An     *)
(* actor writes when an event is enabled, so the indices stay apart only   *)
(* because EventsExact holds; the walks over the event maps leave the maps *)
(* exact only because they were exact for the count before; and that count *)
(* moves by the amount the walk expects only because the indices are apart *)
(* (AreasAddUp).                                                           *)
(***************************************************************************)
EXTENDS FifoChan, RingStorage_proof

(* After a reset the initial tokens are visible and everything else is     *)
(* free.                                                                   *)
LEMMA MarkedCounts ==
  /\ Marked(Token)
  /\ Len(Marking) \in 0 .. Depth
  /\ MarkedQueue \in Indices
  /\ inconsumeCount(MarkedQueue) = 0
  /\ visibleCount(MarkedQueue) = Len(Marking)
  /\ invisibleCount(MarkedQueue) = 0
  /\ freeCount(MarkedQueue) = Depth - Len(Marking)
<1>1. Marked(Token)
  BY FifoAssumption DEF Marked
<1> QED
  BY <1>1, MarkedQueueCounts

(***************************************************************************)
(* The inductive invariant.                                                *)
(***************************************************************************)

FifoInv == TypeOK /\ AreasAddUp /\ EventsExact

(* What FifoInv says, in the terms of the lemmas. *)
LEMMA FifoInvFacts ==
  ASSUME FifoInv
  PROVE  /\ q \in Indices /\ Apart(q)
         /\ storage \in Slots(Token)
         /\ emmData \in EventMaps(DataThresholds)
         /\ emmSpace \in EventMaps(SpaceThresholds)
         /\ Exact(DataThresholds, emmData, visibleCount(q))
         /\ Exact(SpaceThresholds, emmSpace, freeCount(q))
         /\ inFlight = invisibleCount(q) /\ inFlight \in 0 .. Depth
         /\ inConsume = inconsumeCount(q) /\ inConsume \in 0 .. Depth
<1>1. q \in Indices /\ AreasAddUp
  BY DEF FifoInv, TypeOK
<1>2. Apart(q)
  BY <1>1, CountType, DepthAssumption DEF AreasAddUp, Apart
<1> QED
  BY <1>1, <1>2 DEF FifoInv, TypeOK, AreasAddUp, EventsExact, Exact, Slots

(* And what it takes to establish it for the next state. *)
LEMMA FifoInvNext ==
  ASSUME q' \in Indices, Apart(q)',
         storage' \in Slots(Token),
         emmData' \in EventMaps(DataThresholds),
         emmSpace' \in EventMaps(SpaceThresholds),
         Exact(DataThresholds, emmData', visibleCount(q')),
         Exact(SpaceThresholds, emmSpace', freeCount(q')),
         inFlight' = invisibleCount(q'),
         inConsume' = inconsumeCount(q')
  PROVE  FifoInv'
<1>1. /\ inconsumeCount(q') \in 0 .. Depth /\ visibleCount(q') \in 0 .. Depth
      /\ invisibleCount(q') \in 0 .. Depth /\ freeCount(q') \in 0 .. Depth
  BY CountType
<1>2. TypeOK'
  BY <1>1 DEF TypeOK, Slots
<1>3. AreasAddUp'
  BY <1>1, DepthAssumption DEF AreasAddUp, Apart
<1>4. EventsExact'
  BY DEF EventsExact, Exact
<1> QED
  BY <1>2, <1>3, <1>4 DEF FifoInv

(* Once start_of_simulation has reset the channel, the invariant holds. *)
LEMMA InitInv == Init => FifoInv
<1> SUFFICES ASSUME Init PROVE FifoInv
  OBVIOUS
<1> USE FifoAssumption, DepthAssumption
<1> DEFINE off(T) == [n \in T |-> FALSE]
<1>1. q = MarkedQueue /\ q \in Indices /\ Apart(q)
  BY MarkedCounts DEF Init, Apart
<1>2. storage \in Slots(Token)
  <2>1. [i \in Idx |-> NoToken] \in Slots(Token) /\ 0 \in Idx
    BY DEF Slots, Idx
  <2> QED
    BY <2>1, PutAtType DEF Init
<1>3. ASSUME NEW T \in SUBSET Nat, NEW c \in Nat
      PROVE  /\ increasedCount(off(T), c) \in EventMaps(T)
             /\ Exact(T, increasedCount(off(T), c), c)
  <2>1. off(T) \in EventMaps(T) /\ \A n \in T : ~off(T)[n]
    BY DEF EventMaps
  <2> QED
    BY <2>1, DisabledExact
<1>4. visibleCount(q) \in Nat /\ freeCount(q) \in Nat
  BY <1>1, CountType
<1>5. /\ emmData \in EventMaps(DataThresholds)
      /\ Exact(DataThresholds, emmData, visibleCount(q))
  BY <1>1, <1>3, <1>4 DEF Init
<1>6. /\ emmSpace \in EventMaps(SpaceThresholds)
      /\ Exact(SpaceThresholds, emmSpace, freeCount(q))
  BY <1>1, <1>3, <1>4 DEF Init
<1>7. inFlight = 0 /\ inConsume = 0
  BY DEF Init
<1>8. TypeOK
  BY <1>1, <1>2, <1>5, <1>6, <1>7 DEF TypeOK, Slots
<1>9. AreasAddUp
  BY <1>1, <1>7, MarkedCounts DEF AreasAddUp
<1>10. EventsExact
  BY <1>5, <1>6 DEF EventsExact, Exact
<1> QED
  BY <1>8, <1>9, <1>10 DEF FifoInv

(* FifoEntry::commStart keeps it: the pipeline grows, free space shrinks. *)
LEMMA EntryCommStartInv ==
  ASSUME FifoInv, NEW n \in SpaceThresholds, NEW toks \in [1 .. n -> Token],
         EntryCommStart(toks)
  PROVE  FifoInv'
<1>1. n \in Nat /\ toks \in Seq(Token) /\ Len(toks) = n
  BY TokensSeq, FifoAssumption
<1>2. n <= freeCount(q)
  BY <1>1, FifoInvFacts DEF EntryCommStart, Exact
<1>3. q' = wpp(q, n)
  BY <1>1 DEF EntryCommStart
<1>4. /\ q' \in Indices
      /\ inconsumeCount(q') = inconsumeCount(q)
      /\ visibleCount(q') = visibleCount(q)
      /\ invisibleCount(q') = invisibleCount(q) + n
      /\ freeCount(q') = freeCount(q) - n
  BY <1>1, <1>2, <1>3, FifoInvFacts, WppCounts
<1>5. Apart(q)'
  BY <1>1, <1>4, FifoInvFacts, CountType, DepthAssumption DEF Apart
<1>6. storage' \in Slots(Token)
  BY <1>1, FifoInvFacts, PutAtType DEF EntryCommStart, Indices
<1>7. freeCount(q) \in Nat /\ freeCount(q') \in Nat /\ freeCount(q') <= freeCount(q)
  BY <1>1, <1>4, FifoInvFacts, CountType, DepthAssumption
<1>8. /\ emmSpace' \in EventMaps(SpaceThresholds)
      /\ Exact(SpaceThresholds, emmSpace', freeCount(q'))
  BY <1>7, FifoInvFacts, FifoAssumption, DecreasedExact DEF EntryCommStart
<1>9. /\ emmData' \in EventMaps(DataThresholds)
      /\ Exact(DataThresholds, emmData', visibleCount(q'))
  BY <1>4, FifoInvFacts DEF EntryCommStart
<1>10. inFlight' = invisibleCount(q') /\ inConsume' = inconsumeCount(q')
  BY <1>1, <1>4, FifoInvFacts DEF EntryCommStart
<1> QED
  BY <1>4, <1>5, <1>6, <1>8, <1>9, <1>10, FifoInvNext

(* FifoOutlet::commStart keeps it: visible tokens move to the consuming area. *)
LEMMA OutletCommStartInv ==
  ASSUME FifoInv, NEW r \in DataThresholds, NEW c \in 0 .. r,
         OutletCommStart(c, r)
  PROVE  FifoInv'
<1>1. c \in Nat /\ r \in Nat /\ c <= r
  BY FifoAssumption
<1>2. c <= visibleCount(q)
  <2>1. r <= visibleCount(q)
    BY FifoInvFacts DEF OutletCommStart, Exact
  <2> QED
    BY <1>1, <2>1, FifoInvFacts, CountType, DepthAssumption
<1>3. q' = rpp(q, c)
  BY DEF OutletCommStart
<1>4. /\ q' \in Indices
      /\ inconsumeCount(q') = inconsumeCount(q) + c
      /\ visibleCount(q') = visibleCount(q) - c
      /\ invisibleCount(q') = invisibleCount(q)
      /\ freeCount(q') = freeCount(q)
  BY <1>1, <1>2, <1>3, FifoInvFacts, RppCounts
<1>5. Apart(q)'
  BY <1>1, <1>4, FifoInvFacts, CountType, DepthAssumption DEF Apart
<1>6. storage' \in Slots(Token)
  BY FifoInvFacts, InvalidateType DEF OutletCommStart
<1>7. /\ visibleCount(q) \in Nat /\ visibleCount(q') \in Nat
      /\ visibleCount(q') <= visibleCount(q)
  BY <1>1, <1>4, FifoInvFacts, CountType, DepthAssumption
<1>8. /\ emmData' \in EventMaps(DataThresholds)
      /\ Exact(DataThresholds, emmData', visibleCount(q'))
  BY <1>7, FifoInvFacts, FifoAssumption, DecreasedExact DEF OutletCommStart
<1>9. /\ emmSpace' \in EventMaps(SpaceThresholds)
      /\ Exact(SpaceThresholds, emmSpace', freeCount(q'))
  BY <1>4, FifoInvFacts DEF OutletCommStart
<1>10. inFlight' = invisibleCount(q') /\ inConsume' = inconsumeCount(q')
  BY <1>1, <1>4, FifoInvFacts DEF OutletCommStart
<1> QED
  BY <1>4, <1>5, <1>6, <1>8, <1>9, <1>10, FifoInvNext

(* FifoOutlet::commFinish keeps it: consumed places become free. *)
LEMMA OutletCommFinishInv ==
  ASSUME FifoInv, NEW n \in 1 .. Depth, OutletCommFinish(n)
  PROVE  FifoInv'
<1>1. n \in Nat /\ n <= inconsumeCount(q) /\ q' = fpp(q, n)
  BY FifoInvFacts, DepthAssumption DEF OutletCommFinish, readConsumeEventExpired
<1>2. /\ q' \in Indices
      /\ inconsumeCount(q') = inconsumeCount(q) - n
      /\ visibleCount(q') = visibleCount(q)
      /\ invisibleCount(q') = invisibleCount(q)
      /\ freeCount(q') = freeCount(q) + n
  BY <1>1, FifoInvFacts, FppCounts
<1>3. Apart(q)'
  BY <1>1, <1>2, FifoInvFacts, CountType, DepthAssumption DEF Apart
<1>4. /\ freeCount(q) \in Nat /\ freeCount(q') \in Nat
      /\ freeCount(q) <= freeCount(q')
  BY <1>1, <1>2, FifoInvFacts, CountType, DepthAssumption
<1>5. /\ emmSpace' \in EventMaps(SpaceThresholds)
      /\ Exact(SpaceThresholds, emmSpace', freeCount(q'))
  BY <1>4, FifoInvFacts, FifoAssumption, IncreasedExact
     DEF OutletCommFinish, readConsumeEventExpired
<1>6. /\ emmData' \in EventMaps(DataThresholds)
      /\ Exact(DataThresholds, emmData', visibleCount(q'))
      /\ storage' \in Slots(Token)
  BY <1>2, FifoInvFacts DEF OutletCommFinish, readConsumeEventExpired
<1>7. inFlight' = invisibleCount(q') /\ inConsume' = inconsumeCount(q')
  BY <1>1, <1>2, FifoInvFacts DEF OutletCommFinish
<1> QED
  BY <1>2, <1>3, <1>5, <1>6, <1>7, FifoInvNext

(* FifoEntry::commFinish keeps it: tokens in flight become visible. *)
LEMMA LatencyExpiredInv ==
  ASSUME FifoInv, NEW n \in 1 .. Depth, EntryCommFinish(n, FALSE)
  PROVE  FifoInv'
<1>1. /\ n \in Nat /\ n <= inFlight /\ inFlight' = inFlight - n
      /\ latencyExpired(n) /\ inConsume' = inConsume
  BY DepthAssumption DEF EntryCommFinish
<1>2. n <= invisibleCount(q) /\ q' = vpp(q, n)
  BY <1>1, FifoInvFacts DEF latencyExpired
<1>3. /\ q' \in Indices
      /\ inconsumeCount(q') = inconsumeCount(q)
      /\ visibleCount(q') = visibleCount(q) + n
      /\ invisibleCount(q') = invisibleCount(q) - n
      /\ freeCount(q') = freeCount(q)
  BY <1>1, <1>2, FifoInvFacts, VppCounts
<1>4. Apart(q)'
  BY <1>1, <1>3, FifoInvFacts, CountType, DepthAssumption DEF Apart
<1>5. /\ visibleCount(q) \in Nat /\ visibleCount(q') \in Nat
      /\ visibleCount(q) <= visibleCount(q')
  BY <1>1, <1>3, FifoInvFacts, CountType, DepthAssumption
<1>6. /\ emmData' \in EventMaps(DataThresholds)
      /\ Exact(DataThresholds, emmData', visibleCount(q'))
  BY <1>1, <1>5, FifoInvFacts, FifoAssumption, IncreasedExact DEF latencyExpired
<1>7. /\ emmSpace' \in EventMaps(SpaceThresholds)
      /\ Exact(SpaceThresholds, emmSpace', freeCount(q'))
      /\ storage' \in Slots(Token)
  BY <1>1, <1>3, FifoInvFacts DEF latencyExpired
<1>8. inFlight' = invisibleCount(q') /\ inConsume' = inconsumeCount(q')
  BY <1>1, <1>3, FifoInvFacts
<1> QED
  BY <1>3, <1>4, <1>6, <1>7, <1>8, FifoInvNext

(* So does the other commFinish, which drops the tokens in flight. *)
LEMMA LatencyExpiredDroppedInv ==
  ASSUME FifoInv, NEW n \in 1 .. Depth, EntryCommFinish(n, TRUE)
  PROVE  FifoInv'
<1>1. /\ n \in 0 .. Depth /\ n <= inFlight /\ inFlight' = inFlight - n
      /\ latencyExpired_dropped(n) /\ inConsume' = inConsume
  BY DepthAssumption DEF EntryCommFinish
<1>2. n \in Nat /\ n <= invisibleCount(q) /\ q' = dropRInvisible(q, n)
  BY <1>1, FifoInvFacts, DepthAssumption DEF latencyExpired_dropped
<1>3. /\ q' \in Indices
      /\ inconsumeCount(q') = inconsumeCount(q)
      /\ visibleCount(q') = visibleCount(q)
      /\ invisibleCount(q') = invisibleCount(q) - n
      /\ freeCount(q') = freeCount(q) + n
  BY <1>2, FifoInvFacts, DropCounts
<1>4. Apart(q)'
  BY <1>2, <1>3, FifoInvFacts, CountType, DepthAssumption DEF Apart
<1>5. /\ freeCount(q) \in Nat /\ freeCount(q') \in Nat
      /\ freeCount(q) <= freeCount(q')
  BY <1>2, <1>3, FifoInvFacts, CountType, DepthAssumption
<1>6. /\ emmSpace' \in EventMaps(SpaceThresholds)
      /\ Exact(SpaceThresholds, emmSpace', freeCount(q'))
  BY <1>1, <1>5, FifoInvFacts, FifoAssumption, IncreasedExact
     DEF latencyExpired_dropped
<1>7. /\ emmData' \in EventMaps(DataThresholds)
      /\ Exact(DataThresholds, emmData', visibleCount(q'))
  BY <1>1, <1>3, FifoInvFacts DEF latencyExpired_dropped
<1>8. storage' \in Slots(Token)
  BY <1>1, FifoInvFacts, MoveType DEF latencyExpired_dropped
<1>9. inFlight' = invisibleCount(q') /\ inConsume' = inconsumeCount(q')
  BY <1>1, <1>3, FifoInvFacts
<1> QED
  BY <1>3, <1>4, <1>6, <1>7, <1>8, <1>9, FifoInvNext

(* doReset keeps it: both maps start again from nothing. *)
LEMMA doResetInv ==
  ASSUME FifoInv, doReset
  PROVE  FifoInv'
<1> USE FifoAssumption, DepthAssumption
<1>1. q' = MarkedQueue /\ q' \in Indices /\ Apart(q)'
  BY MarkedCounts DEF doReset, ResetTo, Apart
<1>2. storage' \in Slots(Token)
  <2>1. /\ Invalidate(storage, q.rindex, usedCount(q)) \in Slots(Token)
        /\ 0 \in Idx
    BY FifoInvFacts, InvalidateType DEF Idx
  <2> QED
    BY <2>1, PutAtType DEF doReset, ResetTo, resetStorage
<1>3. ASSUME NEW T \in SUBSET Nat, NEW ev \in EventMaps(T), NEW c \in Nat
      PROVE  /\ increasedCount(reset(ev), c) \in EventMaps(T)
             /\ Exact(T, increasedCount(reset(ev), c), c)
  <2>1. reset(ev) \in EventMaps(T) /\ \A n \in T : ~reset(ev)[n]
    BY DEF EventMaps, reset
  <2> QED
    BY <2>1, DisabledExact
<1>4. visibleCount(q') \in Nat /\ freeCount(q') \in Nat
  BY <1>1, CountType
<1>5. /\ emmData' \in EventMaps(DataThresholds)
      /\ Exact(DataThresholds, emmData', visibleCount(q'))
  BY <1>3, <1>4, FifoInvFacts DEF doReset, ResetTo
<1>6. /\ emmSpace' \in EventMaps(SpaceThresholds)
      /\ Exact(SpaceThresholds, emmSpace', freeCount(q'))
  BY <1>3, <1>4, FifoInvFacts DEF doReset, ResetTo
<1>7. inFlight' = invisibleCount(q') /\ inConsume' = inconsumeCount(q')
  BY <1>1, MarkedCounts DEF doReset
<1> QED
  BY <1>1, <1>2, <1>5, <1>6, <1>7, FifoInvNext

(***************************************************************************)
(* The theorems.                                                           *)
(***************************************************************************)

(* smoc_fifo keeps its types, its areas add up to its depth and its events *)
(* are exact, in every reachable state.                                    *)
THEOREM Invariance == Spec => []FifoInv
<1>1. FifoInv /\ [Next]_vars => FifoInv'
  <2> SUFFICES ASSUME FifoInv, [Next]_vars PROVE FifoInv'
    OBVIOUS
  <2>1. ASSUME NEW n \in SpaceThresholds, NEW toks \in [1 .. n -> Token],
               EntryCommStart(toks)
        PROVE  FifoInv'
    BY <2>1, EntryCommStartInv
  <2>2. ASSUME NEW n \in 1 .. Depth, NEW dropped \in BOOLEAN,
               EntryCommFinish(n, dropped)
        PROVE  FifoInv'
    BY <2>2, LatencyExpiredInv, LatencyExpiredDroppedInv
  <2>3. ASSUME NEW r \in DataThresholds, NEW c \in 0 .. r,
               OutletCommStart(c, r)
        PROVE  FifoInv'
    BY <2>3, OutletCommStartInv
  <2>4. ASSUME NEW n \in 1 .. Depth, OutletCommFinish(n)
        PROVE  FifoInv'
    BY <2>4, OutletCommFinishInv
  <2>5. CASE doReset
    BY <2>5, doResetInv
  <2>6. CASE UNCHANGED vars
    BY <2>6 DEF vars, FifoInv, TypeOK, AreasAddUp, EventsExact
  <2> QED
    BY <2>1, <2>2, <2>3, <2>4, <2>5, <2>6 DEF Next
<1> QED
  BY <1>1, InitInv, PTL DEF Spec

(* Every reachable state of smoc_fifo has its types. *)
THEOREM Typing == Spec => []TypeOK
BY Invariance, PTL DEF FifoInv

(* The four areas of the ring always add up to the depth, and the pipeline *)
(* and the consuming area hold exactly the unfinished communications.      *)
THEOREM Areas == Spec => []AreasAddUp
BY Invariance, PTL DEF FifoInv

(* An actor is told of tokens and places exactly when they are there.      *)
THEOREM Events == Spec => []EventsExact
BY Invariance, PTL DEF FifoInv

(* No assertion of the index classes can fail. *)
THEOREM Assertions == Spec => []AssertionsHold
<1>1. ASSUME FifoInv PROVE AssertionsHold
  <2>1. \A n \in SpaceThresholds : emmSpace[n] => wppAssert(q, n)
    BY <1>1, FifoInvFacts DEF Exact, wppAssert
  <2>2. \A n \in DataThresholds : emmData[n] => rppAssert(q, n)
    BY <1>1, FifoInvFacts DEF Exact, rppAssert
  <2>3. /\ q.findex \in Idx /\ q.rindex \in Idx
        /\ q.vindex \in Idx /\ q.windex \in Idx
    BY <1>1, FifoInvFacts DEF Indices
  <2>4. Between(q.vindex, q.rindex, q.windex)
    <3>1. visibleCount(q) + invisibleCount(q) <= Depth
      BY <1>1, FifoInvFacts, CountType, DepthAssumption DEF Apart
    <3>2. Minus(q.windex, q.rindex) = visibleCount(q) + invisibleCount(q)
      BY <2>3, <3>1, Around DEF visibleCount, invisibleCount
    <3> QED
      BY <2>3, <3>2, Distance, CountType, FifoInvFacts, <1>1, DepthAssumption
         DEF Between, visibleCount
  <2>5. Between(q.findex, Plus(q.windex, 1), q.rindex)
    BY <2>3, <1>1, FifoInvFacts, DepthAssumption
       DEF Between, Apart, Idx, FSize, Plus, Minus, freeCount, inconsumeCount,
           visibleCount, invisibleCount
  <2> QED
    BY <1>1, <2>1, <2>2, <2>4, <2>5, FifoInvFacts
       DEF AssertionsHold, vppAssert, fppAssert
<1> QED
  BY <1>1, Invariance, PTL
=============================================================================
