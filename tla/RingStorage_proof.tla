------------------------- MODULE RingStorage_proof -------------------------
(***************************************************************************)
(* What every channel on a ring buffer needs: how the four areas change    *)
(* when an index moves, that a walk over an exact event map leaves it      *)
(* exact, and what lies in the slots after a write, a read, a dropped      *)
(* write and a reset.  T is the set of tokens of the channel.              *)
(***************************************************************************)
EXTENDS RingStorage, EventMap, SequenceTheorems, TLAPS

(***************************************************************************)
(* Ring arithmetic.                                                        *)
(***************************************************************************)

(* An index moved by a count that fits the ring is an index. *)
LEMMA PlusType ==
  ASSUME NEW b \in Idx, NEW n \in 0 .. Depth
  PROVE  Plus(b, n) \in Idx
BY DepthAssumption DEF Idx, FSize, Plus

(* Moving index b towards c brings it nearer by as much. *)
LEMMA Nearer ==
  ASSUME NEW b \in Idx, NEW c \in Idx, NEW n \in Nat, n <= Minus(c, b)
  PROVE  /\ Plus(b, n) \in Idx
         /\ Minus(c, Plus(b, n)) = Minus(c, b) - n
BY DepthAssumption DEF Idx, FSize, Plus, Minus

(* Moving index b away from a, by less than a full turn. *)
LEMMA Farther ==
  ASSUME NEW a \in Idx, NEW b \in Idx, NEW n \in Nat, Minus(b, a) + n <= Depth
  PROVE  Minus(Plus(b, n), a) = Minus(b, a) + n
BY DepthAssumption DEF Idx, FSize, Plus, Minus

(* The distance between two indices, and the free area as a distance. *)
LEMMA Distance ==
  ASSUME NEW a \in Idx, NEW b \in Idx
  PROVE  /\ Minus(b, a) \in 0 .. Depth
         /\ Minus(Minus(a, b), 1) = Depth - Minus(b, a)
BY DepthAssumption DEF Idx, FSize, Minus

(* Three consecutive distances that fit the ring add up to the whole way. *)
LEMMA Around ==
  ASSUME NEW a \in Idx, NEW b \in Idx, NEW c \in Idx
  PROVE  Minus(b, a) + Minus(c, b) <= Depth =>
            Minus(c, a) = Minus(b, a) + Minus(c, b)
BY DepthAssumption DEF Idx, FSize, Minus

(* The indices are in the order findex, rindex, vindex, windex around the  *)
(* ring: the four areas do not overlap.                                    *)
Apart(p) ==
  inconsumeCount(p) + visibleCount(p) + invisibleCount(p) + freeCount(p) = Depth

(* The counts are never larger than the ring. *)
LEMMA CountType ==
  ASSUME NEW p \in Indices
  PROVE  /\ inconsumeCount(p) \in 0 .. Depth
         /\ visibleCount(p) \in 0 .. Depth
         /\ invisibleCount(p) \in 0 .. Depth
         /\ freeCount(p) \in 0 .. Depth
<1>1. /\ p.findex \in Idx /\ p.rindex \in Idx
      /\ p.vindex \in Idx /\ p.windex \in Idx
  BY DEF Indices
<1> QED
  BY <1>1, Distance, DepthAssumption
     DEF inconsumeCount, visibleCount, invisibleCount, freeCount

(* A write of n tokens into free places moves n places from the free area  *)
(* to the pipeline and leaves the other two alone.                         *)
LEMMA WppCounts ==
  ASSUME NEW p \in Indices, Apart(p), NEW n \in Nat, n <= freeCount(p)
  PROVE  /\ wpp(p, n) \in Indices
         /\ inconsumeCount(wpp(p, n)) = inconsumeCount(p)
         /\ visibleCount(wpp(p, n)) = visibleCount(p)
         /\ invisibleCount(wpp(p, n)) = invisibleCount(p) + n
         /\ freeCount(wpp(p, n)) = freeCount(p) - n
<1> DEFINE w == Plus(p.windex, n)
<1>1. /\ p.findex \in Idx /\ p.rindex \in Idx
      /\ p.vindex \in Idx /\ p.windex \in Idx
  BY DEF Indices
<1>2. /\ invisibleCount(p) + n <= Depth
      /\ Minus(p.windex, p.findex) + n <= Depth
  <2>1. invisibleCount(p) + n <= Depth
    BY CountType, DepthAssumption DEF Apart
  <2>2. freeCount(p) = Depth - Minus(p.windex, p.findex)
    BY <1>1, Distance DEF freeCount
  <2> QED
    BY <1>1, <2>1, <2>2, Distance, DepthAssumption
<1>3. /\ Minus(w, p.vindex) = Minus(p.windex, p.vindex) + n
      /\ Minus(w, p.findex) = Minus(p.windex, p.findex) + n
  BY <1>1, <1>2, Farther DEF invisibleCount
<1>4. w \in Idx
  <2>1. n \in 0 .. Depth
    BY <1>2, CountType, DepthAssumption
  <2> QED
    BY <1>1, <2>1, PlusType
<1>5. /\ wpp(p, n) \in Indices
      /\ wpp(p, n).findex = p.findex /\ wpp(p, n).rindex = p.rindex
      /\ wpp(p, n).vindex = p.vindex /\ wpp(p, n).windex = w
  BY <1>4 DEF Indices, wpp
<1> QED
  <2>1. Minus(Minus(p.findex, w), 1) = Minus(Minus(p.findex, p.windex), 1) - n
    BY <1>1, <1>3, <1>4, Distance, DepthAssumption
  <2> QED
    BY <1>3, <1>5, <2>1
       DEF inconsumeCount, visibleCount, invisibleCount, freeCount

(* A read of n visible tokens moves n places from the visible area to the  *)
(* consuming one.                                                          *)
LEMMA RppCounts ==
  ASSUME NEW p \in Indices, Apart(p), NEW n \in Nat, n <= visibleCount(p)
  PROVE  /\ rpp(p, n) \in Indices
         /\ inconsumeCount(rpp(p, n)) = inconsumeCount(p) + n
         /\ visibleCount(rpp(p, n)) = visibleCount(p) - n
         /\ invisibleCount(rpp(p, n)) = invisibleCount(p)
         /\ freeCount(rpp(p, n)) = freeCount(p)
<1> DEFINE r == Plus(p.rindex, n)
<1>1. /\ p.findex \in Idx /\ p.rindex \in Idx
      /\ p.vindex \in Idx /\ p.windex \in Idx
  BY DEF Indices
<1>2. inconsumeCount(p) + n <= Depth
  BY CountType, DepthAssumption DEF Apart
<1>3. /\ r \in Idx
      /\ Minus(p.vindex, r) = Minus(p.vindex, p.rindex) - n
      /\ Minus(r, p.findex) = Minus(p.rindex, p.findex) + n
  BY <1>1, <1>2, Nearer, Farther DEF visibleCount, inconsumeCount
<1>4. /\ rpp(p, n) \in Indices
      /\ rpp(p, n).findex = p.findex /\ rpp(p, n).rindex = r
      /\ rpp(p, n).vindex = p.vindex /\ rpp(p, n).windex = p.windex
  BY <1>3 DEF Indices, rpp
<1> QED
  BY <1>3, <1>4 DEF inconsumeCount, visibleCount, invisibleCount, freeCount

(* n tokens whose latency expires move from the pipeline to the visible    *)
(* area.                                                                   *)
LEMMA VppCounts ==
  ASSUME NEW p \in Indices, Apart(p), NEW n \in Nat, n <= invisibleCount(p)
  PROVE  /\ vpp(p, n) \in Indices
         /\ inconsumeCount(vpp(p, n)) = inconsumeCount(p)
         /\ visibleCount(vpp(p, n)) = visibleCount(p) + n
         /\ invisibleCount(vpp(p, n)) = invisibleCount(p) - n
         /\ freeCount(vpp(p, n)) = freeCount(p)
<1> DEFINE v == Plus(p.vindex, n)
<1>1. /\ p.findex \in Idx /\ p.rindex \in Idx
      /\ p.vindex \in Idx /\ p.windex \in Idx
  BY DEF Indices
<1>2. visibleCount(p) + n <= Depth
  BY CountType, DepthAssumption DEF Apart
<1>3. /\ v \in Idx
      /\ Minus(p.windex, v) = Minus(p.windex, p.vindex) - n
      /\ Minus(v, p.rindex) = Minus(p.vindex, p.rindex) + n
  BY <1>1, <1>2, Nearer, Farther DEF visibleCount, invisibleCount
<1>4. /\ vpp(p, n) \in Indices
      /\ vpp(p, n).findex = p.findex /\ vpp(p, n).rindex = p.rindex
      /\ vpp(p, n).vindex = v /\ vpp(p, n).windex = p.windex
  BY <1>3 DEF Indices, vpp
<1> QED
  BY <1>3, <1>4 DEF inconsumeCount, visibleCount, invisibleCount, freeCount

(* n consumed places that are released become free. *)
LEMMA FppCounts ==
  ASSUME NEW p \in Indices, Apart(p), NEW n \in Nat, n <= inconsumeCount(p)
  PROVE  /\ fpp(p, n) \in Indices
         /\ inconsumeCount(fpp(p, n)) = inconsumeCount(p) - n
         /\ visibleCount(fpp(p, n)) = visibleCount(p)
         /\ invisibleCount(fpp(p, n)) = invisibleCount(p)
         /\ freeCount(fpp(p, n)) = freeCount(p) + n
<1> DEFINE f == Plus(p.findex, n)
<1>1. /\ p.findex \in Idx /\ p.rindex \in Idx
      /\ p.vindex \in Idx /\ p.windex \in Idx
  BY DEF Indices
<1>2. /\ f \in Idx
      /\ Minus(p.rindex, f) = Minus(p.rindex, p.findex) - n
  BY <1>1, Nearer DEF inconsumeCount
<1>3. /\ freeCount(p) = Depth - Minus(p.windex, p.findex)
      /\ Minus(Minus(f, p.windex), 1) = Depth - Minus(p.windex, f)
  BY <1>1, <1>2, Distance DEF freeCount
<1>4. n <= Minus(p.windex, p.findex)
  BY <1>1, <1>3, CountType, Distance, DepthAssumption DEF Apart
<1>5. Minus(p.windex, f) = Minus(p.windex, p.findex) - n
  BY <1>1, <1>4, Nearer
<1>6. /\ fpp(p, n) \in Indices
      /\ fpp(p, n).findex = f /\ fpp(p, n).rindex = p.rindex
      /\ fpp(p, n).vindex = p.vindex /\ fpp(p, n).windex = p.windex
  BY <1>2 DEF Indices, fpp
<1>7. Minus(Minus(f, p.windex), 1) = Minus(Minus(p.findex, p.windex), 1) + n
  BY <1>1, <1>3, <1>5, Distance, DepthAssumption DEF freeCount
<1> QED
  BY <1>2, <1>6, <1>7 DEF inconsumeCount, visibleCount, invisibleCount, freeCount

(* Dropping n tokens of the pipeline: the places pass through the visible  *)
(* and the consuming area and end up free.                                 *)
LEMMA DropCounts ==
  ASSUME NEW p \in Indices, Apart(p), NEW n \in Nat, n <= invisibleCount(p)
  PROVE  LET d == dropRInvisible(p, n)
         IN  /\ d \in Indices
             /\ inconsumeCount(d) = inconsumeCount(p)
             /\ visibleCount(d) = visibleCount(p)
             /\ invisibleCount(d) = invisibleCount(p) - n
             /\ freeCount(d) = freeCount(p) + n
<1> DEFINE v == vpp(p, n)
           r == rpp(v, n)
<1> USE DepthAssumption
<1>1. /\ v \in Indices
      /\ inconsumeCount(v) = inconsumeCount(p)
      /\ visibleCount(v) = visibleCount(p) + n
      /\ invisibleCount(v) = invisibleCount(p) - n
      /\ freeCount(v) = freeCount(p)
  BY VppCounts
<1>2. Apart(v) /\ n <= visibleCount(v)
  BY <1>1, CountType DEF Apart
<1>3. /\ r \in Indices
      /\ inconsumeCount(r) = inconsumeCount(v) + n
      /\ visibleCount(r) = visibleCount(v) - n
      /\ invisibleCount(r) = invisibleCount(v)
      /\ freeCount(r) = freeCount(v)
  BY <1>1, <1>2, RppCounts
<1>4. Apart(r) /\ n <= inconsumeCount(r)
  BY <1>1, <1>2, <1>3, CountType DEF Apart
<1>5. /\ fpp(r, n) \in Indices
      /\ inconsumeCount(fpp(r, n)) = inconsumeCount(r) - n
      /\ visibleCount(fpp(r, n)) = visibleCount(r)
      /\ invisibleCount(fpp(r, n)) = invisibleCount(r)
      /\ freeCount(fpp(r, n)) = freeCount(r) + n
  BY <1>3, <1>4, FppCounts
<1> QED
  BY <1>1, <1>3, <1>5, CountType DEF dropRInvisible

(***************************************************************************)
(* The event maps.                                                         *)
(***************************************************************************)

Exact(T, ev, count) == \A n \in T : ev[n] <=> n <= count

(* The walk down from a count that has grown leaves an exact map exact:    *)
(* all it has to notify lies between the old and the new count.            *)
LEMMA IncreasedExact ==
  ASSUME NEW T \in SUBSET Nat, NEW ev \in EventMaps(T),
         NEW c0 \in Nat, NEW c1 \in Nat, c0 <= c1, Exact(T, ev, c0)
  PROVE  /\ increasedCount(ev, c1) \in EventMaps(T)
         /\ Exact(T, increasedCount(ev, c1), c1)
<1>1. DOMAIN ev = T
  BY DEF EventMaps
<1>2. increasedCount(ev, c1) \in EventMaps(T)
  BY <1>1 DEF EventMaps, increasedCount
<1>3. ASSUME NEW n \in T
      PROVE  increasedCount(ev, c1)[n] <=> n <= c1
  <2>1. increasedCount(ev, c1)[n] <=> (ev[n] \/ n \in notifiedBy(ev, c1))
    BY <1>1 DEF increasedCount
  <2>2. CASE n <= c0
    BY <2>1, <2>2 DEF Exact
  <2>3. CASE c0 < n /\ n <= c1
    <3>1. \A m \in T : n <= m /\ m <= c1 => ~ev[m]
      BY <2>3 DEF Exact
    <3> QED
      BY <1>1, <2>1, <2>3, <3>1 DEF notifiedBy
  <2>4. CASE c1 < n
    BY <2>1, <2>4 DEF Exact, notifiedBy
  <2> QED
    BY <2>2, <2>3, <2>4
<1> QED
  BY <1>2, <1>3 DEF Exact

(* The walk up from a count that has shrunk leaves an exact map exact. *)
LEMMA DecreasedExact ==
  ASSUME NEW T \in SUBSET Nat, NEW ev \in EventMaps(T),
         NEW c0 \in Nat, NEW c1 \in Nat, c1 <= c0, Exact(T, ev, c0)
  PROVE  /\ decreasedCount(ev, c1) \in EventMaps(T)
         /\ Exact(T, decreasedCount(ev, c1), c1)
<1>1. DOMAIN ev = T
  BY DEF EventMaps
<1>2. decreasedCount(ev, c1) \in EventMaps(T)
  BY <1>1 DEF EventMaps, decreasedCount
<1>3. ASSUME NEW n \in T
      PROVE  decreasedCount(ev, c1)[n] <=> n <= c1
  <2>1. decreasedCount(ev, c1)[n] <=> (ev[n] /\ n \notin resetBy(ev, c1))
    BY <1>1 DEF decreasedCount
  <2>2. CASE n <= c1
    <3>1. n <= c0 /\ ~(c1 < n)
      BY <2>2
    <3> QED
      BY <2>1, <2>2, <3>1 DEF Exact, resetBy
  <2>3. CASE c1 < n /\ n <= c0
    <3>1. \A m \in T : c1 < m /\ m <= n => ev[m]
      BY <2>3 DEF Exact
    <3>2. n \in resetBy(ev, c1)
      BY <1>1, <2>3, <3>1, Zenon DEF resetBy
    <3> QED
      BY <2>1, <2>3, <3>2
  <2>4. CASE c0 < n
    BY <2>1, <2>4 DEF Exact
  <2> QED
    BY <2>2, <2>3, <2>4
<1> QED
  BY <1>2, <1>3 DEF Exact

(* From a map with every event disabled, one walk makes any count exact.   *)
LEMMA DisabledExact ==
  ASSUME NEW T \in SUBSET Nat, NEW ev \in EventMaps(T),
         \A n \in T : ~ev[n], NEW c \in Nat
  PROVE  /\ increasedCount(ev, c) \in EventMaps(T)
         /\ Exact(T, increasedCount(ev, c), c)
<1>1. DOMAIN ev = T
  BY DEF EventMaps
<1>2. increasedCount(ev, c) \in EventMaps(T)
  BY <1>1 DEF EventMaps, increasedCount
<1>3. ASSUME NEW n \in T
      PROVE  increasedCount(ev, c)[n] <=> n <= c
  BY <1>1 DEF increasedCount, notifiedBy
<1> QED
  BY <1>2, <1>3 DEF Exact

(***************************************************************************)
(* The slots.                                                              *)
(***************************************************************************)

Slots(T) == [Idx -> T \cup {NoToken}]

(* A function on 1 .. n is a sequence: the tokens of one write. *)
LEMMA TokensSeq ==
  ASSUME NEW T, NEW n \in Nat, NEW toks \in [1 .. n -> T]
  PROVE  toks \in Seq(T) /\ Len(toks) = n
BY SMT

(* Whatever is put, invalidated or moved, a slot holds a token or nothing. *)
LEMMA PutAtType ==
  ASSUME NEW T, NEW st \in Slots(T), NEW w \in Idx, NEW toks \in Seq(T)
  PROVE  PutAt(st, w, toks) \in Slots(T)
<1>1. ASSUME NEW i \in Idx, Minus(i, w) < Len(toks)
      PROVE  toks[Minus(i, w) + 1] \in T
  <2>1. Minus(i, w) \in Nat /\ Len(toks) \in Nat
    BY Distance, DepthAssumption
  <2>2. Minus(i, w) + 1 \in 1 .. Len(toks)
    BY <1>1, <2>1
  <2> QED
    BY <2>2
<1> QED
  BY <1>1 DEF Slots, PutAt

(* Consumed slots lose their tokens; the others keep theirs. *)
LEMMA InvalidateType ==
  ASSUME NEW T, NEW st \in Slots(T), NEW r, NEW n
  PROVE  Invalidate(st, r, n) \in Slots(T)
BY DEF Slots, Invalidate

(* Dropped writes shift the visible tokens within the slots. *)
LEMMA MoveType ==
  ASSUME NEW T, NEW st \in Slots(T), NEW p \in Indices, NEW n \in 0 .. Depth
  PROVE  moveTokensRight(st, p, n) \in Slots(T)
<1>1. \A i \in Idx : Minus(i, n) \in Idx
  BY Distance, DepthAssumption DEF Idx
<1> QED
  BY <1>1 DEF Slots, moveTokensRight

(* The initial tokens are tokens, and they fit. *)
Marked(T) == NoToken \notin T /\ Marking \in Seq(T) /\ Len(Marking) <= Depth

(* After a reset the initial tokens are visible and everything else is     *)
(* free.                                                                   *)
LEMMA MarkedQueueCounts ==
  ASSUME NEW T, Marked(T)
  PROVE  /\ Len(Marking) \in 0 .. Depth
         /\ MarkedQueue \in Indices
         /\ inconsumeCount(MarkedQueue) = 0
         /\ visibleCount(MarkedQueue) = Len(Marking)
         /\ invisibleCount(MarkedQueue) = 0
         /\ freeCount(MarkedQueue) = Depth - Len(Marking)
<1> DEFINE L == Len(Marking)
           w == wpp(resetQueue, L)
<1>1. L \in 0 .. Depth
  BY DepthAssumption DEF Marked
<1>2. /\ resetQueue \in Indices
      /\ inconsumeCount(resetQueue) = 0
      /\ visibleCount(resetQueue) = 0
      /\ invisibleCount(resetQueue) = 0
      /\ freeCount(resetQueue) = Depth
  BY DepthAssumption DEF resetQueue, Indices, Idx, FSize, Minus, inconsumeCount,
     visibleCount, invisibleCount, freeCount
<1>3. Apart(resetQueue)
  BY <1>2, DepthAssumption DEF Apart
<1>4. L \in Nat /\ L <= freeCount(resetQueue)
  BY <1>1, <1>2, DepthAssumption
<1>5. /\ w \in Indices
      /\ inconsumeCount(w) = 0
      /\ visibleCount(w) = 0
      /\ invisibleCount(w) = L
      /\ freeCount(w) = Depth - L
  BY <1>1, <1>2, <1>3, <1>4, WppCounts, DepthAssumption
<1>6. Apart(w)
  BY <1>1, <1>5, DepthAssumption DEF Apart
<1> QED
  BY <1>1, <1>4, <1>5, <1>6, VppCounts, DepthAssumption DEF MarkedQueue

(***************************************************************************)
(* Slots of the ring, by their distance from an index.                     *)
(***************************************************************************)

(* The used area is the visible area and the pipeline, one after the other. *)
LEMMA UsedCounts ==
  ASSUME NEW p \in Indices, Apart(p)
  PROVE  /\ p.rindex \in Idx /\ p.vindex \in Idx /\ p.windex \in Idx
         /\ usedCount(p) = visibleCount(p) + invisibleCount(p)
         /\ usedCount(p) \in 0 .. Depth
<1>1. p.rindex \in Idx /\ p.vindex \in Idx /\ p.windex \in Idx
  BY DEF Indices
<1>2. visibleCount(p) + invisibleCount(p) <= Depth
  BY CountType, DepthAssumption DEF Apart
<1> QED
  BY <1>1, <1>2, Around, Distance DEF usedCount, visibleCount, invisibleCount

(* The slots of an area of m + n places are those of its first m places    *)
(* and those of the n places behind them.                                  *)
LEMMA AreaSplit ==
  ASSUME NEW i \in Idx, NEW a \in Idx, NEW m \in Nat, NEW n \in Nat, m + n <= Depth
  PROVE  /\ Minus(i, a) < m + n <=> Minus(i, a) < m \/ Minus(i, Plus(a, m)) < n
         /\ ~(Minus(i, a) < m /\ Minus(i, Plus(a, m)) < n)
BY DepthAssumption DEF Idx, FSize, Plus, Minus

(* The k-th slot behind an index, and the way back. *)
LEMMA SlotAt ==
  ASSUME NEW a \in Idx, NEW m \in Nat, NEW n \in Nat, m + n <= Depth
  PROVE  /\ Plus(a, m) \in Idx
         /\ Minus(Plus(a, m), a) = m
         /\ Plus(Plus(a, m), n) = Plus(a, m + n)
         /\ Minus(Plus(a, m + n), n) = Plus(a, m)
BY DepthAssumption DEF Idx, FSize, Plus, Minus

(* Going from one index to another one by their distance gets there. *)
LEMMA WayTo ==
  ASSUME NEW T, NEW a \in Idx, NEW b \in Idx
  PROVE  Plus(a, Minus(b, a)) = b
BY DepthAssumption DEF Idx, FSize, Plus, Minus

(***************************************************************************)
(* Slices: the tokens in n consecutive slots.                              *)
(***************************************************************************)

Held(T) == T \cup {NoToken}

(* A slice is a sequence of n slot contents. *)
LEMMA SliceSeq ==
  ASSUME NEW T, NEW st \in Slots(T), NEW a \in Idx, NEW n \in 0 .. Depth
  PROVE  /\ Slice(st, a, n) \in Seq(Held(T))
         /\ Len(Slice(st, a, n)) = n
         /\ \A k \in 1 .. n : Slice(st, a, n)[k] = st[Plus(a, k - 1)]
<1>1. \A k \in 1 .. n : Plus(a, k - 1) \in Idx
  BY PlusType, DepthAssumption
<1>2. Slice(st, a, n) \in [1 .. n -> Held(T)]
  BY <1>1 DEF Slice, Slots, Held
<1> QED
  BY <1>2, DepthAssumption DEF Slice

(* Two slices are equal if their slots are, one by one. *)
LEMMA SliceEqual ==
  ASSUME NEW T, NEW st \in Slots(T), NEW su \in Slots(T), NEW a \in Idx, NEW b \in Idx,
         NEW n \in 0 .. Depth,
         \A k \in 0 .. n - 1 : st[Plus(a, k)] = su[Plus(b, k)]
  PROVE  Slice(st, a, n) = Slice(su, b, n)
BY DepthAssumption DEF Slice

(* A slice of m + n slots is one of m slots and one of the n behind them. *)
LEMMA SliceSplit ==
  ASSUME NEW T, NEW st \in Slots(T), NEW a \in Idx, NEW m \in Nat, NEW n \in Nat, m + n <= Depth
  PROVE  Slice(st, a, m + n) = Slice(st, a, m) \o Slice(st, Plus(a, m), n)
<1>1. m \in 0 .. Depth /\ n \in 0 .. Depth /\ m + n \in 0 .. Depth /\ Plus(a, m) \in Idx
  BY PlusType, DepthAssumption
<1> DEFINE s == Slice(st, a, m + n)
           x == Slice(st, a, m)
           y == Slice(st, Plus(a, m), n)
<1>2. /\ s \in Seq(Held(T)) /\ Len(s) = m + n
      /\ \A k \in 1 .. m + n : s[k] = st[Plus(a, k - 1)]
  BY <1>1, SliceSeq
<1>3. /\ x \in Seq(Held(T)) /\ Len(x) = m
      /\ \A k \in 1 .. m : x[k] = st[Plus(a, k - 1)]
  BY <1>1, SliceSeq
<1>4. /\ y \in Seq(Held(T)) /\ Len(y) = n
      /\ \A k \in 1 .. n : y[k] = st[Plus(Plus(a, m), k - 1)]
  BY <1>1, SliceSeq
<1>5. ASSUME NEW k \in 1 .. n
      PROVE  Plus(Plus(a, m), k - 1) = Plus(a, m + (k - 1))
  <2>1. k - 1 \in Nat /\ m + (k - 1) <= Depth
    BY DepthAssumption
  <2> QED
    BY <2>1, SlotAt
<1> HIDE DEF s, x, y
<1>6. x \o y \in Seq(Held(T)) /\ Len(x \o y) = m + n
  BY <1>3, <1>4, ConcatProperties
<1>7. ASSUME NEW k \in 1 .. m + n
      PROVE  s[k] = (x \o y)[k]
  <2>1. CASE k <= m
    <3>1. (x \o y)[k] = x[k]
      BY <1>3, <1>4, <2>1, ConcatProperties
    <3>2. k \in 1 .. m
      BY <2>1
    <3>3. s[k] = st[Plus(a, k - 1)] /\ x[k] = st[Plus(a, k - 1)]
      BY <1>2, <1>3, <3>2
    <3> QED
      BY <3>1, <3>3
  <2>2. CASE ~(k <= m)
    <3>1. PICK j \in 1 .. n : j = k - m
      BY <2>2
    <3>2. (x \o y)[k] = y[j]
      BY <1>3, <1>4, <2>2, <3>1, ConcatProperties
    <3>3. y[j] = st[Plus(a, m + (j - 1))]
      BY <1>4, <1>5
    <3>4. m + (j - 1) = k - 1
      BY <3>1
    <3> QED
      BY <1>2, <3>2, <3>3, <3>4
  <2> QED
    BY <2>1, <2>2
<1>8. s = x \o y
  BY <1>2, <1>6, <1>7, SeqEqual
<1> QED
  BY <1>8 DEF s, x, y

(* The first m tokens of a slice, and the rest. *)
LEMMA SliceParts ==
  ASSUME NEW T, NEW st \in Slots(T), NEW a \in Idx, NEW n \in 0 .. Depth, NEW m \in 0 .. n
  PROVE  /\ SubSeq(Slice(st, a, n), 1, m) = Slice(st, a, m)
         /\ SubSeq(Slice(st, a, n), m + 1, n) = Slice(st, Plus(a, m), n - m)
<1>1. m \in 0 .. Depth /\ n - m \in 0 .. Depth /\ m \in Nat /\ n - m \in Nat
  BY DepthAssumption
<1>2. Plus(a, m) \in Idx
  BY <1>1, PlusType
<1> DEFINE s == Slice(st, a, n)
           x == Slice(st, a, m)
           y == Slice(st, Plus(a, m), n - m)
<1>3. /\ s \in Seq(Held(T)) /\ Len(s) = n
      /\ \A k \in 1 .. n : s[k] = st[Plus(a, k - 1)]
  BY SliceSeq
<1>4. /\ x \in Seq(Held(T)) /\ Len(x) = m
      /\ \A k \in 1 .. m : x[k] = st[Plus(a, k - 1)]
  BY <1>1, SliceSeq
<1>5. /\ y \in Seq(Held(T)) /\ Len(y) = n - m
      /\ \A k \in 1 .. n - m : y[k] = st[Plus(Plus(a, m), k - 1)]
  BY <1>1, <1>2, SliceSeq
<1> HIDE DEF s, x, y
<1>6. SubSeq(s, 1, m) = x
  <2>1. \A k \in 1 .. m : s[k] \in Held(T)
    BY <1>3
  <2>2. /\ SubSeq(s, 1, m) \in Seq(Held(T))
        /\ Len(SubSeq(s, 1, m)) = m
        /\ \A k \in 1 .. m : SubSeq(s, 1, m)[k] = s[k]
    BY <1>1, <2>1, SubSeqProperties
  <2>3. ASSUME NEW k \in 1 .. m
        PROVE  SubSeq(s, 1, m)[k] = x[k]
    <3>1. k \in 1 .. n
      BY <1>1, DepthAssumption
    <3>2. s[k] = st[Plus(a, k - 1)] /\ x[k] = st[Plus(a, k - 1)]
      BY <1>3, <1>4, <3>1
    <3> QED
      BY <2>2, <3>2
  <2> QED
    BY <1>4, <2>2, <2>3, SeqEqual
<1>7. SubSeq(s, m + 1, n) = y
  <2>1. \A k \in m + 1 .. n : s[k] \in Held(T)
    BY <1>3
  <2>2. /\ SubSeq(s, m + 1, n) \in Seq(Held(T))
        /\ Len(SubSeq(s, m + 1, n)) = n - m
        /\ \A k \in 1 .. n - m : SubSeq(s, m + 1, n)[k] = s[m + k]
    BY <1>1, <2>1, SubSeqProperties
  <2>3. ASSUME NEW k \in 1 .. n - m
        PROVE  SubSeq(s, m + 1, n)[k] = y[k]
    <3>1. m + k \in 1 .. n /\ k - 1 \in Nat /\ m + (k - 1) = (m + k) - 1
      BY <1>1
    <3>2. m + (k - 1) <= Depth
      BY <1>1, DepthAssumption
    <3>3. Plus(Plus(a, m), k - 1) = Plus(a, m + (k - 1))
      BY <1>1, <3>1, <3>2, SlotAt
    <3>4. s[m + k] = st[Plus(a, (m + k) - 1)]
      BY <1>3, <3>1
    <3> QED
      BY <1>5, <2>2, <3>1, <3>3, <3>4
  <2> QED
    BY <1>5, <2>2, <2>3, SeqEqual
<1> QED
  BY <1>6, <1>7 DEF s, x, y

(***************************************************************************)
(* What each storage operation leaves in the slots.                        *)
(***************************************************************************)

(* The slots that hold a token are those between rindex and windex. *)
InUse(st, p) == \A i \in Idx : st[i] # NoToken <=> Minus(i, p.rindex) < usedCount(p)

(* A write fills the n free places behind windex, and no others. *)
LEMMA PutSlots ==
  ASSUME NEW T, NoToken \notin T, NEW st \in Slots(T), NEW p \in Indices, Apart(p),
         NEW toks \in Seq(T), Len(toks) <= freeCount(p)
  PROVE  LET n  == Len(toks)
             su == PutAt(st, p.windex, toks)
         IN  /\ InUse(st, p) => InUse(su, wpp(p, n))
             /\ Slice(su, p.rindex, visibleCount(p)) = Slice(st, p.rindex, visibleCount(p))
             /\ Slice(su, p.vindex, invisibleCount(p) + n)
                  = Slice(st, p.vindex, invisibleCount(p)) \o toks
<1> DEFINE n  == Len(toks)
           su == PutAt(st, p.windex, toks)
           vis == visibleCount(p)
           inv == invisibleCount(p)
           used == usedCount(p)
<1>1. /\ p.rindex \in Idx /\ p.vindex \in Idx /\ p.windex \in Idx
      /\ used = vis + inv /\ used \in Nat
      /\ vis \in Nat /\ inv \in Nat /\ n \in Nat /\ used + n <= Depth
  BY UsedCounts, CountType, DepthAssumption DEF Apart
<1>2. /\ Plus(p.rindex, vis) = p.vindex
      /\ Plus(p.vindex, inv) = p.windex
      /\ Plus(p.rindex, used) = p.windex
  BY <1>1, WayTo DEF visibleCount, invisibleCount, usedCount
<1>3. su \in Slots(T)
  BY <1>1, PutAtType
<1>4. \A i \in Idx : su[i] = IF Minus(i, p.windex) < n THEN toks[Minus(i, p.windex) + 1]
                                                        ELSE st[i]
  BY DEF PutAt
<1> HIDE DEF su, n, vis, inv, used
<1>5. ASSUME InUse(st, p) PROVE InUse(su, wpp(p, n))
  <2>1. wpp(p, n).rindex = p.rindex /\ usedCount(wpp(p, n)) = used + n
    <3>1. wpp(p, n).rindex = p.rindex /\ wpp(p, n).windex = Plus(p.windex, n)
      BY DEF wpp, Indices
    <3> QED
      BY <1>1, <3>1, Farther DEF used, usedCount
  <2>2. ASSUME NEW i \in Idx
        PROVE  su[i] # NoToken <=> Minus(i, p.rindex) < used + n
    <3>1. Minus(i, p.rindex) < used + n <=>
             Minus(i, p.rindex) < used \/ Minus(i, p.windex) < n
      <4>1. /\ p.rindex \in Idx /\ used \in Nat /\ n \in Nat /\ used + n <= Depth
            /\ Plus(p.rindex, used) = p.windex
        BY <1>1, <1>2
      <4> QED
        BY <4>1, AreaSplit
    <3>2. CASE Minus(i, p.windex) < n
      <4>1. Minus(i, p.windex) \in Nat
        <5>1. p.windex \in Idx
          BY <1>1
        <5> QED
          BY <5>1, Distance, DepthAssumption
      <4>2. Minus(i, p.windex) + 1 \in 1 .. Len(toks)
        BY <1>1, <3>2, <4>1 DEF n
      <4>3. su[i] \in T
        BY <1>4, <3>2, <4>2
      <4> QED
        BY <3>1, <3>2, <4>3
    <3>3. CASE ~(Minus(i, p.windex) < n)
      BY <1>1, <1>4, <1>5, <3>1, <3>3 DEF InUse, used
    <3> QED
      BY <3>2, <3>3
  <2> QED
    BY <2>1, <2>2 DEF InUse
<1>6. ASSUME NEW k \in Nat, k < used
      PROVE  su[Plus(p.rindex, k)] = st[Plus(p.rindex, k)]
  <2>1. Plus(p.rindex, k) \in Idx /\ Minus(Plus(p.rindex, k), p.rindex) = k
    BY <1>1, <1>6, SlotAt, DepthAssumption
  <2>2. ~(Minus(Plus(p.rindex, k), p.windex) < n)
    BY <1>1, <1>2, <1>6, <2>1, AreaSplit
  <2> QED
    BY <1>4, <2>1, <2>2
<1>7. Slice(su, p.rindex, vis) = Slice(st, p.rindex, vis)
  <2>1. vis \in 0 .. Depth /\ \A k \in 0 .. vis - 1 : k \in Nat /\ k < used
    BY <1>1, DepthAssumption
  <2> QED
    BY <1>1, <1>3, <1>6, <2>1, SliceEqual
<1>8. Slice(su, p.vindex, inv) = Slice(st, p.vindex, inv)
  <2>1. inv \in 0 .. Depth
    BY <1>1, DepthAssumption
  <2>2. ASSUME NEW k \in 0 .. inv - 1
        PROVE  su[Plus(p.vindex, k)] = st[Plus(p.vindex, k)]
    <3>1. k \in Nat /\ vis + k <= Depth /\ vis + k \in Nat /\ vis + k < used
      BY <1>1, DepthAssumption
    <3>2. Plus(p.vindex, k) = Plus(p.rindex, vis + k)
      BY <1>1, <1>2, <3>1, SlotAt
    <3> QED
      BY <1>6, <3>1, <3>2
  <2> QED
    BY <1>1, <1>3, <2>1, <2>2, SliceEqual
<1>9. Slice(su, p.windex, n) = toks
  <2>1. n \in 0 .. Depth
    BY <1>1, DepthAssumption
  <2>2. ASSUME NEW k \in 1 .. n
        PROVE  su[Plus(p.windex, k - 1)] = toks[k]
    <3>1. k - 1 \in Nat /\ (k - 1) + 0 <= Depth /\ k - 1 < n /\ (k - 1) + 1 = k
      BY <2>1, DepthAssumption
    <3>2. /\ Plus(p.windex, k - 1) \in Idx
          /\ Minus(Plus(p.windex, k - 1), p.windex) = k - 1
      BY <1>1, <3>1, SlotAt
    <3> QED
      BY <1>4, <3>1, <3>2
  <2>3. /\ Slice(su, p.windex, n) \in Seq(Held(T)) /\ Len(Slice(su, p.windex, n)) = n
        /\ \A k \in 1 .. n : Slice(su, p.windex, n)[k] = toks[k]
    <3>1. /\ Slice(su, p.windex, n) \in Seq(Held(T)) /\ Len(Slice(su, p.windex, n)) = n
          /\ \A k \in 1 .. n : Slice(su, p.windex, n)[k] = su[Plus(p.windex, k - 1)]
      BY <1>1, <1>3, <2>1, SliceSeq
    <3> QED
      BY <2>2, <3>1
  <2>4. toks \in Seq(Held(T))
    BY DEF Held
  <2> QED
    BY <2>3, <2>4, SeqEqual DEF n
<1>10. Slice(su, p.vindex, inv + n) = Slice(st, p.vindex, inv) \o toks
  <2>1. inv + n <= Depth
    BY <1>1, DepthAssumption
  <2>2. Slice(su, p.vindex, inv + n) = Slice(su, p.vindex, inv) \o Slice(su, Plus(p.vindex, inv), n)
    BY <1>1, <1>3, <2>1, SliceSplit
  <2> QED
    BY <1>2, <1>8, <1>9, <2>2
<1> QED
  BY <1>5, <1>7, <1>10 DEF su, n, vis, inv, used

(* Reading destroys the c oldest visible tokens, and no others. *)
LEMMA ReadSlots ==
  ASSUME NEW T, NEW st \in Slots(T), NEW p \in Indices, Apart(p),
         NEW c \in Nat, c <= visibleCount(p)
  PROVE  LET su == Invalidate(st, p.rindex, c)
         IN  /\ InUse(st, p) => InUse(su, rpp(p, c))
             /\ Slice(su, Plus(p.rindex, c), visibleCount(p) - c)
                  = Slice(st, Plus(p.rindex, c), visibleCount(p) - c)
             /\ Slice(su, p.vindex, invisibleCount(p))
                  = Slice(st, p.vindex, invisibleCount(p))
<1> DEFINE su == Invalidate(st, p.rindex, c)
           vis == visibleCount(p)
           inv == invisibleCount(p)
           used == usedCount(p)
           r == Plus(p.rindex, c)
<1>1. /\ p.rindex \in Idx /\ p.vindex \in Idx /\ p.windex \in Idx
      /\ used = vis + inv /\ used \in 0 .. Depth /\ c \in 0 .. Depth /\ c <= used
      /\ vis \in 0 .. Depth /\ inv \in 0 .. Depth /\ vis - c \in 0 .. Depth
  BY UsedCounts, CountType, DepthAssumption
<1>2. Plus(p.rindex, vis) = p.vindex
  BY <1>1, WayTo DEF visibleCount
<1>3. su \in Slots(T) /\ r \in Idx
  BY <1>1, InvalidateType, PlusType
<1>4. \A i \in Idx : su[i] = IF Minus(i, p.rindex) < c THEN NoToken ELSE st[i]
  BY DEF Invalidate
<1>5. ASSUME InUse(st, p) PROVE InUse(su, rpp(p, c))
  <2>1. rpp(p, c).rindex = r /\ usedCount(rpp(p, c)) = used - c
    <3>1. rpp(p, c).rindex = r /\ rpp(p, c).windex = p.windex
      BY DEF rpp, Indices
    <3>2. Minus(p.windex, r) = Minus(p.windex, p.rindex) - c
      BY <1>1, Nearer DEF usedCount
    <3> QED
      BY <3>1, <3>2 DEF usedCount
  <2>2. ASSUME NEW i \in Idx
        PROVE  su[i] # NoToken <=> Minus(i, r) < used - c
    <3>1. /\ Minus(i, p.rindex) < c + (used - c) <=>
                Minus(i, p.rindex) < c \/ Minus(i, r) < used - c
          /\ ~(Minus(i, p.rindex) < c /\ Minus(i, r) < used - c)
      <4>1. /\ p.rindex \in Idx /\ c \in Nat /\ used - c \in Nat
            /\ c + (used - c) <= Depth
        BY <1>1, DepthAssumption
      <4> QED
        BY <4>1, AreaSplit
    <3>2. c + (used - c) = used
      BY <1>1, DepthAssumption
    <3>3. st[i] # NoToken <=> Minus(i, p.rindex) < used
      BY <1>5 DEF InUse
    <3> QED
      BY <1>4, <3>1, <3>2, <3>3
  <2> HIDE DEF su, r, used
  <2> QED
    BY <2>1, <2>2 DEF InUse
<1>6. ASSUME NEW k \in c .. used - 1
      PROVE  su[Plus(p.rindex, k)] = st[Plus(p.rindex, k)]
  <2>1. k \in Nat /\ k + 0 <= Depth /\ ~(k < c)
    BY <1>1, DepthAssumption
  <2>2. Plus(p.rindex, k) \in Idx /\ Minus(Plus(p.rindex, k), p.rindex) = k
    BY <1>1, <2>1, SlotAt
  <2> QED
    BY <1>4, <2>1, <2>2
<1> HIDE DEF su, vis, inv, used, r
<1>7. Slice(su, r, vis - c) = Slice(st, r, vis - c)
  <2>1. ASSUME NEW k \in 0 .. (vis - c) - 1
        PROVE  su[Plus(r, k)] = st[Plus(r, k)]
    <3>1. k \in Nat /\ c + k <= Depth /\ c + k \in c .. used - 1
      BY <1>1, DepthAssumption
    <3>2. Plus(r, k) = Plus(p.rindex, c + k)
      BY <1>1, <3>1, SlotAt DEF r
    <3> QED
      BY <1>6, <3>1, <3>2
  <2> QED
    BY <1>1, <1>3, <2>1, SliceEqual
<1>8. Slice(su, p.vindex, inv) = Slice(st, p.vindex, inv)
  <2>1. ASSUME NEW k \in 0 .. inv - 1
        PROVE  su[Plus(p.vindex, k)] = st[Plus(p.vindex, k)]
    <3>1. k \in Nat /\ vis \in Nat /\ vis + k <= Depth /\ vis + k \in c .. used - 1
      BY <1>1, DepthAssumption
    <3>2. Plus(p.vindex, k) = Plus(p.rindex, vis + k)
      BY <1>1, <1>2, <3>1, SlotAt
    <3> QED
      BY <1>6, <3>1, <3>2
  <2> QED
    BY <1>1, <1>3, <2>1, SliceEqual
<1> QED
  BY <1>5, <1>7, <1>8 DEF su, vis, inv, r

(* A dropped write leaves its places empty behind the visible tokens,      *)
(* which have moved n slots up, and keeps the rest of the pipeline.        *)
LEMMA DropSlots ==
  ASSUME NEW T, NEW st \in Slots(T), NEW p \in Indices, Apart(p),
         NEW n \in Nat, n <= invisibleCount(p)
  PROVE  LET su == moveTokensRight(st, p, n)
         IN  /\ InUse(st, p) => InUse(su, dropRInvisible(p, n))
             /\ Slice(su, Plus(p.rindex, n), visibleCount(p))
                  = Slice(st, p.rindex, visibleCount(p))
             /\ Slice(su, Plus(p.vindex, n), invisibleCount(p) - n)
                  = Slice(st, Plus(p.vindex, n), invisibleCount(p) - n)
<1> DEFINE su == moveTokensRight(st, p, n)
           vis == visibleCount(p)
           inv == invisibleCount(p)
           used == usedCount(p)
           r == Plus(p.rindex, n)
           v == Plus(p.vindex, n)
<1>1. /\ p.rindex \in Idx /\ p.vindex \in Idx /\ p.windex \in Idx
      /\ used = vis + inv /\ used \in 0 .. Depth /\ n \in 0 .. Depth /\ n <= used
      /\ vis \in 0 .. Depth /\ inv \in 0 .. Depth /\ inv - n \in 0 .. Depth
  BY UsedCounts, CountType, DepthAssumption
<1>2. Plus(p.rindex, vis) = p.vindex
  BY <1>1, WayTo DEF visibleCount
<1>3. su \in Slots(T) /\ r \in Idx /\ v \in Idx
  BY <1>1, MoveType, PlusType
<1>4. \A i \in Idx :
        su[i] = IF Minus(i, p.rindex) < n THEN NoToken
                ELSE IF Minus(i, p.rindex) < vis + n THEN st[Minus(i, n)]
                ELSE st[i]
  BY DEF moveTokensRight
<1> HIDE DEF su, vis, inv, used, r, v
(* The visible tokens, in their new places. *)
<1>5. ASSUME NEW k \in 0 .. vis - 1
      PROVE  su[Plus(r, k)] = st[Plus(p.rindex, k)]
  <2>1. k \in Nat /\ n + k <= Depth /\ n + k \in Nat /\ (n + k) + 0 <= Depth
    BY <1>1, DepthAssumption
  <2>2. Plus(r, k) = Plus(p.rindex, n + k)
    BY <1>1, <2>1, SlotAt DEF r
  <2>3. /\ Plus(p.rindex, n + k) \in Idx
        /\ Minus(Plus(p.rindex, n + k), p.rindex) = n + k
    BY <1>1, <2>1, SlotAt
  <2>4. Minus(Plus(p.rindex, k + n), n) = Plus(p.rindex, k)
    BY <1>1, <2>1, SlotAt
  <2>5. ~(n + k < n) /\ n + k < vis + n /\ k + n = n + k
    BY <1>1, <2>1, DepthAssumption
  <2> QED
    BY <1>4, <2>2, <2>3, <2>4, <2>5
(* The rest of the pipeline, in its old places. *)
<1>6. ASSUME NEW k \in 0 .. (inv - n) - 1
      PROVE  su[Plus(v, k)] = st[Plus(v, k)]
  <2>1. k \in Nat /\ n + k \in Nat /\ n + k <= Depth
    BY <1>1, DepthAssumption
  <2>2. vis \in Nat /\ vis + (n + k) \in Nat /\ vis + (n + k) <= Depth
        /\ (vis + (n + k)) + 0 <= Depth
    BY <1>1, <2>1, DepthAssumption
  <2>3. Plus(v, k) = Plus(p.vindex, n + k)
    BY <1>1, <2>1, SlotAt DEF v
  <2>4. Plus(p.vindex, n + k) = Plus(p.rindex, vis + (n + k))
    BY <1>1, <1>2, <2>1, <2>2, SlotAt
  <2>5. /\ Plus(v, k) \in Idx
        /\ Minus(Plus(v, k), p.rindex) = vis + (n + k)
    <3>1. PICK o \in Nat : o = vis + (n + k) /\ o + 0 <= Depth
      BY <2>2
    <3>2. Plus(p.rindex, o) \in Idx /\ Minus(Plus(p.rindex, o), p.rindex) = o
      BY <1>1, <3>1, SlotAt
    <3> QED
      BY <2>3, <2>4, <3>1, <3>2
  <2>6. ~(vis + (n + k) < n) /\ ~(vis + (n + k) < vis + n)
    BY <1>1, <2>1, DepthAssumption
  <2> QED
    BY <1>4, <2>5, <2>6
<1>7. ASSUME InUse(st, p) PROVE InUse(su, dropRInvisible(p, n))
  <2>1. dropRInvisible(p, n).rindex = r /\ usedCount(dropRInvisible(p, n)) = used - n
    <3>1. dropRInvisible(p, n).rindex = r /\ dropRInvisible(p, n).windex = p.windex
      BY DEF dropRInvisible, fpp, rpp, vpp, Indices, r
    <3>2. Minus(p.windex, r) = Minus(p.windex, p.rindex) - n
      BY <1>1, Nearer DEF usedCount, used, r
    <3> QED
      BY <3>1, <3>2 DEF usedCount, used
  <2>2. ASSUME NEW i \in Idx
        PROVE  su[i] # NoToken <=> Minus(i, r) < used - n
    <3>1. /\ Minus(i, p.rindex) < n + (used - n) <=>
                Minus(i, p.rindex) < n \/ Minus(i, r) < used - n
          /\ ~(Minus(i, p.rindex) < n /\ Minus(i, r) < used - n)
      <4>1. /\ p.rindex \in Idx /\ n \in Nat /\ used - n \in Nat
            /\ n + (used - n) <= Depth
        BY <1>1, DepthAssumption
      <4> QED
        BY <4>1, AreaSplit DEF r
    <3>2. n + (used - n) = used
      BY <1>1, DepthAssumption
    <3>3. \A j \in Idx : st[j] # NoToken <=> Minus(j, p.rindex) < used
      BY <1>7 DEF InUse, used
    <3>4. CASE Minus(i, p.rindex) < n
      BY <1>4, <3>1, <3>4
    <3>5. CASE ~(Minus(i, p.rindex) < n) /\ Minus(i, p.rindex) < vis + n
      <4>1. Minus(i, n) \in Idx /\ Minus(Minus(i, n), p.rindex) = Minus(i, p.rindex) - n
        BY <1>1, <3>5, DepthAssumption DEF Idx, FSize, Minus
      <4>2. Minus(i, p.rindex) \in Nat
        BY <1>1, Distance, DepthAssumption
      <4>3. st[Minus(i, n)] # NoToken /\ Minus(i, p.rindex) < used
        <5>1. Minus(i, p.rindex) - n < used /\ Minus(i, p.rindex) < used
          BY <1>1, <3>5, <4>2, DepthAssumption
        <5> QED
          BY <3>3, <4>1, <5>1
      <4> QED
        BY <1>4, <3>1, <3>2, <3>5, <4>3
    <3>6. CASE ~(Minus(i, p.rindex) < n) /\ ~(Minus(i, p.rindex) < vis + n)
      BY <1>4, <3>1, <3>2, <3>3, <3>6
    <3> QED
      BY <3>4, <3>5, <3>6
  <2> QED
    BY <2>1, <2>2 DEF InUse
<1>8. Slice(su, r, vis) = Slice(st, p.rindex, vis)
  BY <1>1, <1>3, <1>5, SliceEqual
<1>9. Slice(su, v, inv - n) = Slice(st, v, inv - n)
  BY <1>1, <1>3, <1>6, SliceEqual
<1> QED
  BY <1>7, <1>8, <1>9 DEF su, vis, inv, r, v

(* A reset leaves the initial tokens from slot 0 on, whatever was in the   *)
(* channel before; so does the start of the simulation.                    *)
LEMMA ResetSlots ==
  ASSUME NEW T, Marked(T), NEW st \in Slots(T), \A i \in Idx : st[i] = NoToken
  PROVE  LET su == PutAt(st, 0, Marking)
             p  == MarkedQueue
         IN  /\ InUse(su, p)
             /\ Slice(su, p.rindex, visibleCount(p)) = Marking
             /\ Slice(su, p.vindex, invisibleCount(p)) = <<>>
<1> DEFINE su == PutAt(st, 0, Marking)
           L  == Len(Marking)
<1>0. NoToken \notin T /\ Marking \in Seq(T) /\ L <= Depth
  BY DEF Marked
<1>1. L \in 0 .. Depth /\ L \in Nat /\ 0 \in Idx
  BY MarkedQueueCounts, DepthAssumption DEF Idx
<1>2. /\ resetQueue \in Indices /\ Apart(resetQueue)
      /\ visibleCount(resetQueue) = 0 /\ invisibleCount(resetQueue) = 0
      /\ freeCount(resetQueue) = Depth /\ usedCount(resetQueue) = 0
      /\ resetQueue.windex = 0
  BY DepthAssumption DEF resetQueue, Indices, Idx, FSize, Minus, inconsumeCount,
     visibleCount, invisibleCount, freeCount, usedCount, Apart
<1>3. InUse(st, resetQueue)
  <2>1. \A i \in Idx : ~(Minus(i, resetQueue.rindex) < 0)
    BY <1>2, Distance, DepthAssumption DEF Indices
  <2> QED
    BY <1>2, <2>1 DEF InUse
<1>4. /\ MarkedQueue.rindex = 0 /\ MarkedQueue.windex = wpp(resetQueue, L).windex
      /\ wpp(resetQueue, L).rindex = 0
      /\ MarkedQueue \in Indices
  BY MarkedQueueCounts DEF MarkedQueue, vpp, wpp, resetQueue, Indices
<1>5. InUse(su, MarkedQueue)
  <2>1. InUse(su, wpp(resetQueue, L))
    BY <1>0, <1>1, <1>2, <1>3, PutSlots
  <2> QED
    BY <1>4, <2>1 DEF InUse, usedCount
<1>6. su \in Slots(T)
  BY <1>0, <1>1, PutAtType
<1>7. Slice(su, 0, L) = Marking
  <2>1. ASSUME NEW k \in 1 .. L
        PROVE  su[Plus(0, k - 1)] = Marking[k]
    <3>1. Plus(0, k - 1) \in Idx /\ Minus(Plus(0, k - 1), 0) = k - 1
      BY <1>1, DepthAssumption DEF Idx, FSize, Plus, Minus
    <3>2. k - 1 < Len(Marking) /\ (k - 1) + 1 = k
      BY <1>1
    <3> QED
      BY <3>1, <3>2 DEF PutAt
  <2>2. /\ Slice(su, 0, L) \in Seq(Held(T)) /\ Len(Slice(su, 0, L)) = L
        /\ \A k \in 1 .. L : Slice(su, 0, L)[k] = su[Plus(0, k - 1)]
    BY <1>1, <1>6, SliceSeq
  <2>3. \A k \in 1 .. L : Slice(su, 0, L)[k] = Marking[k]
    BY <2>1, <2>2
  <2>4. Marking \in Seq(Held(T))
    BY <1>0 DEF Held
  <2> HIDE DEF su
  <2> QED
    BY <2>2, <2>3, <2>4, SeqEqual
<1>8. Slice(su, MarkedQueue.vindex, 0) = <<>>
  <2>1. MarkedQueue.vindex \in Idx /\ 0 \in 0 .. Depth
    BY <1>4, DepthAssumption DEF Indices
  <2>2. /\ Slice(su, MarkedQueue.vindex, 0) \in Seq(Held(T))
        /\ Len(Slice(su, MarkedQueue.vindex, 0)) = 0
    BY <1>6, <2>1, SliceSeq
  <2> QED
    BY <2>2, EmptySeq
<1> QED
  BY <1>4, <1>5, <1>7, <1>8, MarkedQueueCounts

(* doReset: the tokens in use are destroyed first. *)
LEMMA InvalidateAll ==
  ASSUME NEW T, NEW st \in Slots(T), NEW p \in Indices, InUse(st, p)
  PROVE  LET su == Invalidate(st, p.rindex, usedCount(p))
         IN  su \in Slots(T) /\ \A i \in Idx : su[i] = NoToken
BY InvalidateType DEF Invalidate, InUse
=============================================================================
