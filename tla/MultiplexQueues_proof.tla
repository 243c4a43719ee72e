----------------------- MODULE MultiplexQueues_proof -----------------------
(***************************************************************************)
(* What the multiplex FIFO is to those who use it, for every depth, size   *)
(* of the window, marking and set of thresholds.                           *)
(*                                                                         *)
(* Where virtual FIFOs are read, each of them is a queue of its own        *)
(* (VirtualFifos): the data of its colour in the slots in use, in ring     *)
(* order, is what was written to it and not yet read.  Without virtual     *)
(* readers the whole is the bounded queue of TokenStream.  Both rest on    *)
(* MuxInv of MultiplexFifo_proof.                                          *)
(***************************************************************************)
EXTENDS MultiplexFifo_proof

(***************************************************************************)
(* The data of tokens.                                                     *)
(***************************************************************************)
DataSeq(s) == [i \in DOMAIN s |-> s[i].data]

(* There is one datum for each token. *)
LEMMA DataSeqType ==
  ASSUME NEW s \in Seq(Token)
  PROVE  /\ DataSeq(s) \in Seq(Data) /\ Len(DataSeq(s)) = Len(s)
         /\ \A i \in 1 .. Len(s) : DataSeq(s)[i] = s[i].data
<1>1. \A i \in 1 .. Len(s) : s[i] \in Token
  OBVIOUS
<1>2. DataSeq(s) \in [1 .. Len(s) -> Data]
  BY <1>1 DEF DataSeq, Token
<1>3. Len(s) \in Nat
  OBVIOUS
<1>4. DataSeq(s) \in Seq(Data) /\ Len(DataSeq(s)) = Len(s)
  BY <1>2, <1>3, TokensSeq
<1> QED
  BY <1>4 DEF DataSeq

(* The data of two sequences of tokens follow each other as they do. *)
LEMMA DataSeqConcat ==
  ASSUME NEW s \in Seq(Token), NEW u \in Seq(Token)
  PROVE  DataSeq(s \o u) = DataSeq(s) \o DataSeq(u)
<1>1. PICK w \in Seq(Token) : w = s \o u
  BY ConcatProperties
<1>2. /\ Len(w) = Len(s) + Len(u)
      /\ \A i \in 1 .. Len(s) + Len(u) : w[i] = IF i <= Len(s) THEN s[i] ELSE u[i - Len(s)]
  BY <1>1, ConcatProperties
<1>3. PICK x \in Seq(Data) : x = DataSeq(s) /\ Len(x) = Len(s)
                              /\ \A i \in 1 .. Len(s) : x[i] = s[i].data
  BY DataSeqType
<1>4. PICK y \in Seq(Data) : y = DataSeq(u) /\ Len(y) = Len(u)
                              /\ \A i \in 1 .. Len(u) : y[i] = u[i].data
  BY DataSeqType
<1>5. PICK z \in Seq(Data) : z = DataSeq(w) /\ Len(z) = Len(w)
                              /\ \A i \in 1 .. Len(w) : z[i] = w[i].data
  BY DataSeqType
<1>6. PICK v \in Seq(Data) : v = x \o y
  BY ConcatProperties
<1>7. /\ Len(v) = Len(x) + Len(y)
      /\ \A i \in 1 .. Len(x) + Len(y) : v[i] = IF i <= Len(x) THEN x[i] ELSE y[i - Len(x)]
  BY <1>6, ConcatProperties
<1>8. Len(s) \in Nat /\ Len(u) \in Nat
  OBVIOUS
<1>9. ASSUME NEW i \in 1 .. Len(z)
      PROVE  z[i] = v[i]
  <2>1. CASE i <= Len(s)
    <3>1. i \in 1 .. Len(s)
      BY <1>8, <2>1
    <3>2. w[i] = s[i] /\ v[i] = x[i]
      BY <1>2, <1>3, <1>4, <1>5, <1>7, <2>1
    <3>3. z[i] = w[i].data /\ x[i] = s[i].data
      BY <1>3, <1>5, <3>1
    <3> QED
      BY <3>2, <3>3
  <2>2. CASE ~(i <= Len(s))
    <3>1. i - Len(s) \in 1 .. Len(u)
      BY <1>2, <1>5, <1>8, <2>2
    <3>2. PICK j \in 1 .. Len(u) : j = i - Len(s)
      BY <3>1
    <3>3. w[i] = u[j]
      BY <1>2, <1>5, <2>2, <3>2
    <3>4. v[i] = y[j]
      BY <1>2, <1>3, <1>4, <1>5, <1>7, <2>2, <3>2
    <3>5. z[i] = w[i].data /\ y[j] = u[j].data
      BY <1>4, <1>5
    <3> QED
      BY <3>3, <3>4, <3>5
  <2> QED
    BY <2>1, <2>2
<1>10. Len(z) = Len(v)
  BY <1>2, <1>3, <1>4, <1>5, <1>7
<1>11. z = v
  BY <1>9, <1>10, SeqEqual
<1> QED
  BY <1>1, <1>3, <1>4, <1>5, <1>6, <1>11

(* The data of one colour. *)
LEMMA DataOfType ==
  ASSUME NEW s \in Seq(Token), NEW c
  PROVE  /\ DataOf(s, c) = DataSeq(OfColor(s, c))
         /\ OfColor(s, c) \in Seq(Token)
         /\ DataOf(s, c) \in Seq(Data)
         /\ Len(DataOf(s, c)) = Len(OfColor(s, c))
         /\ Len(DataOf(s, c)) <= Len(s)
<1>1. PICK w \in Seq(Token) : w = OfColor(s, c) /\ Len(w) <= Len(s)
  BY OfColorsType DEF OfColor
<1>2. DataOf(s, c) = DataSeq(w)
  BY <1>1 DEF DataOf, DataSeq
<1>3. DataSeq(w) \in Seq(Data) /\ Len(DataSeq(w)) = Len(w)
  BY DataSeqType
<1> QED
  BY <1>1, <1>2, <1>3

(* It is taken from one part after another. *)
LEMMA DataOfConcat ==
  ASSUME NEW s \in Seq(Token), NEW u \in Seq(Token), NEW c
  PROVE  DataOf(s \o u, c) = DataOf(s, c) \o DataOf(u, c)
<1>1. PICK w \in Seq(Token) : w = s \o u
  BY ConcatProperties
<1>2. OfColor(w, c) = OfColor(s, c) \o OfColor(u, c)
  BY <1>1, OfColorsConcat DEF OfColor
<1>3. PICK x \in Seq(Token) : x = OfColor(s, c)
  BY DataOfType
<1>4. PICK y \in Seq(Token) : y = OfColor(u, c)
  BY DataOfType
<1>5. DataSeq(x \o y) = DataSeq(x) \o DataSeq(y)
  BY DataSeqConcat
<1>6. DataOf(w, c) = DataSeq(x \o y)
  <2>1. DataOf(w, c) = DataSeq(OfColor(w, c))
    BY DataOfType
  <2> QED
    BY <1>2, <1>3, <1>4, <2>1
<1>7. DataOf(s, c) = DataSeq(x) /\ DataOf(u, c) = DataSeq(y)
  BY <1>3, <1>4, DataOfType
<1> QED
  BY <1>1, <1>5, <1>6, <1>7

(* The tokens in use are the visible ones and those in flight. *)
LEMMA UsedSlice ==
  ASSUME NEW st \in Slots(Token), NEW p \in Indices, Apart(p)
  PROVE  Slice(st, p.rindex, usedCount(p)) =
           Slice(st, p.rindex, visibleCount(p)) \o Slice(st, p.vindex, invisibleCount(p))
<1>1. /\ p.rindex \in Idx /\ p.vindex \in Idx
      /\ usedCount(p) = visibleCount(p) + invisibleCount(p) /\ usedCount(p) \in 0 .. Depth
      /\ visibleCount(p) \in 0 .. Depth /\ invisibleCount(p) \in 0 .. Depth
  BY UsedCounts, CountType
<1>2. p.vindex = Plus(p.rindex, visibleCount(p))
  BY <1>1, WayTo DEF visibleCount
<1>3. /\ visibleCount(p) \in Nat /\ invisibleCount(p) \in Nat
      /\ visibleCount(p) + invisibleCount(p) <= Depth
  BY <1>1, DepthAssumption
<1>4. Slice(st, p.rindex, visibleCount(p) + invisibleCount(p)) =
        Slice(st, p.rindex, visibleCount(p))
          \o Slice(st, Plus(p.rindex, visibleCount(p)), invisibleCount(p))
  BY <1>1, <1>3, SliceSplit
<1> QED
  BY <1>1, <1>2, <1>4

(***************************************************************************)
(* The virtual FIFOs.                                                      *)
(***************************************************************************)
InRing   == Slice(storage, q.rindex, usedCount(q))
Queue(c) == DataOf(InRing, c)

(* In any ring, the queue of a colour has as many data as there are tokens *)
(* of the colour in the slots in use, and no fewer than in the window.     *)
LEMMA RingQueueOf ==
  ASSUME NEW st \in Slots(Token), NEW p \in Indices, Apart(p), InUse(st, p), NEW c
  PROVE  LET s == Slice(st, p.rindex, usedCount(p))
         IN  /\ s \in Seq(Token) /\ Len(s) = usedCount(p)
             /\ DataOf(s, c) \in Seq(Data)
             /\ Len(DataOf(s, c)) = CountIn(st, p.rindex, usedCount(p), c)
             /\ CountIn(st, p.rindex, InWindow(p), c) \in 0 .. Len(DataOf(s, c))
<1>1. /\ p.rindex \in Idx /\ usedCount(p) \in 0 .. Depth
      /\ usedCount(p) = visibleCount(p) + invisibleCount(p)
      /\ visibleCount(p) \in 0 .. Depth /\ invisibleCount(p) \in 0 .. Depth
  BY UsedCounts, CountType
<1>2. usedCount(p) \in 0 .. usedCount(p)
  BY <1>1, DepthAssumption
<1>3. PICK s \in Seq(Token) : s = Slice(st, p.rindex, usedCount(p)) /\ Len(s) = usedCount(p)
  BY <1>1, <1>2, SliceTokens
<1>4. DataOf(s, c) \in Seq(Data) /\ Len(DataOf(s, c)) = Len(OfColor(s, c))
  BY DataOfType
<1>5. Len(DataOf(s, c)) = CountIn(st, p.rindex, usedCount(p), c)
  BY <1>3, <1>4 DEF CountIn
<1>6. InWindow(p) \in 0 .. usedCount(p)
  BY <1>1, WindowType, DepthAssumption DEF InWindow
<1>7. /\ CountIn(st, p.rindex, InWindow(p), c) \in Nat
      /\ CountIn(st, p.rindex, usedCount(p), c) \in Nat
      /\ CountIn(st, p.rindex, InWindow(p), c) <= CountIn(st, p.rindex, usedCount(p), c)
  BY <1>1, <1>6, CountGrows
<1>8. CountIn(st, p.rindex, InWindow(p), c) \in 0 .. Len(DataOf(s, c))
  BY <1>5, <1>7
<1> QED
  BY <1>3, <1>4, <1>5, <1>8

(* A virtual FIFO offers its reader a first part of its queue. *)
LEMMA QueueFacts ==
  ASSUME MuxInv, VOutlets # {}, NEW c \in Color
  PROVE  /\ c \in VOutlets
         /\ InRing \in Seq(Token) /\ Len(InRing) = usedCount(q)
         /\ Queue(c) \in Seq(Data)
         /\ Len(Queue(c)) = CountIn(storage, q.rindex, usedCount(q), c)
         /\ outlets[c].countAvailable \in 0 .. Len(Queue(c))
         /\ outlets[c].countAvailable \in Nat
<1>1. c \in VOutlets
  BY DEF MuxInv, SettingInv
<1>2. /\ storage \in Slots(Token) /\ q \in Indices /\ Apart(q) /\ InUse(storage, q)
      /\ outlets[c].countAvailable = CountIn(storage, q.rindex, InWindow(q), c)
  BY <1>1 DEF MuxInv, RingInv, OutletInv
<1> QED
  BY <1>1, <1>2, RingQueueOf DEF InRing, Queue

(* It does so in the next state. *)
LEMMA NextQueueFacts ==
  ASSUME MuxInv', VOutlets' # {}, NEW c \in Color
  PROVE  /\ Queue(c)' \in Seq(Data)
         /\ outlets'[c].countAvailable \in 0 .. Len(Queue(c)')
<1>1. c \in VOutlets'
  BY DEF MuxInv, SettingInv
<1>2. /\ storage' \in Slots(Token) /\ q' \in Indices /\ Apart(q') /\ InUse(storage', q')
      /\ outlets'[c].countAvailable = CountIn(storage', q'.rindex, InWindow(q'), c)
  BY <1>1 DEF MuxInv, RingInv, OutletInv
<1> QED
  BY <1>2, RingQueueOf DEF InRing, Queue

(* What VirtualFifos sees of the memory. *)
LEMMA Seen ==
  ASSUME VOutlets # {}, VOutlets' = VOutlets, NEW c \in Color
  PROVE  /\ Virtual!Keep(c) <=> /\ Queue(c)' = Queue(c)
                                /\ outlets'[c].countAvailable = outlets[c].countAvailable
         /\ Virtual!Offer(c) <=> /\ Queue(c)' = Queue(c)
                                 /\ outlets'[c].countAvailable \in
                                      outlets[c].countAvailable + 1 .. Len(Queue(c))
         /\ \A data : Virtual!Put(c, data) <=>
                        /\ Queue(c)' = Queue(c) \o data
                        /\ outlets'[c].countAvailable = outlets[c].countAvailable
         /\ \A n : Virtual!Get(c, n) <=>
                     /\ n <= outlets[c].countAvailable
                     /\ Queue(c)' = SubSeq(Queue(c), n + 1, Len(Queue(c)))
                     /\ outlets'[c].countAvailable \in
                          outlets[c].countAvailable - n .. Len(Queue(c)')
BY DEF Virtual!Keep, Virtual!Offer, Virtual!Put, Virtual!Get, Queue, InRing

(* A queue that stays as it is may be offered further. *)
LEMMA StepKeeps ==
  ASSUME MuxInv, MuxInv', VOutlets # {}, VOutlets' = VOutlets, NEW c \in Color,
         Queue(c)' = Queue(c),
         outlets'[c].countAvailable >= outlets[c].countAvailable
  PROVE  Virtual!Step(c)
<1>1. PICK i \in Nat : i = outlets[c].countAvailable
  BY QueueFacts
<1>2. PICK j \in Nat : j = outlets'[c].countAvailable
  BY NextQueueFacts
<1>3. j \in 0 .. Len(Queue(c)) /\ Len(Queue(c)) \in Nat
  BY <1>2, NextQueueFacts, QueueFacts
<1>4. CASE j = i
  BY <1>1, <1>2, <1>4, Seen DEF Virtual!Step
<1>5. CASE j # i
  <2>1. j \in i + 1 .. Len(Queue(c))
    BY <1>1, <1>2, <1>3, <1>5
  <2>2. Virtual!Offer(c)
    BY <1>1, <1>2, <2>1, Seen
  <2> QED
    BY <2>2 DEF Virtual!Step
<1> QED
  BY <1>4, <1>5

(* A queue can be written to. *)
LEMMA StepPuts ==
  ASSUME VOutlets # {}, VOutlets' = VOutlets, NEW c \in Color,
         NEW data \in Seq(Data), Len(data) \in 1 .. Depth,
         Queue(c)' = Queue(c) \o data,
         outlets'[c].countAvailable = outlets[c].countAvailable
  PROVE  Virtual!Step(c)
<1>1. Virtual!Put(c, data)
  BY Seen
<1>2. data \in [1 .. Len(data) -> Data]
  OBVIOUS
<1> QED
  BY <1>1, <1>2 DEF Virtual!Step

(* Its reader takes from the front what it was offered. *)
LEMMA StepGets ==
  ASSUME MuxInv, MuxInv', VOutlets # {}, VOutlets' = VOutlets, NEW c \in Color,
         NEW n \in 1 .. Depth, n <= outlets[c].countAvailable,
         Queue(c)' = SubSeq(Queue(c), n + 1, Len(Queue(c))),
         outlets'[c].countAvailable >= outlets[c].countAvailable - n
  PROVE  Virtual!Step(c)
<1>1. PICK i \in Nat : i = outlets[c].countAvailable
  BY QueueFacts
<1>2. PICK j \in Nat : j = outlets'[c].countAvailable
  BY NextQueueFacts
<1>3. j <= Len(Queue(c)') /\ Len(Queue(c)') \in Nat
  BY <1>2, NextQueueFacts
<1>4. j \in i - n .. Len(Queue(c)')
  BY <1>1, <1>2, <1>3
<1>5. Virtual!Get(c, n)
  BY <1>1, <1>2, <1>4, Seen
<1> QED
  BY <1>5 DEF Virtual!Step

(***************************************************************************)
(* The steps of the multiplex FIFO, as steps of the virtual ones.          *)
(***************************************************************************)

(* A write puts the data of each colour into the queue of that colour. *)
LEMMA EntryCommStartQueues ==
  ASSUME MuxInv, VOutlets # {}, VOutlets' = VOutlets,
         NEW toks \in Seq(Token), EntryCommStart(toks), NEW d \in Color
  PROVE  Virtual!Step(d)
<1>1. /\ MuxInv' /\ Len(toks) <= freeCount(q)
      /\ q'.rindex = q.rindex /\ q'.vindex = q.vindex
      /\ visibleCount(q') = visibleCount(q)
      /\ invisibleCount(q') = invisibleCount(q) + Len(toks)
      /\ Slice(storage', q.rindex, visibleCount(q)) = Slice(storage, q.rindex, visibleCount(q))
      /\ Slice(storage', q.vindex, invisibleCount(q) + Len(toks))
           = Slice(storage, q.vindex, invisibleCount(q)) \o toks
  BY EntryCommStartMux
<1>2. RingInv /\ RingInv'
  BY <1>1 DEF MuxInv
<1>3. PICK x \in Seq(Held(Token)) : x = Slice(storage, q.rindex, visibleCount(q))
  BY <1>2, RingFacts, SliceSeq
<1>4. PICK y \in Seq(Held(Token)) : y = Slice(storage, q.vindex, invisibleCount(q))
  BY <1>2, RingFacts, SliceSeq
<1>5. InRing = x \o y
  BY <1>2, <1>3, <1>4, RingFacts, UsedSlice DEF InRing
<1>6. InRing' = x \o (y \o toks)
  <2>1. storage' \in Slots(Token) /\ q' \in Indices /\ Apart(q')
    BY <1>2 DEF RingInv
  <2>2. Slice(storage', q'.rindex, usedCount(q')) =
          Slice(storage', q'.rindex, visibleCount(q')) \o Slice(storage', q'.vindex, invisibleCount(q'))
    BY <2>1, UsedSlice
  <2> QED
    BY <1>1, <1>3, <1>4, <2>2 DEF InRing
<1>7. toks \in Seq(Held(Token))
  BY DEF Held
<1>8. (x \o y) \o toks = x \o (y \o toks)
  BY <1>7, ConcatAssociative
<1>9. InRing \in Seq(Token) /\ Queue(d) \in Seq(Data) /\ d \in VOutlets
  BY QueueFacts
<1>10. Queue(d)' = Queue(d) \o DataOf(toks, d)
  <2>1. PICK s \in Seq(Token) : s = InRing
    BY <1>9
  <2>2. InRing' = s \o toks
    BY <1>5, <1>6, <1>8, <2>1
  <2>3. DataOf(s \o toks, d) = DataOf(s, d) \o DataOf(toks, d)
    BY DataOfConcat
  <2> QED
    BY <2>1, <2>2, <2>3 DEF Queue
<1>11. outlets' = outlets
  BY DEF EntryCommStart
<1>12. PICK data \in Seq(Data) : data = DataOf(toks, d) /\ Len(data) <= Len(toks)
  BY DataOfType
<1>13. CASE data = <<>>
  <2>1. Queue(d) \o data = Queue(d)
    BY <1>9, <1>13, ConcatEmptySeq
  <2>2. outlets'[d].countAvailable >= outlets[d].countAvailable
    <3>1. PICK i \in Nat : i = outlets[d].countAvailable
      BY QueueFacts
    <3> QED
      BY <1>11, <3>1
  <2> QED
    BY <1>1, <1>10, <1>12, <2>1, <2>2, StepKeeps
<1>14. CASE data # <<>>
  <2>1. Len(data) \in Nat /\ Len(data) # 0
    BY <1>14, EmptySeq
  <2>2. Len(toks) \in Nat /\ Len(toks) <= Depth
    BY <1>1, <1>2, RingFacts, DepthAssumption
  <2>3. Len(data) \in 1 .. Depth
    BY <1>12, <2>1, <2>2, DepthAssumption
  <2> QED
    BY <1>10, <1>11, <1>12, <2>3, StepPuts
<1> QED
  BY <1>13, <1>14

(* When tokens become visible the queues stay, and more is offered. *)
LEMMA EntryCommFinishQueues ==
  ASSUME MuxInv, VOutlets # {}, VOutlets' = VOutlets,
         NEW n \in 1 .. Depth, EntryCommFinish(n), NEW d \in Color
  PROVE  Virtual!Step(d)
<1>1. /\ MuxInv' /\ n <= invisibleCount(q) /\ storage' = storage
      /\ q'.rindex = q.rindex /\ q'.windex = q.windex
      /\ visibleCount(q') = visibleCount(q) + n
  BY EntryCommFinishMux
<1>2. RingInv /\ RingInv' /\ OutletInv /\ OutletInv' /\ d \in VOutlets
  BY <1>1, QueueFacts DEF MuxInv
<1>3. Queue(d)' = Queue(d)
  BY <1>1 DEF Queue, InRing, usedCount
<1>4. /\ outlets[d].countAvailable = CountIn(storage, q.rindex, InWindow(q), d)
      /\ outlets'[d].countAvailable = CountIn(storage, q.rindex, InWindow(q'), d)
  BY <1>1, <1>2 DEF OutletInv
<1>5. InWindow(q') \in 0 .. Depth /\ InWindow(q) \in 0 .. InWindow(q')
  <2>1. visibleCount(q) \in 0 .. Depth /\ visibleCount(q') \in 0 .. Depth
    BY <1>2, CountType DEF RingInv
  <2> QED
    BY <1>1, <2>1, MultiplexAssumption, DepthAssumption DEF InWindow, Window, Lesser
<1>6. /\ CountIn(storage, q.rindex, InWindow(q), d) \in Nat
      /\ CountIn(storage, q.rindex, InWindow(q'), d) \in Nat
      /\ CountIn(storage, q.rindex, InWindow(q), d) <= CountIn(storage, q.rindex, InWindow(q'), d)
  BY <1>2, <1>5, RingFacts, CountGrows
<1>7. outlets'[d].countAvailable >= outlets[d].countAvailable
  BY <1>4, <1>6
<1> QED
  BY <1>1, <1>3, <1>7, StepKeeps

(* The reader of c takes the first of its queue, and the queues of others  *)
(* stay, although their tokens have been moved up.                         *)
LEMMA VOutletCommStartQueues ==
  ASSUME MuxInv, VOutlets' = VOutlets, NEW r \in DataThresholds, NEW n \in 0 .. r,
         NEW c \in VOutlets, VOutletCommStart(c, n, r), NEW d \in Color
  PROVE  Virtual!Step(d)
<1>0. VOutlets # {}
  OBVIOUS
<1>1. PICK m : m = Reach(storage, q, c, n)
  OBVIOUS
<1>2. /\ n \in Nat /\ c \in Color /\ n <= outlets[c].countAvailable
      /\ m \in Nat /\ n <= m /\ m <= InWindow(q)
      /\ CountIn(storage, q.rindex, m, c) = n
      /\ q' \in Indices
      /\ visibleCount(q') = visibleCount(q) - n
      /\ invisibleCount(q') = invisibleCount(q)
  BY <1>1, VOutletReads
<1>3. /\ MuxInv'
      /\ outlets'[d].countAvailable >=
           IF d = c THEN outlets[d].countAvailable - n ELSE outlets[d].countAvailable
  BY <1>0, QueueFacts, VOutletCommStartMux
<1>4. RingInv /\ RingInv'
  BY <1>3 DEF MuxInv
<1>5. /\ m \in 0 .. usedCount(q) /\ usedCount(q) \in 0 .. usedCount(q)
      /\ usedCount(q) \in Nat /\ m \in 0 .. Depth
  BY <1>2, <1>4, RingFacts, WindowType, DepthAssumption DEF InWindow
<1>6. usedCount(q') = usedCount(q) - n
  <2>1. usedCount(q') = visibleCount(q') + invisibleCount(q')
    BY <1>4, UsedCounts DEF RingInv
  <2> QED
    BY <1>2, <1>4, <2>1, RingFacts, DepthAssumption
<1>7. OfColor(InRing, d) = IF d = c THEN OfColor(Slice(storage, q.rindex, m), d)
                                           \o OfColor(InRing', d)
                           ELSE OfColor(InRing', d)
  <2>1. OfColor(Slice(storage, q.rindex, usedCount(q)), d) =
          IF d = c THEN OfColor(Slice(storage, q.rindex, m), d)
                          \o OfColor(Slice(storage', q'.rindex, usedCount(q) - n), d)
          ELSE OfColor(Slice(storage', q'.rindex, usedCount(q) - n), d)
    BY <1>1, <1>5, VOutletKeeps
  <2> QED
    BY <1>6, <2>1 DEF InRing
<1>8. InRing \in Seq(Token) /\ InRing' \in Seq(Token)
  <2>1. storage' \in Slots(Token) /\ q' \in Indices /\ Apart(q') /\ InUse(storage', q')
    BY <1>4 DEF RingInv
  <2> QED
    BY <1>0, <2>1, QueueFacts, RingQueueOf DEF InRing
<1>9. CASE d # c
  <2>1. Queue(d)' = Queue(d)
    BY <1>7, <1>9 DEF Queue, DataOf
  <2> QED
    BY <1>0, <1>3, <1>9, <2>1, StepKeeps
<1>10. CASE d = c
  <2>1. PICK s \in Seq(Token) : s = Slice(storage, q.rindex, m)
    BY <1>4, <1>5, RingFacts, SliceTokens
  <2>2. PICK x \in Seq(Token) : x = OfColor(s, d) /\ Len(x) = n
    BY <1>2, <1>10, <2>1, DataOfType DEF CountIn
  <2>3. PICK y \in Seq(Token) : y = OfColor(InRing', d)
    BY <1>8, DataOfType
  <2>4. OfColor(InRing, d) = x \o y
    BY <1>7, <1>10, <2>1, <2>2, <2>3
  <2>5. Queue(d) = DataSeq(x) \o DataSeq(y)
    <3>1. DataOf(InRing, d) = DataSeq(x \o y)
      BY <2>4 DEF DataOf, DataSeq
    <3> QED
      BY <3>1, DataSeqConcat DEF Queue
  <2>6. Queue(d)' = DataSeq(y)
    BY <2>3 DEF Queue, DataOf, DataSeq
  <2>7. PICK u \in Seq(Data) : u = DataSeq(x) /\ Len(u) = n
    BY <2>2, DataSeqType
  <2>8. PICK w \in Seq(Data) : w = DataSeq(y)
    BY DataSeqType
  <2>9. SubSeq(u \o w, n + 1, Len(u \o w)) = w
    <3>1. PICK z \in Seq(Data) : z = u \o w
      BY ConcatProperties
    <3>2. /\ Len(z) = n + Len(w)
          /\ \A i \in 1 .. n + Len(w) : z[i] = IF i <= n THEN u[i] ELSE w[i - n]
      BY <2>7, <3>1, ConcatProperties
    <3>3. /\ SubSeq(z, n + 1, n + Len(w)) \in Seq(Data)
          /\ Len(SubSeq(z, n + 1, n + Len(w))) = Len(w)
          /\ \A i \in 1 .. Len(w) : SubSeq(z, n + 1, n + Len(w))[i] = z[n + i]
      BY <1>2, <3>2
    <3>4. \A i \in 1 .. Len(w) : z[n + i] = w[i]
      BY <1>2, <3>2
    <3>5. SubSeq(z, n + 1, n + Len(w)) = w
      BY <3>3, <3>4, SeqEqual
    <3> QED
      BY <3>1, <3>2, <3>5
  <2>10. Queue(d)' = SubSeq(Queue(d), n + 1, Len(Queue(d)))
    BY <2>5, <2>6, <2>7, <2>8, <2>9
  <2>11. CASE n = 0
    <3>1. u = <<>>
      BY <2>7, <2>11, EmptySeq
    <3>2. Queue(d)' = Queue(d)
      BY <2>5, <2>6, <2>7, <2>8, <3>1, ConcatEmptySeq
    <3>3. PICK i \in Nat : i = outlets[d].countAvailable
      BY <1>0, QueueFacts
    <3>4. outlets'[d].countAvailable >= outlets[d].countAvailable
      BY <1>3, <1>10, <2>11, <3>3
    <3> QED
      BY <1>0, <1>3, <3>2, <3>4, StepKeeps
  <2>12. CASE n # 0
    <3>1. n \in 1 .. Depth
      BY <1>2, <1>5, <2>12, DepthAssumption
    <3> QED
      BY <1>0, <1>2, <1>3, <1>10, <2>10, <3>1, StepGets
  <2> QED
    BY <2>11, <2>12
<1> QED
  BY <1>9, <1>10

(* The release of places concerns no queue. *)
LEMMA OutletCommFinishQueues ==
  ASSUME MuxInv, VOutlets # {}, VOutlets' = VOutlets,
         NEW n \in 1 .. Depth, OutletCommFinish(n), NEW d \in Color
  PROVE  Virtual!Step(d)
<1>1. /\ storage' = storage /\ outlets' = outlets
      /\ q'.rindex = q.rindex /\ q'.windex = q.windex
  BY OutletCommFinishMux
<1>2. Queue(d)' = Queue(d)
  BY <1>1 DEF Queue, InRing, usedCount
<1>3. Virtual!Keep(d)
  BY <1>1, <1>2, Seen
<1> QED
  BY <1>3 DEF Virtual!Step

(* A reset leaves the initial tokens in the queues. *)
LEMMA doResetQueues ==
  ASSUME MuxInv, VOutlets # {}, VOutlets' = VOutlets, doReset
  PROVE  Virtual!Empty'
<1>1. MuxInv' /\ InRing' = Marking
  BY doResetMux DEF InRing
<1>2. \A c \in Color : outlets'[c].countAvailable \in 0 .. Len(Queue(c)')
  BY <1>1, NextQueueFacts
<1> QED
  BY <1>1, <1>2 DEF Virtual!Empty, InRing, Queue

(* The virtual FIFOs start with them, as long as the window holds them. *)
LEMMA InitQueues ==
  ASSUME Init, Fits
  PROVE  Virtual!Empty
<1>1. MuxInv
  BY InitMux
<1>2. CASE VOutlets = {}
  <2>1. \A c \in Color : DataOf(Marking, c) \in Seq(Data)
    BY MultiplexAssumption, DataOfType
  <2>2. \A c \in Color : 0 \in 0 .. Len(DataOf(Marking, c))
    BY <2>1
  <2> QED
    BY <1>2, <2>2 DEF Virtual!Empty
<1>3. CASE VOutlets # {}
  <2>1. \A c \in Color : outlets[c].countAvailable \in 0 .. Len(Queue(c))
    BY <1>1, <1>3, QueueFacts
  <2>2. InRing = Marking
    <3> DEFINE st == [i \in Idx |-> NoToken]
    <3>1. st \in Slots(Token) /\ \A i \in Idx : st[i] = NoToken
      BY DEF Slots
    <3>2. q = MarkedQueue /\ storage = PutAt(st, 0, Marking)
      BY DEF Init
    <3> HIDE DEF st
    <3>3. /\ q \in Indices /\ Apart(q) /\ invisibleCount(q) = 0
          /\ visibleCount(q) \in 0 .. Depth
          /\ Slice(storage, q.rindex, visibleCount(q)) = Marking
      BY <3>1, <3>2, MarkedRing
    <3>4. usedCount(q) = visibleCount(q)
      BY <3>3, UsedCounts, DepthAssumption
    <3> QED
      BY <3>3, <3>4 DEF InRing
  <2> QED
    BY <1>3, <2>1, <2>2 DEF Virtual!Empty, InRing, Queue
<1> QED
  BY <1>2, <1>3

(* Every step is one of the virtual FIFOs. *)
LEMMA NextQueues ==
  ASSUME MuxInv, [Next]_vars
  PROVE  [Virtual!VNext]_(Virtual!pair)
<1>1. CASE VOutlets = {}
  <2>1. VOutlets' = VOutlets
    BY DEF Next, vars
  <2> QED
    BY <1>1, <2>1 DEF Virtual!pair
<1>2. ASSUME VOutlets # {}, VOutlets' = VOutlets,
             NEW n \in SpaceThresholds, NEW toks \in [1 .. n -> Token], EntryCommStart(toks)
      PROVE  Virtual!VNext
  <2>1. toks \in Seq(Token)
    BY TokensSeq, MultiplexAssumption
  <2> QED
    BY <1>2, <2>1, EntryCommStartQueues DEF Virtual!VNext
<1>3. ASSUME VOutlets # {}, VOutlets' = VOutlets, NEW n \in SpaceThresholds,
             NEW c \in VEntries, NEW data \in [1 .. n -> Data], VEntryCommStart(c, data)
      PROVE  Virtual!VNext
  <2> DEFINE toks == [i \in DOMAIN data |-> [fifoId |-> c, data |-> data[i]]]
  <2>1. n \in Nat /\ c \in Color
    BY MultiplexAssumption
  <2>2. toks \in Seq(Token)
    BY <2>1, Colored
  <2>3. EntryCommStart(toks)
    BY <1>3 DEF VEntryCommStart
  <2> HIDE DEF toks
  <2> QED
    BY <1>3, <2>2, <2>3, EntryCommStartQueues DEF Virtual!VNext
<1>4. ASSUME VOutlets # {}, VOutlets' = VOutlets, NEW n \in 1 .. Depth, EntryCommFinish(n)
      PROVE  Virtual!VNext
  BY <1>4, EntryCommFinishQueues DEF Virtual!VNext
<1>5. ASSUME VOutlets # {}, VOutlets' = VOutlets, NEW n \in 1 .. Depth, OutletCommFinish(n)
      PROVE  Virtual!VNext
  BY <1>5, OutletCommFinishQueues DEF Virtual!VNext
<1>6. ASSUME VOutlets # {}, VOutlets' = VOutlets, NEW r \in DataThresholds, NEW n \in 0 .. r,
             OutletCommStart(n, r)
      PROVE  Virtual!VNext
  BY <1>6, OutletCommStartMux
<1>7. ASSUME VOutlets' = VOutlets, NEW r \in DataThresholds, NEW n \in 0 .. r,
             NEW c \in VOutlets, VOutletCommStart(c, n, r)
      PROVE  Virtual!VNext
  BY <1>7, VOutletCommStartQueues DEF Virtual!VNext
<1>8. ASSUME VOutlets # {}, VOutlets' = VOutlets, doReset
      PROVE  Virtual!VNext
  BY <1>8, doResetQueues DEF Virtual!VNext
<1>9. CASE UNCHANGED vars
  BY <1>9 DEF vars, Virtual!pair
<1> QED
  BY <1>1, <1>2, <1>3, <1>4, <1>5, <1>6, <1>7, <1>8, <1>9 DEF Next, Communication

(***************************************************************************)
(* The plain reader: the steps of TokenStream.                             *)
(***************************************************************************)
Pipeline == Slice(storage, q.vindex, invisibleCount(q))
InView   == Slice(storage, q.rindex, visibleCount(q))

StreamStep == [Stream!StreamNext]_(Stream!svars)

(* What the invariant says of the two queues. *)
LEMMA StreamFacts ==
  ASSUME MuxInv
  PROVE  /\ RingInv
         /\ Pipeline \in Seq(Held(Token)) /\ Len(Pipeline) = invisibleCount(q)
         /\ InView \in Seq(Held(Token)) /\ Len(InView) = visibleCount(q)
         /\ Depth - (Len(Pipeline) + Len(InView) + inconsumeCount(q)) = freeCount(q)
<1>1. RingInv
  BY DEF MuxInv
<1>2. /\ Pipeline \in Seq(Held(Token)) /\ Len(Pipeline) = invisibleCount(q)
      /\ InView \in Seq(Held(Token)) /\ Len(InView) = visibleCount(q)
  BY <1>1, RingFacts, SliceSeq DEF Pipeline, InView
<1>3. Depth - (Len(Pipeline) + Len(InView) + inconsumeCount(q)) = freeCount(q)
  BY <1>1, <1>2, RingFacts, DepthAssumption DEF Apart
<1> QED
  BY <1>1, <1>2, <1>3

(* A write appends the tokens to the pipeline. *)
LEMMA EntryCommStartPlain ==
  ASSUME MuxInv, VOutlets = {}, VOutlets' = {}, NEW toks \in Seq(Token), EntryCommStart(toks)
  PROVE  StreamStep
<1>1. /\ Len(toks) <= freeCount(q)
      /\ q'.rindex = q.rindex /\ q'.vindex = q.vindex
      /\ inconsumeCount(q') = inconsumeCount(q)
      /\ visibleCount(q') = visibleCount(q)
      /\ invisibleCount(q') = invisibleCount(q) + Len(toks)
      /\ Slice(storage', q.rindex, visibleCount(q)) = Slice(storage, q.rindex, visibleCount(q))
      /\ Slice(storage', q.vindex, invisibleCount(q) + Len(toks))
           = Slice(storage, q.vindex, invisibleCount(q)) \o toks
  BY EntryCommStartMux
<1>2. InView' = InView /\ Pipeline' = Pipeline \o toks
  BY <1>1 DEF InView, Pipeline
<1>3. Len(toks) \in Nat /\ toks \in [1 .. Len(toks) -> Token]
  OBVIOUS
<1>4. CASE Len(toks) = 0
  <2>1. toks = <<>>
    BY <1>4, EmptySeq
  <2>2. Pipeline' = Pipeline
    BY <1>2, <2>1, StreamFacts, ConcatEmptySeq
  <2> QED
    BY <1>1, <1>2, <2>2 DEF StreamStep, Stream!svars, InView, Pipeline, Visible
<1>5. CASE Len(toks) # 0
  <2>1. Len(toks) \in 1 .. Depth
    BY <1>1, <1>3, <1>5, StreamFacts, RingFacts, DepthAssumption
  <2>2. Stream!Write(toks)
    BY <1>1, <1>2, StreamFacts
       DEF Stream!Write, Stream!Room, InView, Pipeline, Visible
  <2> QED
    BY <1>3, <2>1, <2>2 DEF StreamStep, Stream!StreamNext
<1> QED
  BY <1>4, <1>5

(* Tokens whose latency expires become visible in their order. *)
LEMMA EntryCommFinishPlain ==
  ASSUME MuxInv, VOutlets = {}, VOutlets' = {}, NEW n \in 1 .. Depth, EntryCommFinish(n)
  PROVE  StreamStep
<1>0. RingInv
  BY DEF MuxInv
<1>1. /\ n <= invisibleCount(q) /\ storage' = storage
      /\ q'.rindex = q.rindex /\ q'.vindex = Plus(q.vindex, n)
      /\ inconsumeCount(q') = inconsumeCount(q)
      /\ visibleCount(q') = visibleCount(q) + n
      /\ invisibleCount(q') = invisibleCount(q) - n
  BY EntryCommFinishMux
<1>2. n \in Nat /\ n \in 0 .. invisibleCount(q)
  BY <1>0, <1>1, RingFacts, DepthAssumption
<1>3. q.vindex = Plus(q.rindex, visibleCount(q))
  BY <1>0, RingFacts, WayTo DEF visibleCount
<1>4. /\ SubSeq(Pipeline, 1, n) = Slice(storage, q.vindex, n)
      /\ SubSeq(Pipeline, n + 1, invisibleCount(q))
           = Slice(storage, Plus(q.vindex, n), invisibleCount(q) - n)
  BY <1>0, <1>2, RingFacts, SliceParts DEF Pipeline
<1>5. Pipeline' = SubSeq(Pipeline, n + 1, Len(Pipeline))
  BY <1>1, <1>4, StreamFacts DEF Pipeline
<1>6. InView' = InView \o SubSeq(Pipeline, 1, n)
  <2>1. /\ visibleCount(q) \in Nat /\ n \in Nat /\ visibleCount(q) + n <= Depth
        /\ storage \in Slots(Token) /\ q.rindex \in Idx
    BY <1>0, <1>2, RingFacts, DepthAssumption DEF Apart
  <2>2. Slice(storage, q.rindex, visibleCount(q) + n) =
          Slice(storage, q.rindex, visibleCount(q))
            \o Slice(storage, Plus(q.rindex, visibleCount(q)), n)
    BY <2>1, SliceSplit
  <2> QED
    BY <1>1, <1>3, <1>4, <2>2 DEF InView
<1>7. Stream!Arrive(n)
  BY <1>1, <1>5, <1>6, StreamFacts
     DEF Stream!Arrive, Stream!First, Stream!Rest, InView, Pipeline, Visible
<1> QED
  BY <1>7 DEF StreamStep, Stream!StreamNext

(* The plain reader takes the first visible tokens. *)
LEMMA OutletCommStartPlain ==
  ASSUME MuxInv, VOutlets = {}, VOutlets' = {}, NEW r \in DataThresholds, NEW n \in 0 .. r,
         OutletCommStart(n, r)
  PROVE  StreamStep
<1>0. RingInv
  BY DEF MuxInv
<1>1. /\ n <= visibleCount(q)
      /\ q'.rindex = Plus(q.rindex, n) /\ q'.vindex = q.vindex
      /\ inconsumeCount(q') = inconsumeCount(q) + n
      /\ visibleCount(q') = visibleCount(q) - n
      /\ invisibleCount(q') = invisibleCount(q)
      /\ Slice(storage', Plus(q.rindex, n), visibleCount(q) - n)
           = Slice(storage, Plus(q.rindex, n), visibleCount(q) - n)
      /\ Slice(storage', q.vindex, invisibleCount(q))
           = Slice(storage, q.vindex, invisibleCount(q))
  BY OutletCommStartMux
<1>2. n \in Nat /\ n \in 0 .. visibleCount(q)
  BY <1>0, <1>1, RingFacts, DepthAssumption, MultiplexAssumption
<1>3. SubSeq(InView, n + 1, visibleCount(q))
        = Slice(storage, Plus(q.rindex, n), visibleCount(q) - n)
  BY <1>0, <1>2, RingFacts, SliceParts DEF InView
<1>4. Pipeline' = Pipeline /\ InView' = SubSeq(InView, n + 1, Len(InView))
  BY <1>1, <1>3, StreamFacts DEF InView, Pipeline
<1>5. CASE n = 0
  <2>1. /\ Plus(q.rindex, 0) = q.rindex /\ visibleCount(q) - 0 = visibleCount(q)
        /\ inconsumeCount(q) + 0 = inconsumeCount(q)
    BY <1>0, RingFacts, DepthAssumption DEF Idx, FSize, Plus
  <2>2. InView' = InView
    BY <1>1, <1>5, <2>1 DEF InView
  <2> QED
    BY <1>1, <1>4, <1>5, <2>1, <2>2 DEF StreamStep, Stream!svars, InView, Pipeline, Visible
<1>6. CASE n # 0
  <2>1. n \in 1 .. Depth
    BY <1>0, <1>2, <1>6, RingFacts, DepthAssumption
  <2>2. Stream!Read(n)
    BY <1>1, <1>4, StreamFacts DEF Stream!Read, Stream!Rest, InView, Pipeline, Visible
  <2> QED
    BY <2>1, <2>2 DEF StreamStep, Stream!StreamNext
<1> QED
  BY <1>5, <1>6

(* It releases their places. *)
LEMMA OutletCommFinishPlain ==
  ASSUME MuxInv, VOutlets = {}, VOutlets' = {}, NEW n \in 1 .. Depth, OutletCommFinish(n)
  PROVE  StreamStep
<1>1. /\ n <= inconsumeCount(q) /\ storage' = storage
      /\ q'.rindex = q.rindex /\ q'.vindex = q.vindex
      /\ inconsumeCount(q') = inconsumeCount(q) - n
      /\ visibleCount(q') = visibleCount(q)
      /\ invisibleCount(q') = invisibleCount(q)
  BY OutletCommFinishMux
<1>2. Stream!Release(n)
  BY <1>1 DEF Stream!Release, Visible
<1> QED
  BY <1>2 DEF StreamStep, Stream!StreamNext

(* A reset empties the channel down to its initial tokens. *)
LEMMA doResetPlain ==
  ASSUME MuxInv, VOutlets = {}, VOutlets' = {}, doReset
  PROVE  StreamStep
<1>1. /\ MuxInv' /\ Slice(storage', q'.rindex, visibleCount(q')) = Marking
      /\ invisibleCount(q') = 0 /\ inconsumeCount(q') = 0
  BY doResetMux
<1>2. Slice(storage', q'.vindex, 0) = <<>>
  BY DEF Slice
<1>3. Stream!Reset
  BY <1>1, <1>2 DEF Stream!Reset, Stream!Empty, Visible
<1> QED
  BY <1>3 DEF StreamStep, Stream!StreamNext

(* The simulation starts with the initial tokens visible and no others. *)
LEMMA InitPlain ==
  ASSUME Init
  PROVE  (VOutlets = {} => MuxInv) /\ Stream!Empty
<1>1. VOutlets = {} => MuxInv
  BY InitMux DEF Fits
<1>2. CASE VOutlets # {}
  BY <1>1, <1>2 DEF Stream!Empty
<1>3. CASE VOutlets = {}
  <2> DEFINE st == [i \in Idx |-> NoToken]
  <2>1. st \in Slots(Token) /\ \A i \in Idx : st[i] = NoToken
    BY DEF Slots
  <2>2. q = MarkedQueue /\ storage = PutAt(st, 0, Marking)
    BY DEF Init
  <2> HIDE DEF st
  <2>3. /\ invisibleCount(q) = 0 /\ inconsumeCount(q) = 0
        /\ Slice(storage, q.rindex, visibleCount(q)) = Marking
    BY <2>1, <2>2, MarkedRing
  <2>4. Slice(storage, q.vindex, 0) = <<>>
    BY DEF Slice
  <2> QED
    BY <1>1, <1>3, <2>3, <2>4 DEF Stream!Empty, Visible
<1> QED
  BY <1>2, <1>3

(* Every step is one of TokenStream where there are no virtual readers. *)
LEMMA NextPlain ==
  ASSUME VOutlets = {} => MuxInv, [Next]_vars
  PROVE  (VOutlets = {} => MuxInv)' /\ StreamStep
<1>0. VOutlets' = VOutlets
  BY DEF Next, vars
<1>1. CASE VOutlets # {}
  BY <1>0, <1>1 DEF StreamStep, Stream!svars
<1>2. CASE VOutlets = {}
  <2>1. MuxInv /\ MuxInv' /\ VOutlets' = {}
    BY <1>0, <1>2, NextMux
  <2>2. ASSUME NEW n \in SpaceThresholds, NEW toks \in [1 .. n -> Token], EntryCommStart(toks)
        PROVE  StreamStep
    <3>1. toks \in Seq(Token)
      BY TokensSeq, MultiplexAssumption
    <3> QED
      BY <1>2, <2>1, <2>2, <3>1, EntryCommStartPlain
  <2>3. ASSUME NEW n \in SpaceThresholds, NEW c \in VEntries, NEW data \in [1 .. n -> Data],
               VEntryCommStart(c, data)
        PROVE  StreamStep
    <3> DEFINE toks == [i \in DOMAIN data |-> [fifoId |-> c, data |-> data[i]]]
    <3>1. n \in Nat /\ c \in Color
      BY MultiplexAssumption
    <3>2. toks \in Seq(Token)
      BY <3>1, Colored
    <3>3. EntryCommStart(toks)
      BY <2>3 DEF VEntryCommStart
    <3> HIDE DEF toks
    <3> QED
      BY <1>2, <2>1, <3>2, <3>3, EntryCommStartPlain
  <2>4. ASSUME NEW n \in 1 .. Depth, EntryCommFinish(n)
        PROVE  StreamStep
    BY <1>2, <2>1, <2>4, EntryCommFinishPlain
  <2>5. ASSUME NEW n \in 1 .. Depth, OutletCommFinish(n)
        PROVE  StreamStep
    BY <1>2, <2>1, <2>5, OutletCommFinishPlain
  <2>6. ASSUME NEW r \in DataThresholds, NEW n \in 0 .. r, OutletCommStart(n, r)
        PROVE  StreamStep
    BY <1>2, <2>1, <2>6, OutletCommStartPlain
  <2>7. CASE doReset
    BY <1>2, <2>1, <2>7, doResetPlain
  <2>8. CASE UNCHANGED vars
    BY <2>1, <2>8 DEF StreamStep, Stream!svars, vars, Visible
  <2> QED
    BY <1>2, <2>1, <2>2, <2>3, <2>4, <2>5, <2>6, <2>7, <2>8 DEF Next, Communication
<1> QED
  BY <1>1, <1>2, <1>0

(***************************************************************************)
(* The theorems.                                                           *)
(***************************************************************************)

(* smoc_multiplex_fifo implements VirtualFifos, as long as the window      *)
(* holds the initial tokens: what is moved up, overtaken or announced in   *)
(* the shared memory leaves every virtual FIFO a queue of its own.         *)
THEOREM QueuesImplemented == Spec /\ Fits => EachIsAQueue
<1>1. Init /\ Fits => Virtual!Empty
  BY InitQueues
<1>2. MuxInv /\ [Next]_vars => [Virtual!VNext]_(Virtual!pair)
  BY NextQueues
<1> QED
  BY <1>1, <1>2, MultiplexInvariance, PTL DEF Spec, EachIsAQueue, Virtual!VSpec

(* Without virtual readers it implements TokenStream, as smoc_fifo does,   *)
(* whatever its initial tokens.                                            *)
THEOREM StreamImplemented == Spec => ImplementsStream
<1> DEFINE Inv == VOutlets = {} => MuxInv
<1>1. Init => Inv /\ Stream!Empty
  BY InitPlain
<1>2. Inv /\ [Next]_vars => Inv' /\ [Stream!StreamNext]_(Stream!svars)
  BY NextPlain DEF StreamStep
<1> HIDE DEF Inv
<1> QED
  BY <1>1, <1>2, PTL DEF Spec, ImplementsStream, Stream!StreamSpec
=============================================================================
