----------------------------- MODULE RingQueue -----------------------------
(***************************************************************************)
(* The index arithmetic of a ring buffer FIFO: the classes QueueRWPtr,     *)
(* QueueRVWPtr and QueueFRVWPtr.                                           *)
(*                                                                         *)
(* The build enables SYSTEMOC_ENABLE_ROUTING by default, so a FIFO is a    *)
(* QueueFRVWPtr, whose four indices cut the ring into four areas           *)
(*                                                                         *)
(*      free      consuming     visible      pipeline      free            *)
(*   [.......findex......rindex......vindex.......windex.......]           *)
(*                                                                         *)
(* findex .. rindex-1  tokens that are being consumed                      *)
(* rindex .. vindex-1  tokens a reader can see                             *)
(* vindex .. windex-1  tokens written, whose latency has not expired       *)
(* windex .. findex-2  free space; one slot always stays unused            *)
(***************************************************************************)
EXTENDS Naturals

CONSTANT Depth      \* The size n the FIFO is declared with.

ASSUME DepthAssumption == Depth \in Nat \ {0}

FSize == Depth + 1  \* qfSize(): one slot more than tokens.
Idx   == 0 .. Depth \* What an index can be.

Indices == [findex : Idx, rindex : Idx, vindex : Idx, windex : Idx]

(***************************************************************************)
(* CoSupport's ModuloGroup: addition and subtraction modulo FSize, of an   *)
(* index and a count or an index that are both below FSize.                *)
(***************************************************************************)
Plus(i, n)  == IF i + n < FSize THEN i + n ELSE (i + n) - FSize
Minus(i, j) == IF j <= i THEN i - j ELSE (i + FSize) - j

(* x.between(a, b): going up from a one meets x no later than b. *)
Between(x, a, b) == Minus(x, a) <= Minus(b, a)

usedCount(q)      == Minus(q.windex, q.rindex)
visibleCount(q)   == Minus(q.vindex, q.rindex)
\* Mutant: the free space ends at rindex, not at findex.
freeCountRead(q) == Minus(Minus(q.rindex, q.windex), 1)

freeCount(q)      == Minus(Minus(q.findex, q.windex), 1)
invisibleCount(q) == Minus(q.windex, q.vindex)  \* local to vpp()'s assertion
inconsumeCount(q) == Minus(q.rindex, q.findex)  \* local to fpp()'s assertion

\* Mutant: windex does not wrap around.
wppStraight(q, n) == [q EXCEPT !.windex = @ + n]

wpp(q, n) == [q EXCEPT !.windex = Plus(@, n)]
rpp(q, n) == [q EXCEPT !.rindex = Plus(@, n)]
vpp(q, n) == [q EXCEPT !.vindex = Plus(@, n)]
fpp(q, n) == [q EXCEPT !.findex = Plus(@, n)]

(* What each of these four asserts of its argument. *)
wppAssert(q, n) == n <= freeCount(q)
rppAssert(q, n) == n <= visibleCount(q)
vppAssert(q, n) == /\ Between(q.vindex, q.rindex, q.windex)
                   /\ n <= invisibleCount(q)
fppAssert(q, n) == /\ Between(q.findex, Plus(q.windex, 1), q.rindex)
                   /\ n <= inconsumeCount(q)

resetQueue == [findex |-> 0, rindex |-> 0, vindex |-> 0, windex |-> 0]

\* Mutant: the drop of a queue without findex.
dropKeepsFindex(q, n) == rpp(vpp(q, n), n)

(* n tokens leave the pipeline unread: three indices move, windex does not. *)
dropRInvisible(q, n) == fpp(rpp(vpp(q, n), n), n)
=============================================================================
