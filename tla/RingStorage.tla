---------------------------- MODULE RingStorage ----------------------------
(***************************************************************************)
(* The slots of a ring buffer FIFO: QueueWithStorage, FifoStorage and      *)
(* Storage.  A slot holds a constructed token or none.                     *)
(***************************************************************************)
EXTENDS RingQueue, Sequences

CONSTANTS NoToken,         \* the content of a slot that is not valid
          Marking          \* the initial tokens

\* Mutant: the last consumed slot keeps its token.
InvalidateLess(st, r, n) ==
  [i \in Idx |-> IF Minus(i, r) + 1 < n THEN NoToken ELSE st[i]]

(* QueueWithStorageHelper::rpp: the slots of consumed tokens, n from r on. *)
Invalidate(st, r, n) ==
  [i \in Idx |-> IF Minus(i, r) < n THEN NoToken ELSE st[i]]

(* RingAccess::operator[] on the writer's side. *)
PutAt(st, w, toks) ==
  [i \in Idx |-> IF Minus(i, w) < Len(toks) THEN toks[Minus(i, w) + 1]
                                            ELSE st[i]]

\* Mutant: the slots at rindex are freed, and no token moves.
moveNothing(st, p, n) == [i \in Idx |-> IF Minus(i, p.rindex) < n THEN NoToken ELSE st[i]]

(* moveTokensRight for the n oldest tokens of the pipeline: the visible    *)
(* tokens in front of them take their places.                              *)
moveTokensRight(st, p, n) ==
  [i \in Idx |->
     LET offset == Minus(i, p.rindex)
     IN  IF offset < n THEN NoToken
         ELSE IF offset < visibleCount(p) + n THEN st[Minus(i, n)]
         ELSE st[i]]

(* FifoStorage::doReset: invalidate rindex .. windex-1, then place the     *)
(* initial tokens from slot 0 on.                                          *)
resetStorage(st, p) ==
  PutAt(Invalidate(st, p.rindex, usedCount(p)), 0, Marking)

(* The indices once doReset() has placed the initial tokens. *)
MarkedQueue == vpp(wpp(resetQueue, Len(Marking)), Len(Marking))

(* What RingAccess::operator[] returns for 0 .. n-1, on the side of i. *)
Slice(st, i, n) == [k \in 1 .. n |-> st[Plus(i, k - 1)]]
=============================================================================
