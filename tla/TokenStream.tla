---------------------------- MODULE TokenStream ----------------------------
(***************************************************************************)
(* What a FIFO channel promises the two actors it connects, without a ring *)
(* buffer, indices or events: a bounded queue in three parts.  Tokens are  *)
(* written into the pipeline, become visible to the reader in the order    *)
(* they were written, are read in that order, and keep their place until   *)
(* the reader releases it.  A token of the pipeline may be lost, a visible *)
(* one may not.                                                            *)
(***************************************************************************)
EXTENDS Naturals, Sequences

CONSTANTS Capacity,       \* how many tokens fit
          Token,          \* what can be written
          Marking         \* the tokens a reset leaves in the channel

VARIABLES pipeline, visible, consuming

svars == <<pipeline, visible, consuming>>

Room == Capacity - (Len(pipeline) + Len(visible) + consuming)

Empty == /\ pipeline = <<>>
         /\ visible = Marking
         /\ consuming = 0

Write(toks) == /\ Len(toks) <= Room
               /\ pipeline' = pipeline \o toks
               /\ UNCHANGED <<visible, consuming>>

First(s, n) == SubSeq(s, 1, n)
Rest(s, n)  == SubSeq(s, n + 1, Len(s))

Arrive(n) == /\ n <= Len(pipeline)
             /\ visible' = visible \o First(pipeline, n)
             /\ pipeline' = Rest(pipeline, n)
             /\ UNCHANGED consuming

Lose(n) == /\ n <= Len(pipeline)
           /\ pipeline' = Rest(pipeline, n)
           /\ UNCHANGED <<visible, consuming>>

Read(n) == /\ n <= Len(visible)
           /\ visible' = Rest(visible, n)
           /\ consuming' = consuming + n
           /\ UNCHANGED pipeline

Release(n) == /\ n <= consuming
              /\ consuming' = consuming - n
              /\ UNCHANGED <<pipeline, visible>>

Reset == Empty'

StreamNext ==
  \/ \E n \in 1 .. Capacity : \/ \E toks \in [1 .. n -> Token] : Write(toks)
                              \/ Arrive(n) \/ Lose(n)
                              \/ Read(n)   \/ Release(n)
  \/ Reset

StreamSpec == Empty /\ [][StreamNext]_svars
=============================================================================
