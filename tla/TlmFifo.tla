------------------------------ MODULE TlmFifo ------------------------------
(***************************************************************************)
(* What the TLM interfaces promise a SystemC thread at either end of a     *)
(* channel: a bounded queue with blocking and non-blocking calls.  reader  *)
(* and writer say in which call a thread is blocked, got and accepted what *)
(* the last call at either end has returned.                               *)
(***************************************************************************)
EXTENDS Naturals, Sequences

CONSTANTS Capacity, Token, Marking, Idle, Refused, Unset

VARIABLES queue, reader, writer, got, accepted

tvars == <<queue, reader, writer, got, accepted>>

Get ==
  /\ queue # <<>> /\ got' = Head(queue) /\ queue' = Tail(queue)
  /\ reader' = Idle
  /\ UNCHANGED <<writer, accepted>>

Peek ==
  /\ queue # <<>> /\ got' = Head(queue)
  /\ reader' = Idle
  /\ UNCHANGED <<queue, writer, accepted>>

RefuseRead  == queue = <<>> /\ got' = Refused /\ UNCHANGED <<queue, reader, writer, accepted>>
BlockReader == queue = <<>> /\ reader' \in {"get", "peek"} /\ UNCHANGED <<queue, writer, got, accepted>>

Put(t) ==
  /\ Len(queue) < Capacity /\ queue' = Append(queue, t)
  /\ writer' = Idle /\ accepted' = TRUE
  /\ UNCHANGED <<reader, got>>

RefuseWrite ==
  Len(queue) = Capacity /\ accepted' = FALSE /\ UNCHANGED <<queue, reader, writer, got>>

BlockWriter(t) ==
  Len(queue) = Capacity /\ writer' = t /\ UNCHANGED <<queue, reader, got, accepted>>

Reset == queue' = Marking /\ UNCHANGED <<reader, writer, got, accepted>>

TInit == /\ queue = Marking /\ reader = Idle /\ writer = Idle
         /\ got = Unset /\ accepted = TRUE

TNext ==
  \/ Get \/ Peek \/ RefuseRead \/ BlockReader \/ RefuseWrite \/ Reset
  \/ \E t \in Token : Put(t) \/ BlockWriter(t)

TSpec == TInit /\ [][TNext]_tvars
=============================================================================
