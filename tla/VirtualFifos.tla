---------------------------- MODULE VirtualFifos ----------------------------
(***************************************************************************)
(* What the virtual FIFOs of a multiplex FIFO promise: although they share *)
(* their memory, each is a queue of its own to its writer and its reader.  *)
(* The reader is offered a first part of that queue, which may grow at any *)
(* time and shrinks by nothing but its own reading.                        *)
(***************************************************************************)
EXTENDS Naturals, Sequences

CONSTANTS Ids,            \* the virtual FIFOs
          Data,           \* what can be written
          Most,           \* how many tokens a write or a read may move
          Initially       \* initial tokens of each virtual FIFO

VARIABLES queued,         \* written and not yet read, of each
          offered         \* how many of them the reader may read

pair == <<queued, offered>>

Empty == /\ queued = Initially
         /\ \A c \in Ids : offered[c] \in 0 .. Len(queued[c])

Keep(c) == queued'[c] = queued[c] /\ offered'[c] = offered[c]

Put(c, data) == /\ queued'[c] = queued[c] \o data
                /\ offered'[c] = offered[c]

Offer(c) == /\ queued'[c] = queued[c]
            /\ offered'[c] \in offered[c] + 1 .. Len(queued[c])

(* What has been read makes room for more to be offered. *)
Get(c, n) == /\ n <= offered[c]
             /\ queued'[c] = SubSeq(queued[c], n + 1, Len(queued[c]))
             /\ offered'[c] \in offered[c] - n .. Len(queued'[c])

Step(c) == \/ Keep(c)
           \/ Offer(c)
           \/ \E n \in 1 .. Most : \/ \E data \in [1 .. n -> Data] : Put(c, data)
                                   \/ Get(c, n)

VNext == (\A c \in Ids : Step(c)) \/ Empty'

VSpec == Empty /\ [][VNext]_pair
=============================================================================
