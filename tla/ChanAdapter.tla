---------------------------- MODULE ChanAdapter ----------------------------
(***************************************************************************)
(* smoc_chan_adapter: the TLM interfaces through which SystemC threads use *)
(* a SysteMoC FIFO.  One thread reads, one writes; each may use any of the *)
(* adapters of its side.                                                   *)
(*                                                                         *)
(* SystemC threads are cooperative: a call runs to its end without another *)
(* thread in between, unless smoc_wait blocks it.  smoc_wait is CoSupport  *)
(* code; as its callers rely on, it returns when the event is enabled.     *)
(***************************************************************************)
EXTENDS FifoChan

CONSTANTS Idle, Refused, Unset,
          VoidToken,   \* what a token of void is
          KeepsBytes   \* T's destructor leaves the object's bytes alone

ASSUME AdapterAssumption ==
  /\ 1 \in DataThresholds /\ 1 \in SpaceThresholds
  /\ VoidToken \in Token /\ KeepsBytes \in BOOLEAN
  /\ {Idle, Refused, Unset} \cap (Token \cup {NoToken}) = {}

VARIABLES reader,    \* the blocking call the reading thread is in, or Idle
          writer,    \* the token a blocked put() holds, or Idle
          got,       \* what the reader's last call returned
          accepted,  \* what the writer's last call returned
          isVoid     \* T is void: the channel carries no values

chanVars == <<q, storage, emmData, emmSpace, inFlight, inConsume>>
avars    == <<chanVars, reader, writer, got, accepted, isVoid>>

dataAvailable  == emmData[1]
spaceAvailable == emmSpace[1]

(* RingAccess::operator[](0) of the reader. *)
First == storage[q.rindex]

\* Mutant: the writer is not told of the free place.
outletCommExecQuiet ==
  /\ storage' = Invalidate(storage, q.rindex, 1)
  /\ q' = fpp(rpp(q, 1), 1)
  /\ emmData' = decreasedCount(emmData, visibleCount(q'))
  /\ UNCHANGED <<emmSpace, inFlight, inConsume>>

(* FifoOutlet::commExec(1): both halves. *)
outletCommExec ==
  /\ storage' = Invalidate(storage, q.rindex, 1)
  /\ q' = fpp(rpp(q, 1), 1)
  /\ emmData' = decreasedCount(emmData, visibleCount(q'))
  /\ emmSpace' = increasedCount(emmSpace, freeCount(q'))
  /\ UNCHANGED <<inFlight, inConsume>>

(* The token is put into the slot at windex, then FifoEntry::commExec(1). *)
entryCommExec(t) ==
  /\ storage' = PutAt(storage, q.windex, <<t>>)
  /\ q' = vpp(wpp(q, 1), 1)
  /\ emmSpace' = decreasedCount(emmSpace, freeCount(q'))
  /\ emmData' = increasedCount(emmData, visibleCount(q'))
  /\ UNCHANGED <<inFlight, inConsume>>

-----------------------------------------------------------------------------
(* The reading thread.  A thread blocked in a call goes on with that call. *)

Calls(op) == reader \in {Idle, op}

smoc_waitData(op) ==
  /\ reader = Idle /\ ~dataAvailable
  /\ reader' = op
  /\ UNCHANGED <<chanVars, writer, got, accepted, isVoid>>

Reads(value) == /\ got' = value /\ reader' = Idle
                /\ UNCHANGED <<writer, accepted, isVoid>>

(* get() keeps a reference to the token, and copies it after commExec(1)   *)
(* has destroyed it in its slot.                                           *)
get ==
  /\ ~isVoid /\ Calls("get") /\ dataAvailable
  /\ outletCommExec
  /\ Reads(IF KeepsBytes THEN First ELSE storage'[q.rindex])

get_void ==
  /\ isVoid /\ Calls("get") /\ dataAvailable
  /\ outletCommExec
  /\ Reads(First)

nb_get ==
  /\ ~isVoid /\ reader = Idle /\ dataAvailable
  /\ outletCommExec
  /\ Reads(First)

nb_get_void ==
  /\ isVoid /\ reader = Idle /\ dataAvailable
  /\ outletCommExec
  /\ Reads(First)

peek ==
  /\ ~isVoid /\ Calls("peek") /\ dataAvailable
  /\ Reads(First) /\ UNCHANGED chanVars

peek_void ==
  /\ isVoid /\ Calls("peek") /\ dataAvailable
  /\ Reads(First) /\ UNCHANGED chanVars

nb_peek ==
  /\ ~isVoid /\ reader = Idle /\ dataAvailable
  /\ Reads(First) /\ UNCHANGED chanVars

nb_peek_void ==
  /\ isVoid /\ reader = Idle /\ dataAvailable
  /\ Reads(First) /\ UNCHANGED chanVars

(* nb_get and nb_peek without data; nb_can_get and nb_can_peek say so. *)
nb_refusesRead ==
  /\ reader = Idle /\ ~dataAvailable
  /\ got' = Refused
  /\ UNCHANGED <<chanVars, reader, writer, accepted, isVoid>>

-----------------------------------------------------------------------------
(* The writing thread.                                                     *)

smoc_waitSpace(t) ==
  /\ writer = Idle /\ ~spaceAvailable /\ (isVoid => t = VoidToken)
  /\ writer' = t
  /\ UNCHANGED <<chanVars, reader, got, accepted, isVoid>>

Writes(t) == /\ entryCommExec(t)
             /\ writer' = Idle /\ accepted' = TRUE
             /\ UNCHANGED <<reader, got, isVoid>>

put(t)         == ~isVoid /\ writer \in {Idle, t} /\ spaceAvailable /\ Writes(t)
put_void(t)    == isVoid /\ t = VoidToken /\ writer \in {Idle, t} /\ spaceAvailable /\ Writes(t)

\* Mutant: the answer of spaceAvailable is not looked at.
nb_putAlways(t) == ~isVoid /\ writer = Idle /\ Writes(t)

nb_put(t)      == ~isVoid /\ writer = Idle /\ spaceAvailable /\ Writes(t)
nb_put_void(t) == isVoid /\ t = VoidToken /\ writer = Idle /\ spaceAvailable /\ Writes(t)

nb_refusesWrite ==
  /\ writer = Idle /\ ~spaceAvailable
  /\ accepted' = FALSE
  /\ UNCHANGED <<chanVars, reader, writer, got, isVoid>>

(* A reset of the channel while the threads are idle or blocked. *)
Reset == doReset /\ UNCHANGED <<reader, writer, got, accepted, isVoid>>

-----------------------------------------------------------------------------

AInit == /\ Init /\ reader = Idle /\ writer = Idle /\ got = Unset /\ accepted = TRUE
         /\ isVoid \in BOOLEAN

Gets  == get \/ get_void \/ nb_get \/ nb_get_void
Peeks == peek \/ peek_void \/ nb_peek \/ nb_peek_void
Puts == \E t \in Token : put(t) \/ put_void(t) \/ nb_put(t) \/ nb_put_void(t)

ANext == \/ Gets \/ Peeks \/ Puts
         \/ smoc_waitData("get") \/ smoc_waitData("peek") \/ nb_refusesRead
         \/ nb_refusesWrite \/ \E t \in Token : smoc_waitSpace(t)
         \/ Reset

ASpec == AInit /\ [][ANext]_avars

(* The kernel goes on with a blocked thread once its event stays enabled;  *)
(* the threads of the co-simulation tests call again after every call.     *)
AFairSpec == ASpec /\ WF_avars(Gets) /\ WF_avars(Peeks) /\ WF_avars(Puts)

-----------------------------------------------------------------------------
(* The adapters keep the promise of TlmFifo: a call returns the oldest     *)
(* token, peek leaves it there, a call refuses or blocks only on an empty  *)
(* or full channel, nothing is lost, duplicated or overwritten.            *)
Tlm == INSTANCE TlmFifo WITH Capacity <- Depth,
                             queue <- Contents(q.rindex, visibleCount(q))
ImplementsTlm == Tlm!TSpec

(* A thread blocked in get(), peek() or put() comes back, as the thread at *)
(* the other end goes on writing or getting, resets notwithstanding.       *)
ThreadsServed == /\ reader # Idle ~> reader = Idle
                 /\ writer # Idle ~> writer = Idle
=============================================================================
