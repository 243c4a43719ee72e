------------------------- MODULE PeriodicActor_proof -------------------------
(***************************************************************************)
(* The three properties of a periodic actor, for every period, offset and   *)
(* jitter, and for every modulus of the unsigned clock that is larger than *)
(* the times that occur.                                                   *)
(***************************************************************************)
EXTENDS PeriodicActor, TLAPS

(***************************************************************************)
(* Unsigned time.                                                          *)
(***************************************************************************)

(* What an unsigned sum or difference of two times below Wrap is. *)
LEMMA Unsigned ==
  ASSUME NEW d \in Int, - Wrap < d, d < 2 * Wrap
  PROVE  d % Wrap = IF d < 0 THEN d + Wrap ELSE IF d < Wrap THEN d ELSE d - Wrap
BY PeriodicAssumption

(* The kernel's addition undoes the wrapping of the difference: a          *)
(* notification "t - now" ahead is due at t, or in the next delta cycle.   *)
LEMMA NotifiedAt ==
  ASSUME NEW t \in 0 .. Wrap - 1, now \in 0 .. Wrap - 1
  PROVE  /\ (t - now) % Wrap = 0 <=> t = now
         /\ (now + ((t - now) % Wrap)) % Wrap = t
<1>1. (t - now) % Wrap = IF t < now THEN t - now + Wrap ELSE t - now
  BY Unsigned, PeriodicAssumption
<1>2. CASE t < now
  BY <1>1, <1>2, Unsigned, PeriodicAssumption
<1>3. CASE ~(t < now)
  BY <1>1, <1>3, Unsigned, PeriodicAssumption
<1> QED
  BY <1>2, <1>3

(***************************************************************************)
(* The inductive invariant.  A request is only ever late if the release    *)
(* time has moved, which happens in schedule() alone; so it matters that   *)
(* no request is pending while the method runs, and that an actor which    *)
(* fires outside its period has a release time that has passed.            *)
(***************************************************************************)

Types ==
  /\ now \in 0 .. MaxTime
  /\ nextReleaseTime \in 0 .. MaxTime + 2 * Period + Offset
  /\ period_counter \in Nat
  /\ reexecute \in BOOLEAN /\ periodicActorActive \in BOOLEAN
  /\ active \in BOOLEAN /\ ready \in BOOLEAN /\ running \in BOOLEAN
  /\ request \in SUBSET Int

(* What FirstRelease chooses from: the release time is off its period by no *)
(* more than the mobility.                                                  *)
OnPeriod ==
  LET nominal == period_counter * Period + Offset
  IN  /\ nominal - Jitter <= nextReleaseTime
      /\ nextReleaseTime <= nominal + Jitter

PeriodicInv ==
  /\ Types
  /\ NoLostRelease
  /\ OnPeriod
  /\ running => request = {}
  /\ reexecute \/ ~periodicActorActive => nextReleaseTime <= now

(* Whatever was pending, after notifyActivation(TRUE) a notification comes *)
(* no later than the release time, also if the release time has passed.    *)
LEMMA RequestInTime ==
  ASSUME Types, notifyActivation(TRUE)
  PROVE  /\ request' \in SUBSET Int
         /\ \E t \in request' : t <= getNextReleaseTime
<1> DEFINE delay == (getNextReleaseTime - now) % Wrap
           at    == IF delay = 0 THEN Delta ELSE (now + delay) % Wrap
<1>1. now \in 0 .. Wrap - 1 /\ getNextReleaseTime \in 0 .. Wrap - 1
  BY PeriodicAssumption DEF Types, getNextReleaseTime
<1>2. at \in Int /\ at <= getNextReleaseTime
  <2>1. /\ delay = 0 <=> getNextReleaseTime = now
        /\ (now + delay) % Wrap = getNextReleaseTime
    BY <1>1, NotifiedAt
  <2>2. at = IF getNextReleaseTime = now THEN -1 ELSE getNextReleaseTime
    BY <2>1 DEF Delta
  <2> QED
    BY <1>1, <2>2, PeriodicAssumption
<1>3. request' = IF request # {} /\ \A t \in request : t <= at THEN request ELSE {at}
  BY DEF notifyActivation, notify
<1>4. request \in SUBSET Int
  BY DEF Types
<1> HIDE DEF at
<1>5. CASE request # {} /\ \A t \in request : t <= at
  <2>1. PICK t \in request : t <= at
    BY <1>5
  <2>2. t \in Int /\ getNextReleaseTime \in Int
    BY <1>1, <1>4, <2>1, PeriodicAssumption
  <2> QED
    BY <1>2, <1>3, <1>4, <1>5, <2>1, <2>2
<1>6. CASE ~(request # {} /\ \A t \in request : t <= at)
  BY <1>2, <1>3, <1>6
<1> QED
  BY <1>5, <1>6

(* The simulation starts with the request for the first release, Offset    *)
(* ahead, if a transition is enabled.                                      *)
LEMMA PeriodicInit == Init => PeriodicInv
<1> SUFFICES ASSUME Init PROVE PeriodicInv
  OBVIOUS
<1> USE PeriodicAssumption DEF Init
<1>1. 0 \in 0 .. Wrap - 1 /\ Offset \in 0 .. Wrap - 1
  OBVIOUS
<1>2. (now + Offset) % Wrap = Offset
  BY <1>1, Unsigned
<1>3. request = IF ~ready THEN {} ELSE IF Offset = 0 THEN {Delta} ELSE {Offset}
  BY <1>2 DEF notify
<1>4. Types
  <2>1. request \in SUBSET Int
    BY <1>3 DEF Delta
  <2>2. now \in 0 .. MaxTime /\ nextReleaseTime \in 0 .. MaxTime + 2 * Period + Offset
    BY SMT
  <2> QED
    BY <2>1, <2>2 DEF Types
<1>5. NoLostRelease
  BY <1>3 DEF NoLostRelease, getNextReleaseTime, Delta
<1>6. OnPeriod
  BY DEF OnPeriod
<1> QED
  BY <1>4, <1>5, <1>6 DEF PeriodicInv

(* updateReleaseTime ends with a later release time within the mobility of *)
(* a later period, unless the current one still lies ahead.                *)
LEMMA Released ==
  ASSUME PeriodicInv, updateReleaseTime
  PROVE  /\ nextReleaseTime' \in 0 .. MaxTime + 2 * Period + Offset
         /\ nextReleaseTime' > now
         /\ period_counter' \in Nat
         /\ nextReleaseTime <= now => period_counter' > period_counter
         /\ (period_counter' * Period + Offset) - Jitter <= nextReleaseTime'
         /\ nextReleaseTime' <= period_counter' * Period + Offset + Jitter
<1>1. CASE nextReleaseTime > now
  BY <1>1, PeriodicAssumption DEF updateReleaseTime, PeriodicInv, Types, OnPeriod
<1>2. CASE ~(nextReleaseTime > now)
  <2>1. PICK k \in period_counter + 1 .. MaxTime + 2,
             t \in 0 .. MaxTime + 2 * Period + Offset :
           FirstRelease(k, t) /\ period_counter' = k /\ nextReleaseTime' = t
    BY <1>2 DEF updateReleaseTime
  <2>2. k \in Nat /\ k * Period \in Int
    BY PeriodicAssumption DEF PeriodicInv, Types
  <2> QED
    BY <2>1, <2>2, PeriodicAssumption DEF FirstRelease, PeriodicInv, Types
<1> QED
  BY <1>1, <1>2

(* A firing keeps the invariant; it leaves its method running, so that the *)
(* request for the new release time is still to be made.                   *)
LEMMA ScheduleInv ==
  ASSUME PeriodicInv, schedule
  PROVE  PeriodicInv'
<1>1. /\ running /\ running' = running /\ request' = request /\ now' = now
      /\ getNextReleaseTime <= now
  BY PeriodicAssumption DEF schedule, Due, getNextReleaseTime, PeriodicInv, Types
<1>2. NoLostRelease'
  BY <1>1 DEF NoLostRelease, PeriodicInv
<1>3. CASE ~reexecute' /\ periodicActorActive'
  <2>1. updateReleaseTime
    BY <1>3 DEF schedule
  <2>2. /\ nextReleaseTime' \in 0 .. MaxTime + 2 * Period + Offset
        /\ period_counter' \in Nat
        /\ (period_counter' * Period + Offset) - Jitter <= nextReleaseTime'
        /\ nextReleaseTime' <= period_counter' * Period + Offset + Jitter
    BY <2>1, Released
  <2>3. Types'
    BY <1>1, <2>2 DEF schedule, PeriodicInv, Types
  <2>4. OnPeriod'
    BY <2>2 DEF OnPeriod
  <2> QED
    BY <1>1, <1>2, <1>3, <2>3, <2>4 DEF PeriodicInv
<1>4. CASE reexecute' \/ ~periodicActorActive'
  <2>1. nextReleaseTime' = nextReleaseTime /\ period_counter' = period_counter
    BY <1>4 DEF schedule
  <2>2. nextReleaseTime <= now
    BY <1>1 DEF getNextReleaseTime, PeriodicInv
  <2>3. Types' /\ OnPeriod'
    BY <1>1, <2>1 DEF OnPeriod, schedule, PeriodicInv, Types
  <2> QED
    BY <1>1, <1>2, <2>1, <2>2, <2>3 DEF PeriodicInv
<1> QED
  BY <1>3, <1>4 DEF schedule

(* The actor's own variables and the clock decide the release time. *)
LEMMA SameRelease ==
  ASSUME UNCHANGED <<now, actorVars>>
  PROVE  /\ getNextReleaseTime' = getNextReleaseTime
         /\ OnPeriod => OnPeriod'
BY DEF actorVars, getNextReleaseTime, OnPeriod

(* Every step that leaves the release time alone keeps the invariant if it *)
(* requests in time for an actor that may fire.                            *)
LEMMA RequestStepInv ==
  ASSUME PeriodicInv, UNCHANGED <<now, actorVars>>,
         active' \in BOOLEAN, ready' \in BOOLEAN, running' \in BOOLEAN,
         request' \in SUBSET Int,
         running' => request' = {},
         active' /\ ready' /\ ~running' =>
           \/ notifyActivation(TRUE)
           \/ active /\ ready /\ ~running /\ request' = request
  PROVE  PeriodicInv'
<1>1. Types'
  BY DEF PeriodicInv, Types, actorVars
<1>2. OnPeriod'
  BY SameRelease DEF PeriodicInv
<1>3. NoLostRelease'
  BY SameRelease, RequestInTime DEF PeriodicInv, NoLostRelease
<1> QED
  BY <1>1, <1>2, <1>3 DEF PeriodicInv, actorVars

(***************************************************************************)
(* The theorems.                                                           *)
(***************************************************************************)

(* The invariant holds whatever order of events, resets, switchings, early *)
(* and late calls of the scheduler's method has led here.                  *)
THEOREM PeriodicInvariance == Spec => []PeriodicInv
<1>1. PeriodicInv /\ [Next]_vars => PeriodicInv'
  <2> SUFFICES ASSUME PeriodicInv, [Next]_vars PROVE PeriodicInv'
    OBVIOUS
  <2> USE DEF PeriodicInv, Types
  <2>1. CASE CannotFire
    BY <2>1, RequestStepInv DEF CannotFire
  <2>2. CASE TooEarly
    BY <2>2, RequestStepInv, RequestInTime DEF TooEarly
  <2>3. CASE schedule
    BY <2>3, ScheduleInv
  <2>4. CASE SignaledReady
    BY <2>4, RequestStepInv, RequestInTime DEF SignaledReady
  <2>5. CASE SignaledIdle
    BY <2>5, RequestStepInv DEF SignaledIdle, notifyActivation
  <2>6. CASE doReset
    <3>1. CASE active /\ ready'
      BY <2>6, <3>1, RequestStepInv, RequestInTime DEF doReset
    <3>2. CASE active /\ ~ready'
      BY <2>6, <3>2, RequestStepInv DEF doReset, notifyActivation
    <3>3. CASE ~active
      BY <2>6, <3>3, RequestStepInv DEF doReset
    <3> QED
      BY <3>1, <3>2, <3>3
  <2>7. ASSUME NEW flag \in BOOLEAN, setActive(flag) PROVE PeriodicInv'
    <3>1. CASE flag /\ ready'
      BY <2>7, <3>1, RequestStepInv, RequestInTime DEF setActive
    <3>2. CASE flag /\ ~ready'
      BY <2>7, <3>2, RequestStepInv DEF setActive, notifyActivation
    <3>3. CASE ~flag
      BY <2>7, <3>3, RequestStepInv DEF setActive, notifyActivation
    <3> QED
      BY <3>1, <3>2, <3>3
  <2>8. CASE scheduleRequestMethod
    BY <2>8, RequestStepInv DEF scheduleRequestMethod
  <2>9. CASE Tick
    BY <2>9, PeriodicAssumption
       DEF Tick, actorVars, NoLostRelease, OnPeriod, getNextReleaseTime
  <2>10. CASE UNCHANGED vars
    BY <2>10 DEF vars, actorVars, NoLostRelease, OnPeriod, getNextReleaseTime
  <2> QED
    BY <2>1, <2>2, <2>3, <2>4, <2>5, <2>6, <2>7, <2>8, <2>9, <2>10 DEF Next
<1> QED
  BY <1>1, PeriodicInit, PTL DEF Spec

(* An actor that may fire always has a notification on its way that comes  *)
(* no later than its release time.                                         *)
THEOREM ReleaseNotLost == Spec => []NoLostRelease
BY PeriodicInvariance, PTL DEF PeriodicInv

(* The clock never passes an actor that could fire. *)
THEOREM NeverLate == Spec => Punctual
<1>1. ASSUME PeriodicInv, [Next]_vars, now' # now
      PROVE  ~(active /\ ready /\ getNextReleaseTime <= now)
  <2>1. Tick
    BY <1>1 DEF Next, CannotFire, TooEarly, schedule, SignaledReady, SignaledIdle,
                doReset, setActive, scheduleRequestMethod, vars
  <2>2. active /\ ready => \E t \in request : t <= getNextReleaseTime /\ t > now
    BY <1>1, <2>1 DEF PeriodicInv, NoLostRelease, Tick
  <2> QED
    BY <1>1, <2>2, PeriodicAssumption DEF PeriodicInv, Types, getNextReleaseTime
<1>2. PeriodicInv /\ [Next]_vars =>
        [now' # now => ~(active /\ ready /\ getNextReleaseTime <= now)]_vars
  BY <1>1
<1> QED
  BY <1>2, PeriodicInvariance, PTL DEF Spec, Punctual

(* A firing comes at or after its release time, and the next release time  *)
(* lies ahead of it, in a later period.                                    *)
THEOREM FiresOncePerPeriod == Spec => OncePerPeriod
<1> DEFINE A == Fires => /\ reexecute \/ ~periodicActorActive \/ nextReleaseTime <= now
                         /\ ~reexecute' /\ periodicActorActive'
                              => nextReleaseTime' > now /\ period_counter' > period_counter
<1>1. ASSUME PeriodicInv, Next PROVE A
  <2> SUFFICES ASSUME Fires
               PROVE  /\ reexecute \/ ~periodicActorActive \/ nextReleaseTime <= now
                      /\ ~reexecute' /\ periodicActorActive'
                           => nextReleaseTime' > now /\ period_counter' > period_counter
    OBVIOUS
  <2>1. schedule
    BY <1>1 DEF Next, Fires, CannotFire, TooEarly, SignaledReady, SignaledIdle,
                doReset, setActive, scheduleRequestMethod, Tick
  <2>2. nextReleaseTime <= now
    BY <1>1, <2>1, PeriodicAssumption
       DEF schedule, Due, getNextReleaseTime, PeriodicInv, Types
  <2>3. ASSUME ~reexecute', periodicActorActive'
        PROVE  nextReleaseTime' > now /\ period_counter' > period_counter
    BY <1>1, <2>1, <2>2, <2>3, Released DEF schedule
  <2> QED
    BY <2>2, <2>3
<1>2. PeriodicInv /\ [Next]_vars => [A]_vars
  BY <1>1
<1> QED
  BY <1>2, PeriodicInvariance, PTL DEF Spec, OncePerPeriod
=============================================================================
