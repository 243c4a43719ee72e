---------------------------- MODULE PeriodicActor ----------------------------
(***************************************************************************)
(* smoc_periodic_actor under SysteMoC's own scheduler: an actor that fires *)
(* when it has an enabled transition and its release time has come.        *)
(*                                                                         *)
(* Two things wake it: the events of its ports (signaled) and the          *)
(* scheduler's event, which is notified "release time - now" ahead.        *)
(* sc_time is an unsigned count, so that difference wraps around when the  *)
(* release time has passed while the actor had nothing to fire; the kernel *)
(* adds it to the clock again.  Time is kept modulo Wrap.                  *)
(***************************************************************************)
EXTENDS Integers

CONSTANTS Period, Offset,
          Jitter,      \* the largest mobility, jitter * period
          Wrap,        \* sc_time counts modulo Wrap
          MaxTime      \* bound: the simulation ends here

ASSUME PeriodicAssumption ==
  /\ Period \in Nat \ {0} /\ Offset \in Nat
  /\ Jitter \in 0 .. Period - 1
  /\ MaxTime \in Nat
  /\ Wrap \in Nat /\ MaxTime + 2 * Period + Offset < Wrap

VARIABLES now,              \* sc_time_stamp()
          nextReleaseTime, period_counter, reexecute, periodicActorActive,
          active,           \* NodeBase::active: does the actor listen?
          ready,            \* ct # nullptr
          request,          \* scheduleRequest's notification: a set, see below
          running           \* in scheduleRequestMethod

vars == <<now, nextReleaseTime, period_counter, reexecute, periodicActorActive,
          active, ready, request, running>>

actorVars == <<nextReleaseTime, period_counter, reexecute, periodicActorActive>>

-----------------------------------------------------------------------------
(* sc_event: at most one notification is pending, and of two the earlier   *)
(* one stays.  None is {}, one for the next delta cycle is {-1}, a timed   *)
(* one {t}.                                                                *)

Delta == -1

notify(pending, delay) ==
  LET at == IF delay = 0 THEN Delta ELSE (now + delay) % Wrap
  IN  IF pending # {} /\ \A t \in pending : t <= at THEN pending ELSE {at}

-----------------------------------------------------------------------------

(* smoc_periodic_actor::getNextReleaseTime. *)
getNextReleaseTime == IF reexecute \/ ~periodicActorActive THEN now ELSE nextReleaseTime

\* Mutant: a difference that stays at the largest time instead of wrapping.
notifyActivationSaturated(activation) ==
  request' = IF ~activation THEN {}
             ELSE notify(request, IF getNextReleaseTime < now THEN Wrap - 1 - now
                                  ELSE getNextReleaseTime - now)

(* SysteMoCScheduler::notifyActivation. *)
notifyActivation(activation) ==
  request' = IF activation THEN notify(request, (getNextReleaseTime - now) % Wrap) ELSE {}

(* updateReleaseTime: the loop ends with the first period whose release    *)
(* time, moved by a mobility that is drawn anew for each, lies ahead.      *)
FirstRelease(k, t) ==
  /\ t > now
  /\ t \in (k * Period + Offset - Jitter) .. (k * Period + Offset + Jitter)
  /\ \A j \in period_counter + 1 .. k - 1 : j * Period + Offset - Jitter <= now

updateReleaseTime ==
  IF nextReleaseTime > now THEN UNCHANGED <<nextReleaseTime, period_counter>>
  ELSE \E k \in period_counter + 1 .. MaxTime + 2,
          t \in 0 .. MaxTime + 2 * Period + Offset :
         /\ FirstRelease(k, t)
         /\ period_counter' = k
         /\ nextReleaseTime' = t

-----------------------------------------------------------------------------
(* canFire of the loop in scheduleRequestMethod, by its three outcomes:    *)
(* no transition; a transition before its release time; a firing.          *)

CannotFire ==
  /\ running
  /\ ~(active /\ ready)
  /\ running' = FALSE
  /\ UNCHANGED <<now, actorVars, active, ready, request>>

TooEarly ==
  /\ running
  /\ active /\ ready
  /\ getNextReleaseTime > now
  /\ notifyActivation(TRUE)
  /\ running' = FALSE
  /\ UNCHANGED <<now, actorVars, active, ready>>

\* Mutant: the release time is not looked at.
DueAlways == running /\ active /\ ready

Due == running /\ active /\ ready /\ ~(getNextReleaseTime > now)

(* smoc_periodic_actor::schedule.  The action may ask for another          *)
(* execution, stop the period or switch the actor off, and afterwards      *)
(* another transition may be enabled or none.                              *)
schedule ==
  /\ Due
  /\ reexecute' \in BOOLEAN
  /\ periodicActorActive' \in BOOLEAN
  /\ active' \in BOOLEAN
  /\ ready' \in BOOLEAN
  /\ IF ~reexecute' /\ periodicActorActive' THEN updateReleaseTime
     ELSE UNCHANGED <<nextReleaseTime, period_counter>>
  /\ UNCHANGED <<now, request, running>>

-----------------------------------------------------------------------------
(* NodeBase: what happens to the actor from outside, between two methods.  *)

(* signaled: an event of the current state is enabled, or another search   *)
(* finds a transition after one was disabled. *)
SignaledReady ==
  /\ ~running /\ active
  /\ ready' = TRUE
  /\ notifyActivation(TRUE)
  /\ UNCHANGED <<now, actorVars, active, running>>

SignaledIdle ==
  /\ ~running /\ active /\ ready
  /\ ready' = FALSE
  /\ notifyActivation(FALSE)
  /\ UNCHANGED <<now, actorVars, active, running>>

(* doReset: the release time, the counter and both flags stay. *)
doReset ==
  /\ ~running
  /\ IF active THEN /\ ready' \in BOOLEAN
                    /\ notifyActivation(ready')
     ELSE ready' = FALSE /\ UNCHANGED request
  /\ UNCHANGED <<now, actorVars, active, running>>

\* Mutant: an actor that is switched on waits for its next event.
setActiveQuiet(flag) ==
  /\ ~running /\ active # flag
  /\ active' = flag
  /\ IF flag THEN ready' \in BOOLEAN /\ UNCHANGED request
     ELSE UNCHANGED ready /\ notifyActivation(FALSE)
  /\ UNCHANGED <<now, actorVars, running>>

setActive(flag) ==
  /\ ~running /\ active # flag
  /\ active' = flag
  /\ IF flag THEN ready' \in BOOLEAN /\ notifyActivation(ready')
     ELSE UNCHANGED ready /\ notifyActivation(FALSE)
  /\ UNCHANGED <<now, actorVars, running>>

-----------------------------------------------------------------------------
(* The SystemC kernel.  A notification that is due runs the scheduler's    *)
(* method; one from the past is due, and the clock stays.                  *)

scheduleRequestMethod ==
  /\ ~running
  /\ \E t \in request : t <= now
  /\ request' = {}
  /\ running' = TRUE
  /\ UNCHANGED <<now, actorVars, active, ready>>

Tick ==
  /\ ~running /\ now < MaxTime
  /\ \A t \in request : t > now
  /\ now' = now + 1
  /\ UNCHANGED <<actorVars, active, ready, request, running>>

Init ==
  /\ now = 0
  /\ nextReleaseTime = Offset /\ period_counter = 0
  /\ reexecute = FALSE /\ periodicActorActive = TRUE
  /\ active = TRUE
  /\ ready \in BOOLEAN
  /\ request = IF ready THEN notify({}, Offset) ELSE {}
  /\ running = FALSE

Next ==
  \/ CannotFire \/ TooEarly \/ schedule
  \/ SignaledReady \/ SignaledIdle \/ doReset
  \/ \E flag \in BOOLEAN : setActive(flag)
  \/ scheduleRequestMethod \/ Tick

Spec == Init /\ [][Next]_vars

-----------------------------------------------------------------------------
(* An actor with a transition to take has a notification on its way that   *)
(* comes no later than its release time, whatever order of events, resets, *)
(* switchings and too early calls has led here, also when the release time *)
(* passed before the data came and the difference wrapped around.          *)
NoLostRelease ==
  active /\ ready /\ ~running =>
    \E t \in request : t <= getNextReleaseTime

(* Simulated time does not pass while the actor could fire: an enabled     *)
(* transition is taken at the release time, a late one at once.            *)
Punctual ==
  [][ now' # now => ~(active /\ ready /\ getNextReleaseTime <= now) ]_vars

(* A firing that neither the action before asked for nor a stopped period  *)
(* allows never comes before its release time, and the next release time   *)
(* lies ahead of it, in a later period.                                    *)
Fires == running /\ running' /\ active /\ ready

OncePerPeriod ==
  [][ Fires => /\ reexecute \/ ~periodicActorActive \/ nextReleaseTime <= now
               /\ ~reexecute' /\ periodicActorActive'
                    => nextReleaseTime' > now /\ period_counter' > period_counter ]_vars
=============================================================================
