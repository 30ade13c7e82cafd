--------------------------- MODULE AudioCoordinator ---------------------------
(***************************************************************************)
(* modules/devices/audio/coordination.py, class AudioCoordinator: the      *)
(* half-duplex shield between what the assistant says and what the         *)
(* microphone may be used for.                                             *)
(*                                                                         *)
(* Any thread may open an output (begin_assistant_output), close it        *)
(* (end_assistant_output) or take a manual hold.  The body of each method  *)
(* runs under self._lock, so one method is one action; the exception is    *)
(* end_assistant_output, which reads the clock before it takes the lock    *)
(* and is therefore two actions.  The same early reading in the other      *)
(* methods (begin, force, input_blocked) is folded into their action.      *)
(***************************************************************************)
EXTENDS Integers

CONSTANTS
  Outputs,      \* tokens of assistant outputs: uuid4, so each is used once
  HoldTokens,   \* tokens of manual holds, each used once
  HoldSeconds,  \* the hold lengths callers ask for, in clock ticks, before max(0, _)
  MaxNow        \* bound of the monotonic clock

ASSUME HoldsAssumption == HoldSeconds \subseteq Int
ASSUME ClockAssumption == MaxNow \in Nat

VARIABLES
  now,            \* time.monotonic()
  phase,          \* per output: where its thread is in begin ... end
  endNow,         \* per output: the clock value end_assistant_output read
  endHold,        \* per output: the effective_hold it was ended with
  activeOutputs,  \* keys of self._active_outputs
  manualHolds,    \* keys of self._manual_holds
  holdUntil,      \* per manual hold: its "until"
  blockedUntil,   \* self._snapshot.blocked_until_monotonic
  owed            \* history: the deadlines promised since the last reset

vars == <<now, phase, endNow, endHold, activeOutputs, manualHolds, holdUntil,
          blockedUntil, owed>>

TypeOK ==
  /\ now \in 0 .. MaxNow
  /\ phase \in [Outputs -> {"idle", "playing", "ending", "ended"}]
  /\ endNow \in [Outputs -> Nat]
  /\ endHold \in [Outputs -> Nat]
  /\ activeOutputs \subseteq Outputs
  /\ manualHolds \subseteq HoldTokens
  /\ holdUntil \in [HoldTokens -> Int]
  /\ blockedUntil \in Nat
  /\ owed \subseteq Nat

Init ==
  /\ now = 0
  /\ phase = [o \in Outputs |-> "idle"]
  /\ endNow = [o \in Outputs |-> 0]
  /\ endHold = [o \in Outputs |-> 0]
  /\ activeOutputs = {}
  /\ manualHolds = {}
  /\ holdUntil = [h \in HoldTokens |-> -1]
  /\ blockedUntil = 0
  /\ owed = {}

Later(a, b) == IF a >= b THEN a ELSE b

\* effective_hold: max(0.0, float(hold_seconds)).
EffectiveHold(hold) == Later(0, hold)

(***************************************************************************)
(* What input_blocked() answers at the current time.  The expired holds it *)
(* drops first (_clear_expired_holds_locked) are exactly those that cannot *)
(* block any more; dropping them is the action InputBlockedCall.           *)
(***************************************************************************)
UnexpiredHolds == {h \in manualHolds : holdUntil[h] > now}

InputBlocked ==
  \/ activeOutputs # {}
  \/ \E h \in UnexpiredHolds : now < holdUntil[h]
  \/ now < blockedUntil

-----------------------------------------------------------------------------
Tick ==
  /\ now < MaxNow
  /\ now' = now + 1
  /\ UNCHANGED <<phase, endNow, endHold, activeOutputs, manualHolds, holdUntil,
                 blockedUntil, owed>>

BeginAssistantOutput(o) ==
  /\ phase[o] = "idle"
  /\ phase' = [phase EXCEPT ![o] = "playing"]
  /\ activeOutputs' = activeOutputs \union {o}
  /\ UNCHANGED <<now, endNow, endHold, manualHolds, holdUntil, blockedUntil, owed>>

\* end_assistant_output up to the lock: "now" and effective_hold are fixed here.
EndReadClock(o) ==
  /\ phase[o] = "playing"
  /\ phase' = [phase EXCEPT ![o] = "ending"]
  /\ endNow' = [endNow EXCEPT ![o] = now]
  /\ \E hold \in HoldSeconds :
       endHold' = [endHold EXCEPT ![o] = EffectiveHold(hold)]
  /\ UNCHANGED <<now, activeOutputs, manualHolds, holdUntil, blockedUntil, owed>>

\* A plausible bug: the last deadline wins instead of the latest one.
EndAssistantOutputNoMax(o) ==
  /\ phase[o] = "ending"
  /\ phase' = [phase EXCEPT ![o] = "ended"]
  /\ activeOutputs' = activeOutputs \ {o}
  /\ IF o \in activeOutputs /\ activeOutputs = {o}
       THEN /\ blockedUntil' = endNow[o] + endHold[o]
            /\ owed' = owed \union {endNow[o] + endHold[o]}
       ELSE UNCHANGED <<blockedUntil, owed>>
  /\ UNCHANGED <<now, endNow, endHold, manualHolds, holdUntil>>

\* end_assistant_output under the lock.  A token that reset() has dropped is
\* ignored; only the output that leaves no other active sets the hold.
EndAssistantOutput(o) ==
  /\ phase[o] = "ending"
  /\ phase' = [phase EXCEPT ![o] = "ended"]
  /\ activeOutputs' = activeOutputs \ {o}
  /\ IF o \in activeOutputs /\ activeOutputs = {o}
       THEN /\ blockedUntil' = Later(blockedUntil, endNow[o] + endHold[o])
            /\ owed' = owed \union {endNow[o] + endHold[o]}
       ELSE UNCHANGED <<blockedUntil, owed>>
  /\ UNCHANGED <<now, endNow, endHold, manualHolds, holdUntil>>

\* The deadline goes both into the hold and into blocked_until_monotonic.
ForceInputHold(h) ==
  /\ holdUntil[h] = -1
  /\ \E hold \in HoldSeconds :
       /\ holdUntil' = [holdUntil EXCEPT ![h] = now + EffectiveHold(hold)]
       /\ blockedUntil' = Later(blockedUntil, now + EffectiveHold(hold))
       /\ owed' = owed \union {now + EffectiveHold(hold)}
  /\ manualHolds' = manualHolds \union {h}
  /\ UNCHANGED <<now, phase, endNow, endHold, activeOutputs>>

\* Forgets the hold; blocked_until_monotonic keeps the deadline it raised.
ReleaseInputHold(h) ==
  /\ h \in manualHolds
  /\ manualHolds' = manualHolds \ {h}
  /\ UNCHANGED <<now, phase, endNow, endHold, activeOutputs, holdUntil,
                 blockedUntil, owed>>

\* input_blocked, time_until_input_unblocked and clear_expired_holds: the only
\* change they make is to drop the expired holds.
InputBlockedCall ==
  /\ manualHolds' = UnexpiredHolds
  /\ UNCHANGED <<now, phase, endNow, endHold, activeOutputs, holdUntil,
                 blockedUntil, owed>>

Reset ==
  /\ activeOutputs' = {}
  /\ manualHolds' = {}
  /\ blockedUntil' = 0
  /\ owed' = {}
  /\ UNCHANGED <<now, phase, endNow, endHold, holdUntil>>

NextNoReset ==
  \/ Tick
  \/ \E o \in Outputs :
       \/ BeginAssistantOutput(o)
       \/ EndReadClock(o)
       \/ EndAssistantOutput(o)
  \/ \E h \in HoldTokens : ForceInputHold(h) \/ ReleaseInputHold(h)
  \/ InputBlockedCall

Next == NextNoReset \/ Reset

Spec == Init /\ [][Next]_vars

\* No thread of the program calls reset() while the assistant runs.
SpecNoReset == Init /\ [][NextNoReset]_vars

-----------------------------------------------------------------------------
\* The shield is up for exactly as long as it must be: input_blocked() answers
\* True if and only if some output is open or a promised deadline (the hold of
\* the output that closed last, or a manual hold, since the last reset) is in
\* the future.  Neither a later, shorter hold nor an expired or released one
\* lowers it early, and nothing keeps it up when the last deadline has passed.
ShieldExact ==
  InputBlocked <=> (activeOutputs # {} \/ \E d \in owed : now < d)

\* The shield comes down at a tick of the clock.  The only calls that bring it
\* down at once are reset() and the end of the last open output when no hold is
\* left; begin, force, release, and the queries never do.
OnlyLastEndOpens ==
  [][InputBlocked /\ now' = now /\ ~InputBlocked'
       => \/ \E o \in Outputs : activeOutputs = {o} /\ activeOutputs' = {}
          \/ activeOutputs' = {} /\ manualHolds' = {} /\ blockedUntil' = 0]_vars

\* The promise of the class comment, "keep a short post-speech hold to reduce
\* self-hearing", for every output: until hold seconds after it ended, input is
\* blocked.  Checked under SpecNoReset, since reset() drops holds on purpose.
EveryOutputKeepsItsHold ==
  \A o \in Outputs :
    phase[o] = "ended" /\ now < endNow[o] + endHold[o] => InputBlocked
=============================================================================
