------------------------ MODULE AudioCoordinatorProofs ------------------------
(***************************************************************************)
(* The shield of AudioCoordinator, for any number of outputs and manual    *)
(* holds, any hold lengths and any run of the clock.  The argument rests   *)
(* on one fact the code never states: blocked_until_monotonic is the       *)
(* maximum of all deadlines promised since the last reset, so the table of *)
(* manual holds adds nothing to it.                                        *)
(***************************************************************************)
EXTENDS AudioCoordinator, TLAPS

\* blocked_until_monotonic is a promised deadline, no promise is beyond it, and
\* it covers every manual hold.
BlockedUntilIsLatest ==
  /\ blockedUntil \in owed \union {0}
  /\ \A d \in owed : d <= blockedUntil
  /\ \A h \in manualHolds : holdUntil[h] <= blockedUntil

IInv == TypeOK /\ BlockedUntilIsLatest

\* The two helpers on numbers stay in Nat and bound their arguments.
LEMMA LaterBounds ==
  ASSUME NEW a \in Int, NEW b \in Int
  PROVE  /\ Later(a, b) \in {a, b}
         /\ a <= Later(a, b)
         /\ b <= Later(a, b)
  BY DEF Later

LEMMA EffectiveHoldNat ==
  ASSUME NEW hold \in HoldSeconds
  PROVE  EffectiveHold(hold) \in Nat
  BY HoldsAssumption DEF EffectiveHold, Later

-----------------------------------------------------------------------------
LEMMA InitIInv == Init => IInv
  BY ClockAssumption
     DEF Init, IInv, TypeOK, BlockedUntilIsLatest

LEMMA NextIInv == IInv /\ [Next]_vars => IInv'
<1> SUFFICES ASSUME IInv, [Next]_vars PROVE IInv'
  OBVIOUS
<1> USE DEF IInv, TypeOK, BlockedUntilIsLatest
<1>1. CASE Tick
  BY <1>1, ClockAssumption DEF Tick
<1>2. ASSUME NEW o \in Outputs, BeginAssistantOutput(o) PROVE IInv'
  BY <1>2 DEF BeginAssistantOutput
<1>3. ASSUME NEW o \in Outputs, EndReadClock(o) PROVE IInv'
  <2>1. PICK hold \in HoldSeconds :
          endHold' = [endHold EXCEPT ![o] = EffectiveHold(hold)]
    BY <1>3 DEF EndReadClock
  <2>2. EffectiveHold(hold) \in Nat
    BY EffectiveHoldNat
  <2>3. endHold' \in [Outputs -> Nat]
    BY <2>1, <2>2
  <2>4. QED BY <1>3, <2>3 DEF EndReadClock
<1>4. ASSUME NEW o \in Outputs, EndAssistantOutput(o) PROVE IInv'
  <2> DEFINE deadline == endNow[o] + endHold[o]
  <2>1. deadline \in Nat
    OBVIOUS
  <2>2. CASE activeOutputs = {o}
    <3>1. /\ blockedUntil' = Later(blockedUntil, deadline)
          /\ owed' = owed \union {deadline}
      BY <1>4, <2>2 DEF EndAssistantOutput
    <3>2. /\ blockedUntil' \in {blockedUntil, deadline}
          /\ blockedUntil <= blockedUntil'
          /\ deadline <= blockedUntil'
      BY <2>1, <3>1, LaterBounds
    <3> HIDE DEF deadline
    <3>3. BlockedUntilIsLatest'
      BY <1>4, <2>1, <3>1, <3>2 DEF EndAssistantOutput
    <3>4. QED BY <1>4, <2>1, <2>2, <3>1, <3>2, <3>3 DEF EndAssistantOutput
  <2>3. CASE activeOutputs # {o}
    BY <1>4, <2>3 DEF EndAssistantOutput
  <2>4. QED BY <2>2, <2>3
<1>5. ASSUME NEW h \in HoldTokens, ForceInputHold(h) PROVE IInv'
  <2>1. PICK hold \in HoldSeconds :
          /\ holdUntil' = [holdUntil EXCEPT ![h] = now + EffectiveHold(hold)]
          /\ blockedUntil' = Later(blockedUntil, now + EffectiveHold(hold))
          /\ owed' = owed \union {now + EffectiveHold(hold)}
    BY <1>5 DEF ForceInputHold
  <2> DEFINE deadline == now + EffectiveHold(hold)
  <2>2. deadline \in Nat
    BY EffectiveHoldNat, ClockAssumption
  <2>3. /\ blockedUntil' \in {blockedUntil, deadline}
        /\ blockedUntil <= blockedUntil'
        /\ deadline <= blockedUntil'
    BY <2>1, <2>2, LaterBounds
  <2>4. /\ holdUntil' = [holdUntil EXCEPT ![h] = deadline]
        /\ owed' = owed \union {deadline}
    BY <2>1
  <2> HIDE DEF deadline
  <2>5. BlockedUntilIsLatest'
    BY <1>5, <2>2, <2>3, <2>4 DEF ForceInputHold
  <2>6. TypeOK'
    <3>1. holdUntil' \in [HoldTokens -> Int] /\ blockedUntil' \in Nat
      BY <2>2, <2>3, <2>4
    <3>2. QED BY <1>5, <2>2, <2>4, <3>1 DEF ForceInputHold
  <2>7. QED BY <2>5, <2>6
<1>6. ASSUME NEW h \in HoldTokens, ReleaseInputHold(h) PROVE IInv'
  BY <1>6 DEF ReleaseInputHold
<1>7. CASE InputBlockedCall
  BY <1>7 DEF InputBlockedCall, UnexpiredHolds
<1>8. CASE Reset
  BY <1>8 DEF Reset
<1>9. CASE UNCHANGED vars
  BY <1>9 DEF vars
<1>10. QED
  BY <1>1, <1>2, <1>3, <1>4, <1>5, <1>6, <1>7, <1>8, <1>9
     DEF Next, NextNoReset

\* The inductive invariant holds in every reachable state.
THEOREM Invariant == Spec => []IInv
  BY InitIInv, NextIInv, PTL DEF Spec

\* Type correctness of the coordinator's state.
THEOREM TypeCorrect == Spec => []TypeOK
<1>1. IInv => TypeOK
  BY DEF IInv
<1>2. QED BY <1>1, Invariant, PTL

\* input_blocked() could be computed without the table of manual holds.
LEMMA BlockedByDeadline ==
  IInv => (InputBlocked <=> (activeOutputs # {} \/ now < blockedUntil))
  BY DEF IInv, TypeOK, BlockedUntilIsLatest, InputBlocked, UnexpiredHolds

\* The shield is up exactly while an output is open or a promised deadline is in
\* the future, whatever calls were made in whatever order.
THEOREM ShieldIsExact == Spec => []ShieldExact
<1>1. IInv => ShieldExact
  <2> SUFFICES ASSUME IInv PROVE ShieldExact
    OBVIOUS
  <2>1. now < blockedUntil <=> \E d \in owed : now < d
    BY DEF IInv, TypeOK, BlockedUntilIsLatest
  <2>2. QED BY <2>1, BlockedByDeadline DEF ShieldExact
<1>2. QED BY <1>1, Invariant, PTL

\* Only the end of the last open output, or reset(), brings the shield down
\* between two ticks of the clock.
THEOREM OnlyLastEndOpensShield == Spec => OnlyLastEndOpens
<1> DEFINE Opened == InputBlocked /\ now' = now /\ ~InputBlocked'
           Allowed == \/ \E o \in Outputs : activeOutputs = {o} /\ activeOutputs' = {}
                      \/ activeOutputs' = {} /\ manualHolds' = {} /\ blockedUntil' = 0
<1>1. IInv /\ IInv' /\ [Next]_vars => [Opened => Allowed]_vars
  <2> SUFFICES ASSUME IInv, IInv', [Next]_vars, Opened PROVE Allowed
    OBVIOUS
  <2>1. activeOutputs # {} \/ now < blockedUntil
    BY BlockedByDeadline
  <2>2. activeOutputs' = {} /\ ~(now < blockedUntil')
    BY DEF InputBlocked
  <2>3. now \in Int /\ blockedUntil \in Int
    BY DEF IInv, TypeOK
  <2>4. CASE Tick
    BY <2>3, <2>4 DEF Tick
  <2>5. ASSUME NEW o \in Outputs, BeginAssistantOutput(o) PROVE Allowed
    BY <2>2, <2>5 DEF BeginAssistantOutput
  <2>6. ASSUME NEW o \in Outputs, EndReadClock(o) PROVE Allowed
    BY <2>1, <2>2, <2>6 DEF EndReadClock
  <2>7. ASSUME NEW o \in Outputs, EndAssistantOutput(o) PROVE Allowed
    <3>1. CASE activeOutputs = {o}
      BY <2>2, <3>1
    <3>2. CASE activeOutputs # {o}
      <4>1. activeOutputs' = activeOutputs \ {o} /\ blockedUntil' = blockedUntil
        BY <2>7, <3>2 DEF EndAssistantOutput
      <4>2. QED BY <2>1, <2>2, <3>2, <4>1
    <3>3. QED BY <3>1, <3>2
  <2>8. ASSUME NEW h \in HoldTokens, ForceInputHold(h) PROVE Allowed
    <3>1. PICK hold \in HoldSeconds :
            blockedUntil' = Later(blockedUntil, now + EffectiveHold(hold))
      BY <2>8 DEF ForceInputHold
    <3>2. blockedUntil <= blockedUntil'
      BY <2>3, <3>1, EffectiveHoldNat, LaterBounds
    <3>3. blockedUntil' \in Int
      BY DEF IInv, TypeOK
    <3>4. QED BY <2>1, <2>2, <2>3, <2>8, <3>2, <3>3 DEF ForceInputHold
  <2>9. ASSUME NEW h \in HoldTokens, ReleaseInputHold(h) PROVE Allowed
    BY <2>1, <2>2, <2>9 DEF ReleaseInputHold
  <2>10. CASE InputBlockedCall
    BY <2>1, <2>2, <2>10 DEF InputBlockedCall
  <2>11. CASE Reset
    BY <2>11 DEF Reset
  <2>12. CASE UNCHANGED vars
    BY <2>1, <2>2, <2>12 DEF vars
  <2>13. QED
    BY <2>4, <2>5, <2>6, <2>7, <2>8, <2>9, <2>10, <2>11, <2>12
       DEF Next, NextNoReset
<1>2. QED BY <1>1, Invariant, PTL DEF Spec, OnlyLastEndOpens
=============================================================================
