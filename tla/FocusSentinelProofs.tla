------------------------- MODULE FocusSentinelProofs -------------------------
(* Type correctness of FocusSentinel, and that the flags which pause the       *)
(* tracking worker are never left behind by the scans that raised them.        *)
(* PausedOnlyForLiveScan is inductive together with TypeOK.                    *)
EXTENDS FocusSentinel, TLAPS

(* Every limit of an age is a natural number.                                  *)
LEMMA CapsNat == \A n \in DOMAIN caps : caps[n] \in Nat
  BY LimitsAssumption DEF caps

(* Every step but Tick leaves a stamp alone, starts it anew or forgets it.     *)
LEMMA Restamped ==
  ASSUME NEW a \in Ages, NEW b,
         b = [n \in DOMAIN caps |-> b[n]], \A n \in DOMAIN caps : b[n] \in {a[n], 0, Unset}
  PROVE  b \in Ages
<1>1. \A n \in DOMAIN caps : b[n] \in Unset..caps[n] /\ b[n] \in Int
  BY CapsNat DEF Unset, Ages
<1>2. b \in [DOMAIN caps -> Int]
  BY <1>1
<1>. QED BY <1>1, <1>2 DEF Ages

(* The initial ages.                                                           *)
LEMMA NoAges == [n \in DOMAIN caps |-> Unset] \in Ages
  BY CapsNat DEF Unset, Ages

(* The names of the stamps.                                                    *)
LEMMA AgeNames == DOMAIN caps = {"lost", "locked", "person", "stale", "scan"}
  BY DEF caps

(* The inductive invariant.                                                    *)
IInv == TypeOK /\ PausedOnlyForLiveScan

LEMMA Initially == Init => IInv
<1>. SUFFICES ASSUME Init PROVE IInv
  OBVIOUS
<1>1. age \in Ages
  BY NoAges DEF Init
<1>2. TypeOK
  BY <1>1 DEF Init, TypeOK, Results, NoResult
<1>3. PausedOnlyForLiveScan
  BY DEF Init, PausedOnlyForLiveScan
<1>. QED BY <1>2, <1>3 DEF IInv

-----------------------------------------------------------------------------
(* Steps that more than one action takes.                                      *)

(* The expiry takes the flags down with the result it writes.                  *)
LEMMA ExpireKeeps ==
  ASSUME IInv, Expire, UNCHANGED <<scan, small>>
  PROVE  /\ active' \in Scans \union {NoScan} /\ cancel' \in BOOLEAN /\ result' \in Results
         /\ outdated' \subseteq Stamps /\ age' \in Ages
         /\ PausedOnlyForLiveScan'
<1>1. [age EXCEPT !.scan = Unset] \in Ages
  BY Restamped, AgeNames DEF IInv, TypeOK, Ages
<1>2. CASE Overdue
  BY <1>1, <1>2 DEF IInv, TypeOK, PausedOnlyForLiveScan, Expire, Results, ResultDatedAs, Stamps, small
<1>3. CASE ~Overdue
  BY <1>3 DEF IInv, TypeOK, PausedOnlyForLiveScan, Expire, small
<1>. QED BY <1>2, <1>3

(* The way out of an absence leaves the flags of the scans alone.              *)
LEMMA ReacquireKeeps ==
  ASSUME IInv, NEW w \in Workers, NEW a \in Ages, worker[w] = "loop", Reacquire(w, a)
  PROVE  /\ worker' \in [Workers -> {"done", "loop", "trigger", "away"}]
         /\ active' = active /\ cancel' = cancel /\ result' \in Results
         /\ outdated' \subseteq Stamps /\ warned' \in BOOLEAN /\ age' \in Ages
  BY DEF IInv, TypeOK, Reacquire, Goes, Results, NoResult, Stamps

-----------------------------------------------------------------------------
(* Every action keeps the inductive invariant.                                 *)

LEMMA TickKeeps == IInv /\ Tick => IInv'
<1>. SUFFICES ASSUME IInv, Tick PROVE IInv'
  OBVIOUS
<1>1. age' \in Ages
  BY CapsNat DEF IInv, TypeOK, Tick, Ages, Unset
<1>. QED BY <1>1 DEF IInv, TypeOK, PausedOnlyForLiveScan, Tick, life, sweep, small

LEMMA StartKeeps == IInv /\ Start => IInv'
<1>. SUFFICES ASSUME IInv, Start PROVE IInv'
  OBVIOUS
<1>1. age' \in Ages
  BY NoAges DEF Start
<1>2. outdated' \subseteq Stamps /\ result' \in Results
  BY DEF Start, Stamps, Results, NoResult
<1>3. worker' \in [Workers -> {"done", "loop", "trigger", "away"}]
  BY DEF IInv, TypeOK, Start, StartWorker
<1>4. running' \in BOOLEAN /\ sentinel' \in BOOLEAN
  BY DEF Start, StartSentinel
<1>. QED BY <1>1, <1>2, <1>3, <1>4 DEF IInv, TypeOK, PausedOnlyForLiveScan, Start

LEMMA StopKeeps == IInv /\ Stop => IInv'
<1>. SUFFICES ASSUME IInv, Stop PROVE IInv'
  OBVIOUS
<1>1. /\ running' \in BOOLEAN /\ stop' \in BOOLEAN
      /\ UNCHANGED <<worker, sentinel, sweep, small, outdated, warned, age>>
  BY DEF Stop
<1>. QED BY <1>1 DEF IInv, TypeOK, PausedOnlyForLiveScan, sweep, small

LEMMA WorkerKeepsInv ==
  ASSUME IInv, NEW w \in Workers, WorkerStep(w)
  PROVE  IInv'
<1>1. CASE Probe(w)
  <2>1. CASE Expire
    BY <1>1, <2>1, ExpireKeeps DEF IInv, TypeOK, Probe, WorkerKeeps, life, small
  <2>2. CASE ~Expire
    <3>1. [age EXCEPT !.scan = Unset] \in Ages
      BY Restamped, AgeNames DEF IInv, TypeOK, Ages
    <3>2. active' = NoScan /\ cancel' = TRUE /\ result' = NoResult
          /\ outdated' = outdated \union {Result} /\ age' \in Ages
      BY <1>1, <2>2, <3>1 DEF Probe
    <3>. QED BY <1>1, <3>2 DEF IInv, TypeOK, PausedOnlyForLiveScan, Probe, WorkerKeeps,
                               Results, NoResult, Stamps, life, small
  <2>. QED BY <2>1, <2>2
<1>2. CASE FaceLocked(w)
  <2>. DEFINE seen == [age EXCEPT !.lost = Unset, !.stale = Unset, !.person = 0]
  <2>a. seen \in Ages
    BY Restamped, AgeNames DEF IInv, TypeOK, Ages
  <2>b. [seen EXCEPT !.locked = IF @ = Unset THEN 0 ELSE @] \in Ages
    BY <2>a, Restamped, AgeNames DEF Ages
  <2>1. age' \in Ages
    BY <1>2, <2>b DEF FaceLocked
  <2>2. warned' \in BOOLEAN /\ result' \in Results
    BY <1>2 DEF IInv, TypeOK, FaceLocked, Results, NoResult
  <2>. QED BY <1>2, <2>1, <2>2 DEF IInv, TypeOK, PausedOnlyForLiveScan, FaceLocked, WorkerKeeps, life, small
<1>3. CASE StaleFrame(w)
  <2>. DEFINE held == [age EXCEPT !.stale = IF @ = Unset THEN 0 ELSE @]
              lost == [held EXCEPT !.lost = IF @ = Unset THEN 0 ELSE @]
  <2>1. held \in Ages
    BY Restamped, AgeNames DEF IInv, TypeOK, Ages
  <2>2. lost \in Ages
    BY <2>1, Restamped, AgeNames DEF Ages
  <2>3. CASE held.stale < StaleHold
    BY <1>3, <2>1, <2>3 DEF IInv, TypeOK, PausedOnlyForLiveScan, StaleFrame, WorkerKeeps, life, small
  <2>4. CASE ~(held.stale < StaleHold)
    <3>1. worker[w] = "loop" /\ Reacquire(w, lost) /\ WorkerKeeps
      BY <1>3, <2>4 DEF StaleFrame, Watches
    <3>. HIDE DEF lost
    <3>. QED BY <3>1, <2>2, ReacquireKeeps DEF IInv, TypeOK, PausedOnlyForLiveScan, WorkerKeeps, life, small
  <2>. QED BY <2>3, <2>4
<1>4. CASE FaceAbsent(w)
  <2>. DEFINE seen == [age EXCEPT !.locked = Unset, !.stale = Unset]
              lost == [seen EXCEPT !.lost = IF @ = Unset THEN 0 ELSE @]
  <2>1. seen \in Ages
    BY Restamped, AgeNames DEF IInv, TypeOK, Ages
  <2>2. lost \in Ages
    BY <2>1, Restamped, AgeNames DEF Ages
  <2>3. \/ /\ age' \in {seen, lost}
           /\ UNCHANGED <<worker, active, cancel, result, outdated, warned>>
        \/ worker[w] = "loop" /\ Reacquire(w, lost)
    BY <1>4 DEF FaceAbsent, Watches
  <2>4. WorkerKeeps
    BY <1>4 DEF FaceAbsent
  <2>. HIDE DEF seen, lost
  <2>5. CASE age' \in {seen, lost} /\ UNCHANGED <<worker, active, cancel, result, outdated, warned>>
    BY <2>1, <2>2, <2>4, <2>5 DEF IInv, TypeOK, PausedOnlyForLiveScan, WorkerKeeps, life, small
  <2>6. CASE worker[w] = "loop" /\ Reacquire(w, lost)
    BY <2>2, <2>4, <2>6, ReacquireKeeps DEF IInv, TypeOK, PausedOnlyForLiveScan, WorkerKeeps, life, small
  <2>. QED BY <2>3, <2>5, <2>6
<1>5. CASE Trigger(w)
  <2>. DEFINE new == CHOOSE s \in {s \in Scans : scan[s] = "idle"} : TRUE
  <2>1. /\ new \in Scans /\ scan' = [scan EXCEPT ![new] = "sweep"] /\ active' = new
        /\ outdated' = (IF w \in outdated THEN outdated ELSE outdated \ {new}) \union {w}
    BY <1>5 DEF Trigger
  <2>. HIDE DEF new
  <2>2. age' \in Ages
    BY <1>5, Restamped, AgeNames DEF IInv, TypeOK, Trigger, Ages
  <2>3. outdated' \subseteq Stamps
    BY <2>1 DEF IInv, TypeOK, Stamps
  <2>4. /\ worker' = [worker EXCEPT ![w] = "loop"] /\ cancel' = FALSE
        /\ UNCHANGED <<life, sentinel, result, small, warned>>
    BY <1>5 DEF Trigger, Goes
  <2>. QED BY <2>1, <2>2, <2>3, <2>4 DEF IInv, TypeOK, PausedOnlyForLiveScan, life, small
<1>6. CASE Spoken(w)
  BY <1>6 DEF IInv, TypeOK, PausedOnlyForLiveScan, Spoken, Goes, WorkerKeeps, life, small
<1>. QED BY <1>1, <1>2, <1>3, <1>4, <1>5, <1>6 DEF WorkerStep

LEMMA SentinelKeepsInv ==
  ASSUME IInv, SentinelStep
  PROVE  IInv'
<1>1. CASE TickStep
  <2>1. age' \in Ages
    BY <1>1, Restamped, AgeNames DEF IInv, TypeOK, TickStep, Ages
  <2>2. outdated' \subseteq Stamps
    BY <1>1 DEF IInv, TypeOK, TickStep
  <2>3. /\ micro' \subseteq Micros /\ microState' \in {"idle", "scanning", "over"}
        /\ microState' = "scanning" => micro' # {}
    BY <1>1 DEF IInv, TypeOK, PausedOnlyForLiveScan, TickStep, DerivedState, small
  <2>. QED BY <1>1, <2>1, <2>2, <2>3 DEF IInv, TypeOK, PausedOnlyForLiveScan, TickStep, SentinelKeeps
<1>2. CASE CheckScans
  BY <1>2, ExpireKeeps DEF IInv, TypeOK, CheckScans, SentinelKeeps, small
<1>. QED BY <1>1, <1>2 DEF SentinelStep

LEMMA ScanKeepsInv ==
  ASSUME IInv, NEW s \in Scans, ScanStep(s)
  PROVE  IInv'
<1>1. CASE ScanStopped(s)
  BY <1>1 DEF IInv, TypeOK, PausedOnlyForLiveScan, ScanStopped, ScanKeeps, life, small
<1>2. CASE ScanPublish(s)
  <2>1. age' \in Ages
    BY <1>2, Restamped, AgeNames DEF IInv, TypeOK, ScanPublish, Ages
  <2>2. outdated' \subseteq Stamps /\ result' \in Results
    BY <1>2 DEF IInv, TypeOK, ScanPublish, ResultDatedAs, Stamps, Results
  <2>. QED BY <1>2, <2>1, <2>2 DEF IInv, TypeOK, PausedOnlyForLiveScan, ScanPublish, ScanKeeps, life, small
<1>3. CASE ScanEnd(s)
  <2>1. age' \in Ages
    BY <1>3, Restamped, AgeNames DEF IInv, TypeOK, ScanEnd, Ages
  <2>2. outdated' \subseteq Stamps
    BY <1>3 DEF IInv, TypeOK, ScanEnd, Stamps
  \* a cancelled scan leaves the flags, but then they are down already
  <2>3. active' = NoScan
    BY <1>3 DEF IInv, PausedOnlyForLiveScan, ScanEnd
  <2>. QED BY <1>3, <2>1, <2>2, <2>3 DEF IInv, TypeOK, PausedOnlyForLiveScan, ScanEnd, ScanKeeps, life, small
<1>. QED BY <1>1, <1>2, <1>3 DEF ScanStep

LEMMA MicroKeepsInv ==
  ASSUME IInv, NEW m \in Micros, MicroEnd(m)
  PROVE  IInv'
<1>1. age' \in Ages
  BY Restamped, AgeNames DEF IInv, TypeOK, MicroEnd, Ages
<1>. QED BY <1>1 DEF IInv, TypeOK, PausedOnlyForLiveScan, MicroEnd, MicroKeeps, life, sweep

LEMMA Inductive == IInv /\ [Next]_vars => IInv'
<1>1. IInv /\ Next => IInv'
  BY TickKeeps, StartKeeps, StopKeeps, WorkerKeepsInv, SentinelKeepsInv, ScanKeepsInv, MicroKeepsInv DEF Next
<1>2. IInv /\ UNCHANGED vars => IInv'
  BY DEF IInv, TypeOK, PausedOnlyForLiveScan, vars
<1>. QED BY <1>1, <1>2

-----------------------------------------------------------------------------
(* The fields keep the values the service gives them, whichever of its threads *)
(* writes them.                                                                *)
THEOREM TypeCorrect == Spec => []TypeOK
<1>1. IInv => TypeOK
  BY DEF IInv
<1>. QED BY <1>1, Initially, Inductive, PTL DEF Spec

(* The worker is never paused for a scan that is over: whatever scans are      *)
(* cancelled, expired or overtaken by later ones, and however often the        *)
(* session ends and begins, the flags name a thread that will lower them.      *)
THEOREM NeverPausedForNothing == Spec => []PausedOnlyForLiveScan
<1>1. IInv => PausedOnlyForLiveScan
  BY DEF IInv
<1>. QED BY <1>1, Initially, Inductive, PTL DEF Spec

===============================================================================
