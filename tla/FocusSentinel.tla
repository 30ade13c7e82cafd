---------------------------- MODULE FocusSentinel ----------------------------
(***************************************************************************)
(* modules/features/focus_vision/service.py: the Focus Vision sentinel     *)
(* while a focus timer runs.  Four kinds of thread share its fields: the   *)
(* sentinel loop (tick), the tracking worker, the thread of a focus scan   *)
(* and the thread of a micro-scan; the timer's callback starts and stops   *)
(* it (FocusTimer models what happens when two callbacks overlap; here one *)
(* caller at a time starts or stops).  The joins of stop() are timed: a    *)
(* thread that speaks a reminder outlives them, and if start() clears the  *)
(* stop event before it looks, it runs on beside the threads of the new    *)
(* session.  Settings as deployed: continuous tracking, active monitoring  *)
(* and the pan-tilt scan on, periodic scans off, so that every scan is an  *)
(* "away_recheck" started by the worker.                                   *)
(*                                                                         *)
(* Time.  A `since' stamp is an age that grows with Tick up to the limit   *)
(* the code compares it with.  Where the code compares two stamps          *)
(* (triggered_at with last_person_evidence_at), `outdated' holds the       *)
(* stamps that a person was seen after.                                    *)
(*                                                                         *)
(* Left open: what the camera shows at a read, whether the reminder policy *)
(* grants a reminder (its cooldown and its count of warnings), how long    *)
(* speech takes, whether the hardware moved.  A reminder spoken at the end *)
(* of a tick, or about a phone by the worker, changes nothing: its thread  *)
(* stays where it is, in its loop, for as long as it takes, the joins and  *)
(* a new start() included.  The points of a sweep and the cancel checks    *)
(* between them are one phase, which may end at any time, with a face seen *)
(* or not.  The expiry check of the sentinel loop may come between any two *)
(* ticks, which allows more orders than the loop.                          *)
(***************************************************************************)
EXTENDS Integers, FiniteSets

CONSTANTS
  Workers,      \* bound: tracking threads alive at once
  Scans,        \* bound: focus scan threads alive at once
  Threads,      \* bound: tracking and focus scan threads alive at once, together
  Micros,       \* bound: micro-scan threads alive at once
  Debounce,     \* face_lost_debounce_seconds
  StaleHold,    \* face_stale_hold_max_seconds
  ScanTimeout   \* away_scan_max_duration_seconds

ASSUME LimitsAssumption ==
  /\ Threads \in Nat
  /\ Debounce \in Nat
  /\ StaleHold \in Nat
  /\ ScanTimeout \in Nat

NoScan == "no scan"
Result == "result"   \* the stamp of _last_focus_scan_result
ASSUME NamesAssumption ==
  /\ NoScan \notin Scans
  /\ Workers \intersect Scans = {} /\ Result \notin Workers \union Scans

VARIABLES
  running,    \* _running
  stop,       \* _stop_event
  worker,     \* per tracking thread: where it is
  sentinel,   \* whether sentinel threads run: without state, several do what one does
  scan,       \* per focus scan thread: where it is
  active,     \* _active_focus_scan_id, NoScan when _focus_scan_running is off
  cancel,     \* _active_focus_scan_cancel_requested
  result,     \* _last_focus_scan_result
  micro,      \* the micro-scan threads that sweep
  microState, \* _micro_scan_state
  outdated,   \* stamps not after the last person evidence
  warned,     \* _away_warned_this_episode
  age         \* ages of the _since stamps, Unset for None

caps == [lost |-> Debounce, locked |-> Debounce, person |-> Debounce,
         stale |-> StaleHold, scan |-> ScanTimeout + 1]
Unset == -1
Ages == {a \in [DOMAIN caps -> Int] : \A n \in DOMAIN caps : a[n] \in Unset..caps[n]}
Stamps == Workers \union Scans \union {Result}

life == <<running, stop>>
sweep == <<scan, active, cancel, result>>
small == <<micro, microState>>
vars == <<running, stop, worker, sentinel, scan, active, cancel, result,
          micro, microState, outdated, warned, age>>

\* What a tick may see: a face or a body, ABSENT, any other state
Views == {"person", "empty", "unclear"}

\* blind: the hardware did not move and the camera did not answer; timeout: expired
NoResult == "none"
Results == {"none", "found", "not found", "blind", "timeout"}

TypeOK ==
  /\ running \in BOOLEAN /\ stop \in BOOLEAN
  /\ worker \in [Workers -> {"done", "loop", "trigger", "away"}]
  /\ sentinel \in BOOLEAN
  /\ scan \in [Scans -> {"idle", "sweep", "end"}]
  /\ active \in Scans \union {NoScan} /\ cancel \in BOOLEAN /\ result \in Results
  /\ micro \subseteq Micros
  /\ microState \in {"idle", "scanning", "over"}
  /\ outdated \subseteq Stamps
  /\ warned \in BOOLEAN
  /\ age \in Ages

Init ==
  /\ running = FALSE /\ stop = FALSE
  /\ worker = [w \in Workers |-> "done"]
  /\ sentinel = FALSE
  /\ scan = [s \in Scans |-> "idle"] /\ active = NoScan /\ cancel = FALSE /\ result = NoResult
  /\ micro = {} /\ microState = "idle"
  /\ outdated = Stamps   \* a stamp of a thread that is not there counts as outdated
  /\ warned = FALSE
  /\ age = [n \in DOMAIN caps |-> Unset]

-----------------------------------------------------------------------------
(* The world.                                                              *)

Tick ==
  /\ age' = [n \in DOMAIN caps |-> IF age[n] \in {Unset, caps[n]} THEN age[n] ELSE age[n] + 1]
  /\ UNCHANGED <<life, worker, sentinel, sweep, small, outdated, warned>>

-----------------------------------------------------------------------------
(* start() and stop().                                                     *)

Alive ==
  Cardinality({w \in Workers : worker[w] # "done"}) +
  Cardinality({s \in Scans : scan[s] # "idle"})

\* A thread that looks at the stop event while it is set leaves; start() clears it, and
\* so decides which threads have looked.  Those that have not, being in a step of theirs
\* or at a reminder, are called back and run on beside the new one.
StartWorker ==
  \E left \in SUBSET {w \in Workers : worker[w] = "loop" /\ stop} :
    LET rest == [w \in Workers |-> IF w \in left THEN "done" ELSE worker[w]]
        free == {w \in Workers : rest[w] = "done"}
    IN  /\ free # {}
        /\ worker' = [rest EXCEPT ![CHOOSE w \in free : TRUE] = "loop"]

\* A sentinel that has looked may come to its finally as late as this: it waits for the
\* lock of start(), to lower _running again.
StartSentinel ==
  /\ sentinel' = TRUE
  /\ \/ running' = TRUE
     \/ stop /\ sentinel /\ running' = FALSE

Start ==
  /\ ~running
  /\ StartWorker /\ StartSentinel
  /\ stop' = FALSE
  /\ active' = NoScan /\ cancel' = FALSE /\ result' = NoResult
  /\ microState' = "idle"
  /\ warned' = FALSE
  /\ age' = [n \in DOMAIN caps |-> Unset]
  \* the accumulator forgets the person: no stamp of a live thread is outdated
  /\ outdated' = {s \in Scans : scan[s] = "idle"} \union
                 {w \in Workers : worker[w] # "trigger"} \union {Result}
  /\ UNCHANGED <<scan, micro>>
  /\ Alive' <= Threads

\* The joins are timed and how they end is not asked: whatever the threads are at, they
\* hold back nobody but the caller, so that stop() is one step.
Stop ==
  /\ ~stop
  /\ stop' = TRUE /\ running' = FALSE
  /\ UNCHANGED <<worker, sentinel, sweep, small, outdated, warned, age>>

-----------------------------------------------------------------------------
(* Operations the threads share.                                           *)

\* A result is as old as the scan it comes from.
ResultDatedAs(s) == IF s \in outdated THEN outdated \union {Result} ELSE outdated \ {Result}

Overdue == active # NoScan /\ age.scan > ScanTimeout

\* _expire_stuck_focus_scan_locked, in a step that lists what else it leaves alone
Expire ==
  IF Overdue
  THEN /\ result' = "timeout"
       /\ outdated' = ResultDatedAs(active)
       /\ active' = NoScan /\ cancel' = FALSE
       /\ age' = [age EXCEPT !.scan = Unset]
  ELSE UNCHANGED <<result, outdated, active, cancel, age>>

Paused == active # NoScan \/ microState = "scanning"

\* _away_soft_due_from_scan
AwayDue == result \in {"not found", "timeout"} /\ Result \notin outdated

\* Mutant: the result of an earlier absence is never cleared.
MayScanOnce == ~Paused /\ result = NoResult

\* The check of _trigger_immediate_away_scan_if_due, behind its expiry
MayScan ==
  /\ ~Paused
  /\ \/ result = NoResult
     \/ Result \in outdated /\ result # "timeout"

-----------------------------------------------------------------------------
(* The tracking worker, _run_tracking_loop and _tracking_worker_step.      *)

Goes(w, pc) == worker' = [worker EXCEPT ![w] = pc]
WorkerKeeps == UNCHANGED <<life, sentinel, scan, small>>

\* The step while a scan runs: a fresh face cancels the scan, to be tracked at once;
\* otherwise the scan may be overdue.  (The read of the flags and what follows are
\* one step.)
Probe(w) ==
  /\ worker[w] = "loop" /\ ~stop /\ running /\ Paused
  /\ \/ active # NoScan   \* a face
        /\ cancel' = TRUE /\ result' = NoResult /\ active' = NoScan
        /\ outdated' = outdated \union {Result}
        /\ age' = [age EXCEPT !.scan = Unset]
     \/ Expire              \* no fresh face
  /\ UNCHANGED <<worker, warned>> /\ WorkerKeeps

Watches(w) == worker[w] = "loop" /\ ~stop /\ running /\ ~Paused

\* Mutant: the lock begins anew with every frame.
LockedAnew == Debounce = 0

StablyLocked == age.locked >= Debounce \/ (age.locked = Unset /\ Debounce = 0)

\* FACE_LOCKED
FaceLocked(w) ==
  /\ Watches(w)
  /\ age' = [age EXCEPT !.lost = Unset, !.stale = Unset, !.person = 0,
                        !.locked = IF @ = Unset THEN 0 ELSE @]
  /\ outdated' = Stamps
  /\ warned' = (warned /\ ~StablyLocked)
  /\ result' = IF StablyLocked THEN NoResult ELSE result
  /\ UNCHANGED <<worker, active, cancel>> /\ WorkerKeeps

\* The end of both branches below: the away reminder when the last scan warrants
\* it, a scan when none has been made.  after is the age record of the branch.
Reacquire(w, after) ==
  \/ /\ AwayDue
     /\ \/ /\ Goes(w, "away") /\ UNCHANGED warned
        \/ /\ Goes(w, "loop") /\ warned' = TRUE      \* not granted
     /\ age' = after
     /\ UNCHANGED <<active, cancel, result, outdated>>
  \/ /\ ~AwayDue /\ MayScan
     /\ Goes(w, "trigger")
     /\ result' = NoResult
     /\ outdated' = (outdated \union {Result}) \ {w}   \* the step's own time stamp
     /\ age' = after
     /\ UNCHANGED <<active, cancel, warned>>
  \/ /\ ~AwayDue /\ ~MayScan
     /\ age' = after
     /\ UNCHANGED <<worker, active, cancel, result, outdated, warned>>

\* STALE_HOLD: a frame too old says nothing, for a while.
StaleFrame(w) ==
  /\ Watches(w)
  /\ LET held == [age EXCEPT !.stale = IF @ = Unset THEN 0 ELSE @]
     IN  IF held.stale < StaleHold
         THEN age' = held /\ UNCHANGED <<worker, active, cancel, result, outdated, warned>>
         ELSE Reacquire(w, [held EXCEPT !.lost = IF @ = Unset THEN 0 ELSE @])
  /\ WorkerKeeps

\* A fresh frame without a face: AWAY_WARNED, the debounce, or reacquisition.
FaceAbsent(w) ==
  /\ Watches(w)
  /\ LET seen == [age EXCEPT !.locked = Unset, !.stale = Unset]
         lost == [seen EXCEPT !.lost = IF @ = Unset THEN 0 ELSE @]
     IN  IF warned THEN age' = seen /\ UNCHANGED <<worker, active, cancel, result, outdated, warned>>
         ELSE IF lost.lost < Debounce /\ lost.person < Debounce /\ result = NoResult
         THEN age' = lost /\ UNCHANGED <<worker, active, cancel, result, outdated, warned>>
         ELSE Reacquire(w, lost)
  /\ WorkerKeeps

\* _trigger_focus_scan: a lock section of its own, after the one of the check
Trigger(w) ==
  /\ worker[w] = "trigger"
  /\ Goes(w, "loop")
  /\ Alive < Threads
  /\ LET free == {s \in Scans : scan[s] = "idle"}
         new == CHOOSE s \in free : TRUE
     IN  /\ free # {}
         /\ scan' = [scan EXCEPT ![new] = "sweep"]
         /\ active' = new
         /\ outdated' = (IF w \in outdated THEN outdated ELSE outdated \ {new}) \union {w}
  /\ cancel' = FALSE
  /\ age' = [age EXCEPT !.scan = 0]
  /\ UNCHANGED <<life, sentinel, result, small, warned>>

\* The reminder's handler returns; only then is the episode marked as warned.
Spoken(w) ==
  /\ worker[w] = "away"
  /\ Goes(w, "loop")
  /\ warned' = TRUE
  /\ UNCHANGED <<active, cancel, result, outdated, age>> /\ WorkerKeeps

WorkerStep(w) ==
  \/ Probe(w) \/ FaceLocked(w) \/ StaleFrame(w)
  \/ FaceAbsent(w) \/ Trigger(w) \/ Spoken(w)

-----------------------------------------------------------------------------
(* The sentinel loop, _run_loop.                                           *)

SentinelKeeps == UNCHANGED <<stop, worker, scan, warned>>

\* _apply_derived_presence_states and _trigger_micro_scan.  Of the micro-scan's state
\* "found" is told apart from "idle" by nothing but the tick that makes it idle.
DerivedState(seen) ==
  \/ seen # "empty" /\ microState' = "idle" /\ UNCHANGED micro
  \/ seen = "empty" /\ UNCHANGED small   \* not for long enough, or a sweep runs or is over
  \/ /\ seen = "empty" /\ microState = "idle" /\ microState' = "scanning"
     /\ Micros # micro /\ micro' = micro \union {CHOOSE m \in Micros : m \notin micro}

\* tick(); a body counts as a person here, for the worker only a face does.
TickStep ==
  /\ sentinel /\ ~stop
  /\ \E seen \in Views :
       /\ DerivedState(seen)
       /\ age' = IF seen = "person" THEN [age EXCEPT !.person = 0] ELSE age
       /\ outdated' = IF seen = "person" THEN Stamps ELSE outdated
  /\ UNCHANGED <<running, sentinel, active, cancel, result>> /\ SentinelKeeps

\* _check_and_trigger_scans: with continuous tracking, only the expiry
CheckScans ==
  /\ sentinel
  /\ Expire
  /\ UNCHANGED <<running, sentinel, small>> /\ SentinelKeeps

SentinelStep ==
  \/ TickStep \/ CheckScans

-----------------------------------------------------------------------------
(* The thread of a focus scan, _run_focus_scan_background.                 *)

ScanKeeps == UNCHANGED <<life, worker, sentinel, small, warned>>

\* Mutant: the first check comes before the try, so its return skips the finally.
ScanStoppedBeforeTry(s) ==
  /\ scan[s] = "sweep" /\ (cancel \/ stop)
  /\ scan' = [scan EXCEPT ![s] = "idle"]
  /\ UNCHANGED <<active, cancel, result, outdated, age>> /\ ScanKeeps

\* _focus_scan_cancelled, whichever scan asks
ScanStopped(s) ==
  /\ scan[s] = "sweep" /\ (cancel \/ stop)
  /\ scan' = [scan EXCEPT ![s] = "end"]
  /\ UNCHANGED <<active, cancel, result, outdated, age>> /\ ScanKeeps

\* The end of a sweep, or an exception in it ("not found"): a face found is person
\* evidence at once, the result is published unless the scan was cancelled.
ScanPublish(s) ==
  /\ scan[s] = "sweep"
  /\ scan' = [scan EXCEPT ![s] = "end"]
  /\ \E found \in BOOLEAN, blind \in BOOLEAN :
       LET outcome == IF found THEN "found" ELSE IF blind THEN "blind" ELSE "not found"
       IN  /\ result' = IF cancel THEN result ELSE outcome
           /\ outdated' = IF found THEN Stamps
                          ELSE IF cancel THEN outdated ELSE ResultDatedAs(s)
           /\ age' = IF found THEN [age EXCEPT !.person = 0] ELSE age
  /\ UNCHANGED <<active, cancel>> /\ ScanKeeps

\* the finally: no scan compares its id with the active one
ScanEnd(s) ==
  /\ scan[s] = "end"
  /\ scan' = [scan EXCEPT ![s] = "idle"]
  /\ active' = IF cancel THEN active ELSE NoScan
  /\ age' = IF cancel THEN age ELSE [age EXCEPT !.scan = Unset]
  /\ cancel' = FALSE
  /\ outdated' = outdated \union {s}
  /\ UNCHANGED result /\ ScanKeeps

ScanStep(s) == ScanStopped(s) \/ ScanPublish(s) \/ ScanEnd(s)

-----------------------------------------------------------------------------
(* The thread of a micro-scan, _run_micro_scan.                            *)

MicroKeeps == UNCHANGED <<life, worker, sentinel, sweep, warned>>

\* Mutant: an exception leaves the thread before it reports.
MicroEndSilently(m) ==
  /\ m \in micro
  /\ micro' = micro \ {m}
  /\ UNCHANGED <<microState, outdated, age>> /\ MicroKeeps

\* Its finally reports what the sweep found, "over" for not_found and for blocked
\* (stopped, nothing moved, or an exception, whatever it saw).
MicroEnd(m) ==
  /\ m \in micro
  /\ micro' = micro \ {m}
  /\ \/ microState' = "over" /\ UNCHANGED <<outdated, age>>
     \/ microState' = "idle" /\ outdated' = Stamps /\ age' = [age EXCEPT !.person = 0]
  /\ MicroKeeps

-----------------------------------------------------------------------------
Next ==
  \/ Tick \/ Start \/ Stop
  \/ \E w \in Workers : WorkerStep(w)
  \/ SentinelStep
  \/ \E s \in Scans : ScanStep(s)
  \/ \E m \in Micros : MicroEnd(m)

\* Threads run, every wait in them is bounded, and time passes.  What the camera
\* shows is nobody's duty: the properties below say what they suppose of it.
Fairness ==
  /\ WF_vars(Tick)
  /\ \A w \in Workers : WF_vars(Trigger(w) \/ Spoken(w))
  /\ \A s \in Scans : WF_vars(ScanStep(s))
  /\ \A m \in Micros : WF_vars(MicroEnd(m))

Spec == Init /\ [][Next]_vars /\ Fairness

-----------------------------------------------------------------------------
(* Properties.                                                             *)

\* The flags that pause the tracking worker name a thread that will lower them:
\* the active scan is alive and not cancelled, whatever older scans, cancellations,
\* time-outs and restarts did to the flags they all share.
PausedOnlyForLiveScan ==
  /\ active # NoScan => scan[active] # "idle" /\ ~cancel
  /\ microState = "scanning" => micro # {}

\* Tracking is never paused for good.
PauseEnds == Paused ~> ~Paused

On == running /\ ~stop

\* A user who stays away is answered: when a session goes on, nobody is seen and no
\* scan is cancelled by a face any more, and some worker goes on reading frames, fresh
\* or stale, it marks the episode as warned, or the last scan could not look, being
\* blind or out of time.  Workers of earlier sessions may be about.
AbsenceAnswered ==
  /\ <>[](On /\ microState # "scanning" /\ age.person # 0 /\ ~cancel)
  /\ WF_vars(\E w \in Workers : FaceAbsent(w) \/ StaleFrame(w))
  => <>(warned \/ result \in {"blind", "timeout"})

\* A user who is back is let go: while some worker keeps its lock on the face, the
\* episode, its result and every scan are over for good, whatever the workers of
\* earlier sessions still had to do.
FaceResets ==
  /\ <>[](On /\ microState # "scanning" /\ age.locked # Unset /\ age.lost = Unset /\ age.stale = Unset)
  /\ WF_vars(\E w \in Workers : FaceLocked(w))
  => <>[](~warned /\ result = NoResult /\ active = NoScan)

\* config.py:120 focus_scan_once_per_absence_episode: a scan is not started over the
\* result of one that found nobody while the face has not been back in between.
OneScanPerAbsence ==
  [][\A w \in Workers : worker[w] = "loop" /\ worker'[w] = "trigger" /\ age.lost # Unset
                          => result # "not found"]_vars
===============================================================================
