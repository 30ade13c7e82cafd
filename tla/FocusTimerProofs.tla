--------------------------- MODULE FocusTimerProofs ---------------------------
(***************************************************************************)
(* FocusTimer, for any number of timers.  EachTimerEndsOnce is inductive   *)
(* with the types.  FinishedByOwnWorker needs to know who can still reach  *)
(* the locked region: a worker whose timer is over has its stop event set, *)
(* or stop() is just about to set it and no timer runs; and once a timer   *)
(* has expired, only its own worker can be between the event and the lock. *)
(* NothingLeftOn needs to know who will turn off what is on: see OInv.     *)
(* The first two hold whichever saves raise; the third until one does, as  *)
(* it then takes the rest of its callback with it.                         *)
(***************************************************************************)
EXTENDS FocusTimer, TLAPS

Alive(g) == worker[g] \in {"check", "lock", "tick"}

NothingAhead ==
  /\ expired => timer # 0
  /\ \A g \in Timers : worker[g] # "unborn" => g <= count

\* start() works on the running timer, whose worker is not started yet.
MainOnTimer ==
  /\ main.pc \notin {"idle", "turn"} => main.gen \in 1..count
  /\ main.pc = "starting" => timer = main.gen /\ worker[main.gen] = "unborn"

OverIsSignalled ==
  \A g \in Timers :
    Alive(g) /\ g # timer =>
      \/ g \in stopSet
      \/ main.pc = "signal" /\ main.gen = g /\ timer = 0

ExpiredIsAlone ==
  \A g \in Timers : worker[g] = "lock" /\ expired => g = timer

\* A thread has steps to take while it is in a callback or a turn, and only then.
StepsHaveTheirTime ==
  /\ main.pc \in {"idle", "signal"} => todo[MainThread] = <<>>
  /\ \A g \in Timers : worker[g] # "finishing" => todo[g] = <<>>

IInv ==
  /\ TypeOK
  /\ StepsHaveTheirTime
  /\ EachTimerEndsOnce
  /\ NothingAhead
  /\ MainOnTimer
  /\ OverIsSignalled
  /\ ExpiredIsAlone
  /\ FinishedByOwnWorker

-----------------------------------------------------------------------------
LEMMA TransitionsAreSteps ==
  ASSUME NEW m \in BrokerModes
  PROVE  /\ Transition(m) \in Seq(CallbackSteps)
         /\ TurnSteps(m) \in Seq(CallbackSteps)
<1>1. \A b \in BrokerModes : Transition(b) \in Seq(CallbackSteps)
  <2> TAKE b \in BrokerModes
  <2>1. <<"lane", b>> \in BrokerSteps /\ <<"published", b>> \in BrokerSteps
    BY DEF BrokerSteps
  <2>2. <<"lane", b>> \in CallbackSteps /\ <<"published", b>> \in CallbackSteps
    BY <2>1 DEF CallbackSteps
  <2>3. QED BY <2>2 DEF Transition
<1>2. "recovery_window" \in BrokerModes
  BY DEF BrokerModes
<1>3. \A s, u \in Seq(CallbackSteps) : s \o u \in Seq(CallbackSteps)
  OBVIOUS
<1>4. QED BY <1>1, <1>2, <1>3 DEF TurnSteps

\* The steps of callbacks and turns are steps.
LEMMA SavesAreSteps == \A n \in Named : SetAndSave(n) \in Seq(CallbackSteps)
<1> TAKE n \in Named
<1>1. <<"state", n>> \in CallbackSteps /\ <<"save", "copy">> \in CallbackSteps
      /\ <<"save", "return">> \in CallbackSteps
  BY DEF CallbackSteps
<1>2. QED BY <1>1 DEF SetAndSave

LEMMA StepsAreSteps ==
  ASSUME NEW m \in Modes
  PROVE  /\ StartedSteps(m) \in Seq(CallbackSteps)
         /\ StoppedSteps(m) \in Seq(CallbackSteps)
         /\ FinishedSteps(m) \in Seq(CallbackSteps)
<1> DEFINE S == Seq(CallbackSteps)
<1>1. /\ \A do \in {"start", "signal", "joined"} : <<"sentinel", do>> \in CallbackSteps
      /\ \A do \in {"show", "hide"} : <<"countdown", do>> \in CallbackSteps
  BY DEF CallbackSteps
<1>2. /\ <<>> \in S /\ \A n \in Named : SetAndSave(n) \in S
      /\ << <<"sentinel", "start">> >> \in S
      /\ << <<"sentinel", "signal">>, <<"sentinel", "joined">> >> \in S
      /\ << <<"countdown", "show">> >> \in S /\ << <<"countdown", "hide">> >> \in S
  BY <1>1, SavesAreSteps
<1>3. \A c \in BOOLEAN, s \in S : If(c, s) \in S
  BY <1>2 DEF If
<1>4. \A s, u \in S : s \o u \in S
  OBVIOUS
<1>5. (m = "focus") \in BOOLEAN /\ (m # "timer") \in BOOLEAN /\ m \in Named /\ "none" \in Named
  BY DEF Named
<1>6. Transition("focus_sentinel") \in S /\ Transition("idle_baseline") \in S
  BY TransitionsAreSteps DEF BrokerModes
<1> HIDE DEF S
<1>7. StoppedSteps(m) \in S
  <2>1. << <<"sentinel", "signal">>, <<"sentinel", "joined">> >> \o Transition("idle_baseline") \in S
    BY <1>2, <1>4, <1>6
  <2>2. QED BY <1>2, <1>3, <1>4, <1>5, <2>1 DEF StoppedSteps
<1>8. StartedSteps(m) \in S
  <2>1. Transition("focus_sentinel") \o << <<"sentinel", "start">> >> \in S
    BY <1>2, <1>4, <1>6
  <2>2. /\ If(m = "focus", Transition("focus_sentinel") \o << <<"sentinel", "start">> >>) \in S
        /\ If(m # "timer", << <<"countdown", "show">> >>) \in S
    BY <1>2, <1>3, <1>5, <2>1
  <2>3. QED BY <1>2, <1>4, <1>5, <2>2 DEF StartedSteps
<1>9. FinishedSteps(m) \in S
  BY <1>2, <1>4, <1>7 DEF FinishedSteps
<1>10. QED BY <1>7, <1>8, <1>9 DEF S

LEMMA NormalModes == \A m : NormalizeMode(m) \in Modes
  BY DEF NormalizeMode, Modes

LEMMA MainIsNoTimer == MainThread \in Threads /\ MainThread \notin Timers
                       /\ \A g \in Timers : g \in Threads /\ g # 0
  BY MaxTimersAssumption DEF Threads, MainThread, Timers

LEMMA InitIInv == Init => IInv
<1> SUFFICES ASSUME Init PROVE IInv
  OBVIOUS
<1> USE MaxTimersAssumption DEF Init
<1>1. <<>> \in Seq(CallbackSteps)
  OBVIOUS
<1>2. TypeOK
  <2>1. /\ count \in 0..MaxTimers /\ timer \in 0..count
        /\ stopSet \subseteq Timers
    OBVIOUS
  <2>7. state \in Named
    BY DEF Named
  <2>0. countdown \in BOOLEAN /\ raised \in BOOLEAN /\ expired \in BOOLEAN /\ BrokerTypeOK
    BY DEF BrokerInit, BrokerTypeOK, BrokerModes
  <2>2. main \in [pc: {"idle", "starting", "signal", "stopping", "turn"}, gen: 0..count]
    <3>1. 0 \in 0..count
      OBVIOUS
    <3>2. QED BY <3>1
  <2>3. sentinel \in [running: BOOLEAN, watching: BOOLEAN]
    OBVIOUS
  <2>4. todo \in [Threads -> Seq(CallbackSteps)]
    BY <1>1
  <2>5. /\ mode \in [Timers -> Modes]
        /\ worker \in [Timers -> {"unborn", "check", "lock", "tick", "finishing", "done"}]
        /\ ended \in [Timers -> Nat]
        /\ finisher \in [Timers -> 0..MaxTimers]
        /\ saved \in [Threads -> Named]
    BY DEF Modes, Named
  <2>6. QED BY <2>0, <2>1, <2>2, <2>3, <2>4, <2>5, <2>7 DEF TypeOK
<1>3. EachTimerEndsOnce
  BY DEF EachTimerEndsOnce, Timers
<1>6. StepsHaveTheirTime
  BY MainIsNoTimer DEF StepsHaveTheirTime
<1>4. NothingAhead /\ MainOnTimer /\ OverIsSignalled /\ ExpiredIsAlone /\ FinishedByOwnWorker
  BY DEF NothingAhead, MainOnTimer, OverIsSignalled, ExpiredIsAlone, FinishedByOwnWorker, Alive
<1>5. QED BY <1>2, <1>3, <1>4, <1>6 DEF IInv

\* A step of a callback changes what only the assistant owns.
LEMMA CallbackTypes ==
  ASSUME TypeOK, NEW t \in Threads, CallbackStep(t)
  PROVE  /\ todo' \in [Threads -> Seq(CallbackSteps)]
         /\ state' \in Named
         /\ saved' \in [Threads -> Named]
         /\ sentinel' \in [running: BOOLEAN, watching: BOOLEAN]
         /\ countdown' \in BOOLEAN
         /\ BrokerTypeOK'
<1> DEFINE step == Head(todo[t])
<1>1. todo[t] \in Seq(CallbackSteps) /\ todo[t] # <<>>
  BY DEF TypeOK, CallbackStep
<1>2. Tail(todo[t]) \in Seq(CallbackSteps) /\ step \in CallbackSteps
  BY <1>1
<1>3. todo' \in [Threads -> Seq(CallbackSteps)]
  BY <1>2 DEF TypeOK, CallbackStep
<1>4. AssistantStep(t, step[1], step[2])
  BY DEF CallbackStep
<1> HIDE DEF step
<1>5. CASE step[1] = "state"
  <2>1. step[2] \in Named
    BY <1>2, <1>5 DEF CallbackSteps, BrokerSteps
  <2>2. state' = step[2] /\ UNCHANGED <<saved, sentinel, countdown, brokerVars>>
    BY <1>4, <1>5 DEF AssistantStep, BrokerStep
  <2>3. QED BY <1>3, <2>1, <2>2 DEF TypeOK, BrokerTypeOK, brokerVars
<1>10. CASE step[1] = "save"
  <2>1. /\ \/ UNCHANGED state /\ saved' = [saved EXCEPT ![t] = state]
           \/ state' = saved[t] /\ saved' = [saved EXCEPT ![t] = "none"]
        /\ UNCHANGED <<sentinel, countdown, brokerVars>>
    BY <1>4, <1>10 DEF AssistantStep, BrokerStep
  <2>2. state' \in Named /\ saved' \in [Threads -> Named]
    BY <2>1 DEF TypeOK, Named
  <2>3. QED BY <1>3, <2>1, <2>2 DEF TypeOK, BrokerTypeOK, brokerVars
<1>6. CASE step[1] = "sentinel"
  <2>1. step[2] \in {"start", "signal", "joined"}
    BY <1>2, <1>6 DEF CallbackSteps, BrokerSteps
  <2>2. sentinel' = SentinelAfter(step[2]) /\ UNCHANGED <<state, saved, countdown, brokerVars>>
    BY <1>4, <1>6 DEF AssistantStep, BrokerStep
  <2>3. sentinel \in [running: BOOLEAN, watching: BOOLEAN]
    BY DEF TypeOK
  <2>4. SentinelAfter(step[2]) \in [running: BOOLEAN, watching: BOOLEAN]
    BY <2>1, <2>3 DEF SentinelAfter
  <2>5. QED BY <1>3, <2>2, <2>4 DEF TypeOK, BrokerTypeOK, brokerVars
<1>7. CASE step[1] = "countdown"
  <2>1. countdown' = (step[2] = "show") /\ UNCHANGED <<state, saved, sentinel, brokerVars>>
    BY <1>4, <1>7 DEF AssistantStep, BrokerStep
  <2>2. QED BY <1>3, <2>1 DEF TypeOK, BrokerTypeOK, brokerVars
<1>8. CASE step[1] \in {"lane", "published"}
  <2>1. step[2] \in BrokerModes
    BY <1>2, <1>8 DEF CallbackSteps, BrokerSteps
  <2>2. BrokerStep(step[1], step[2]) /\ UNCHANGED <<state, saved, sentinel, countdown>>
    BY <1>4, <1>8 DEF AssistantStep
  <2>3. BrokerTypeOK'
    BY <2>1, <2>2 DEF TypeOK, BrokerTypeOK, BrokerStep
  <2>4. QED BY <1>3, <2>2, <2>3 DEF TypeOK
<1>9. QED BY <1>2, <1>5, <1>6, <1>7, <1>8, <1>10 DEF CallbackSteps, BrokerSteps

\* The parts of the invariant that no callback can disturb.
Service ==
  /\ EachTimerEndsOnce
  /\ NothingAhead
  /\ MainOnTimer
  /\ OverIsSignalled
  /\ ExpiredIsAlone
  /\ FinishedByOwnWorker

LEMMA CallbackPreserves ==
  ASSUME IInv, NEW t \in Threads, CallbackStep(t)
  PROVE  IInv'
<1>1. UNCHANGED <<count, timer, mode, expired, stopSet, main, worker, ended, finisher, raised>>
  BY DEF CallbackStep, serviceVars
<1>2. TypeOK'
  BY <1>1, CallbackTypes DEF IInv, TypeOK
<1>3. Service'
  BY <1>1 DEF IInv, Service, EachTimerEndsOnce, NothingAhead, MainOnTimer, OverIsSignalled,
              ExpiredIsAlone, FinishedByOwnWorker, Alive
<1>4. StepsHaveTheirTime'
  BY <1>1, MainIsNoTimer DEF CallbackStep, IInv, TypeOK, StepsHaveTheirTime
<1>5. QED BY <1>2, <1>3, <1>4 DEF IInv, Service

\* A save that raises ends the callback and what called it.
LEMMA RaisePreserves == ASSUME IInv, NEW t \in Threads, SaveRaises(t) PROVE IInv'
<1> USE DEF serviceVars, brokerVars, BrokerTypeOK
<1>1. /\ todo' = [todo EXCEPT ![t] = <<>>]
      /\ saved' = [saved EXCEPT ![t] = "none"]
      /\ raised' = TRUE
      /\ UNCHANGED <<serviceVars, expired, state, sentinel, countdown, brokerVars>>
  BY DEF SaveRaises
<1>2. \/ /\ t = MainThread
         /\ main.pc # "signal"
         /\ main' = [main EXCEPT !.pc = "idle"]
         /\ UNCHANGED worker
      \/ /\ t \in Timers
         /\ worker[t] = "finishing"
         /\ worker' = [worker EXCEPT ![t] = "done"]
         /\ UNCHANGED main
  BY DEF SaveRaises, Threads, IInv, StepsHaveTheirTime
<1>0. UNCHANGED <<count, timer, mode, expired, stopSet, ended, finisher>>
  BY <1>1
<1>3. TypeOK'
  <2>1. todo' \in [Threads -> Seq(CallbackSteps)] /\ saved' \in [Threads -> Named]
    BY <1>1 DEF IInv, TypeOK, Named
  <2>2. main' \in [pc: {"idle", "starting", "signal", "stopping", "turn"}, gen: 0..count']
    BY <1>1, <1>2 DEF IInv, TypeOK
  <2>3. worker' \in [Timers -> {"unborn", "check", "lock", "tick", "finishing", "done"}]
    BY <1>2 DEF IInv, TypeOK
  <2>4. QED BY <1>1, <2>1, <2>2, <2>3 DEF IInv, TypeOK
<1>4. Service'
  <2>0. /\ worker \in [Timers -> {"unborn", "check", "lock", "tick", "finishing", "done"}]
        /\ main \in [pc: {"idle", "starting", "signal", "stopping", "turn"}, gen: 0..count]
    BY DEF IInv, TypeOK
  <2>1. \A g \in Timers : \/ worker'[g] = worker[g]
                          \/ worker[g] = "finishing" /\ worker'[g] = "done"
    <3>1. CASE worker' = worker
      BY <3>1
    <3>2. CASE worker[t] = "finishing" /\ worker' = [worker EXCEPT ![t] = "done"]
      BY <2>0, <3>2
    <3>3. QED BY <1>2, <3>1, <3>2
  <2>2. main' = main \/ (main.pc # "signal" /\ main'.pc = "idle")
    BY <1>2, <2>0
  <2>3. EachTimerEndsOnce' /\ FinishedByOwnWorker'
    BY <1>0 DEF IInv, EachTimerEndsOnce, FinishedByOwnWorker
  <2>7. /\ \A g \in Timers : worker'[g] # "unborn" => worker[g] # "unborn"
        /\ \A g \in Timers : worker'[g] = "lock" => worker[g] = "lock"
    BY <2>1
  <2>8. NothingAhead'
    BY <1>0, <2>7 DEF IInv, NothingAhead
  <2>9. ExpiredIsAlone'
    BY <1>0, <2>7 DEF IInv, ExpiredIsAlone
  <2>4. MainOnTimer'
    <3>1. CASE main' = main
      <4>1. main.pc = "starting" => main.gen \in Timers
        BY MaxTimersAssumption DEF IInv, TypeOK, MainOnTimer, Timers
      <4>2. QED BY <1>0, <2>1, <3>1, <4>1 DEF IInv, MainOnTimer
    <3>2. CASE main'.pc = "idle"
      BY <3>2 DEF MainOnTimer
    <3>3. QED BY <2>2, <3>1, <3>2
  <2>5. OverIsSignalled'
    BY <1>0, <2>1, <2>2 DEF IInv, OverIsSignalled, Alive
  <2>6. QED BY <2>3, <2>4, <2>5, <2>8, <2>9 DEF Service
<1>5. StepsHaveTheirTime'
  BY <1>1, <1>2, MainIsNoTimer DEF IInv, TypeOK, StepsHaveTheirTime
<1>6. QED BY <1>3, <1>4, <1>5 DEF IInv, Service

LEMMA StartPreserves == ASSUME IInv, NEW m, StartTimer(m) PROVE IInv'
<1> DEFINE g == count + 1
           steps == StartedSteps(NormalizeMode(m))
<1>1. /\ main.pc = "idle" /\ timer = 0 /\ count \in Nat /\ g <= MaxTimers /\ g \in Timers
      /\ count' = g /\ timer' = g /\ main' = [pc |-> "starting", gen |-> g]
      /\ mode' = [mode EXCEPT ![g] = NormalizeMode(m)]
      /\ todo' = [todo EXCEPT ![MainThread] = steps]
      /\ expired' = FALSE
      /\ UNCHANGED <<stopSet, ended, finisher, assistantVars, worker>>
  BY MaxTimersAssumption DEF StartTimer, Accept, IInv, TypeOK, Timers
<1>2. steps \in Seq(CallbackSteps) /\ NormalizeMode(m) \in Modes
  BY StepsAreSteps, NormalModes
<1>3. TypeOK'
  <2>1. mode' \in [Timers -> Modes]
    BY <1>1, <1>2 DEF IInv, TypeOK
  <2>2. todo' \in [Threads -> Seq(CallbackSteps)]
    BY <1>1, <1>2, MainIsNoTimer DEF IInv, TypeOK
  <2>3. /\ count' \in 0..MaxTimers /\ timer' \in 0..count'
        /\ main' \in [pc: {"idle", "starting", "signal", "stopping", "turn"}, gen: 0..count']
    BY <1>1, MaxTimersAssumption
  <2>4. QED BY <1>1, <2>1, <2>2, <2>3 DEF IInv, TypeOK, assistantVars, BrokerTypeOK
<1>4. EachTimerEndsOnce'
  BY <1>1 DEF IInv, EachTimerEndsOnce, Timers
<1>5. NothingAhead' /\ ExpiredIsAlone' /\ FinishedByOwnWorker'
  BY <1>1 DEF IInv, NothingAhead, ExpiredIsAlone, FinishedByOwnWorker, Timers
<1>8. MainOnTimer'
  BY <1>1 DEF IInv, NothingAhead, MainOnTimer, Timers
<1>6. OverIsSignalled'
  BY <1>1, MainIsNoTimer DEF IInv, OverIsSignalled, Alive
<1>7. StepsHaveTheirTime'
  BY <1>1, MainIsNoTimer DEF IInv, TypeOK, StepsHaveTheirTime
<1>9. QED BY <1>3, <1>4, <1>5, <1>6, <1>7, <1>8 DEF IInv

LEMMA StopPreserves == ASSUME IInv, StopTimer PROVE IInv'
<1>1. /\ main.pc = "idle" /\ timer # 0 /\ timer \in Timers /\ timer <= count
      /\ timer' = 0 /\ expired' = FALSE /\ ended' = [ended EXCEPT ![timer] = @ + 1]
      /\ main' = [pc |-> "signal", gen |-> timer]
      /\ UNCHANGED <<count, mode, stopSet, worker, todo, finisher, assistantVars>>
  BY MaxTimersAssumption DEF StopTimer, IInv, TypeOK, Timers
<1>2. TypeOK'
  <2>1. expired' \in BOOLEAN
    BY <1>1
  <2>2. /\ timer' \in 0..count'
        /\ main' \in [pc: {"idle", "starting", "signal", "stopping", "turn"}, gen: 0..count']
        /\ ended' \in [Timers -> Nat]
    BY <1>1, MaxTimersAssumption DEF IInv, TypeOK
  <2>3. QED BY <1>1, <2>1, <2>2 DEF IInv, TypeOK, assistantVars, BrokerTypeOK
<1>3. EachTimerEndsOnce'
  BY <1>1 DEF IInv, TypeOK, EachTimerEndsOnce, Timers
<1>4. Service'
  BY <1>1, <1>3
     DEF IInv, Service, NothingAhead, MainOnTimer, OverIsSignalled, ExpiredIsAlone, FinishedByOwnWorker,
         Alive, Timers
<1>5. StepsHaveTheirTime'
  BY <1>1 DEF IInv, StepsHaveTheirTime
<1>6. QED BY <1>2, <1>4, <1>5 DEF IInv, Service

LEMMA MainPreserves ==
  ASSUME IInv, StartThread \/ SignalWorker \/ StopReturns
  PROVE  IInv'
<1> USE DEF serviceVars, assistantVars, brokerVars, BrokerTypeOK
<1>1. CASE StartThread
  <2>1. main.gen \in Timers /\ timer = main.gen /\ main.gen <= count
        /\ worker' = [worker EXCEPT ![main.gen] = "check"]
        /\ main' = [main EXCEPT !.pc = "idle"]
        /\ UNCHANGED <<serviceVars, expired, todo, assistantVars>>
    BY <1>1, MaxTimersAssumption DEF StartThread, IInv, MainOnTimer, TypeOK, Timers
  <2>2. TypeOK'
    BY <2>1 DEF IInv, TypeOK
  <2>3. Service'
    BY <2>1 DEF IInv, TypeOK, Service, EachTimerEndsOnce, NothingAhead, MainOnTimer,
                OverIsSignalled, ExpiredIsAlone, FinishedByOwnWorker, Alive
  <2>4. StepsHaveTheirTime'
    BY <1>1, <2>1 DEF StartThread, IInv, TypeOK, MainOnTimer, StepsHaveTheirTime
  <2>5. QED BY <2>2, <2>3, <2>4 DEF IInv, Service
<1>2. CASE SignalWorker
  <2>1. main.gen \in Timers
    BY <1>2, MaxTimersAssumption DEF SignalWorker, IInv, MainOnTimer, TypeOK, Timers
  <2>2. StoppedSteps(mode[main.gen]) \in Seq(CallbackSteps)
    BY <2>1, StepsAreSteps DEF IInv, TypeOK
  <2>3. TypeOK'
    BY <1>2, <2>1, <2>2 DEF SignalWorker, IInv, TypeOK
  <2>4. Service'
    BY <1>2 DEF SignalWorker, IInv, TypeOK, Service, EachTimerEndsOnce, NothingAhead,
                MainOnTimer, OverIsSignalled, ExpiredIsAlone, FinishedByOwnWorker, Alive
  <2>5. StepsHaveTheirTime'
    BY <1>2, MainIsNoTimer DEF SignalWorker, IInv, TypeOK, StepsHaveTheirTime
  <2>6. QED BY <2>3, <2>4, <2>5 DEF IInv, Service
<1>3. CASE StopReturns
  <2>1. TypeOK'
    BY <1>3 DEF StopReturns, IInv, TypeOK
  <2>2. Service'
    BY <1>3 DEF StopReturns, IInv, TypeOK, Service, EachTimerEndsOnce, NothingAhead,
                MainOnTimer, OverIsSignalled, ExpiredIsAlone, FinishedByOwnWorker, Alive
  <2>3. StepsHaveTheirTime'
    BY <1>3 DEF StopReturns, IInv, TypeOK, StepsHaveTheirTime
  <2>4. QED BY <2>1, <2>2, <2>3 DEF IInv, Service
<1>4. QED BY <1>1, <1>2, <1>3

\* A turn only gives the main thread steps to take.
LEMMA TurnPreserves ==
  ASSUME IInv, Tick \/ \E m \in TurnModes : Turn(m)
  PROVE  IInv'
<1>1. PICK steps \in Seq(CallbackSteps) : BeginTurn(steps)
  <2>1. \A m \in TurnModes \union {"idle_baseline"} : m \in BrokerModes
    BY TurnModesAssumption DEF BrokerModes
  <2>2. QED BY <2>1, TransitionsAreSteps DEF Tick, Turn
<1>2. /\ main.pc = "idle" /\ main' = [main EXCEPT !.pc = "turn"]
      /\ todo' = [todo EXCEPT ![MainThread] = steps]
      /\ UNCHANGED <<serviceVars, expired, worker, assistantVars>>
  BY <1>1 DEF BeginTurn
<1>3. TypeOK'
  BY <1>2, MainIsNoTimer DEF IInv, TypeOK, serviceVars, assistantVars, BrokerTypeOK
<1>4. Service'
  BY <1>2 DEF IInv, TypeOK, Service, EachTimerEndsOnce, NothingAhead, MainOnTimer,
              OverIsSignalled, ExpiredIsAlone, FinishedByOwnWorker, Alive, serviceVars
<1>5. StepsHaveTheirTime'
  BY <1>2, MainIsNoTimer DEF IInv, TypeOK, StepsHaveTheirTime
<1>6. QED BY <1>3, <1>4, <1>5 DEF IInv, Service

\* Only the running timer's own worker can reach the branch that finishes it.
LEMMA LockPreserves == ASSUME IInv, NEW g \in Timers, WorkerLock(g) PROVE IInv'
<1> USE DEF assistantVars, brokerVars, BrokerTypeOK
<1>1. /\ worker[g] = "lock" /\ g <= count
      /\ UNCHANGED <<count, mode, stopSet, main, assistantVars>>
  BY DEF WorkerLock, IInv, NothingAhead
<1>2. CASE RunsModeOf(g) /\ expired
  <2>1. timer = g
    BY <1>1, <1>2 DEF IInv, ExpiredIsAlone
  <2>2. /\ timer' = 0
        /\ expired' = FALSE
        /\ ended' = [ended EXCEPT ![g] = @ + 1]
        /\ finisher' = [finisher EXCEPT ![g] = g]
        /\ worker' = [worker EXCEPT ![g] = "finishing"]
        /\ todo' = [todo EXCEPT ![g] = FinishedSteps(mode[g])]
    BY <1>2, <2>1 DEF WorkerLock
  <2>3. FinishedSteps(mode[g]) \in Seq(CallbackSteps)
    BY StepsAreSteps DEF IInv, TypeOK
  <2>4. TypeOK'
    <3>1. ended' \in [Timers -> Nat]
      BY <2>2 DEF IInv, TypeOK
    <3>2. finisher' \in [Timers -> 0..MaxTimers]
      BY <2>2, MaxTimersAssumption DEF IInv, TypeOK, Timers
    <3>3. todo' \in [Threads -> Seq(CallbackSteps)]
      BY <2>2, <2>3 DEF IInv, TypeOK
    <3>4. timer' \in 0..count'
      BY <1>1, <2>2 DEF IInv, TypeOK
    <3>5. worker' \in [Timers -> {"unborn", "check", "lock", "tick", "finishing", "done"}]
      BY <2>2 DEF IInv, TypeOK
    <3>6. expired' \in BOOLEAN
      BY <2>2
    <3>7. QED BY <1>1, <3>6, <3>1, <3>2, <3>3, <3>4, <3>5 DEF IInv, TypeOK
  <2>5. EachTimerEndsOnce'
    BY <1>1, <2>1, <2>2 DEF IInv, TypeOK, EachTimerEndsOnce, Timers
  <2>6. FinishedByOwnWorker'
    BY <2>2 DEF IInv, TypeOK, FinishedByOwnWorker
  <2>7. MainOnTimer'
    BY <1>1, <2>1, <2>2 DEF IInv, TypeOK, MainOnTimer
  <2>8. NothingAhead' /\ OverIsSignalled' /\ ExpiredIsAlone'
    BY <1>1, <2>1, <2>2
       DEF IInv, TypeOK, NothingAhead, OverIsSignalled, MainOnTimer, ExpiredIsAlone, Alive, Timers
  <2>9. StepsHaveTheirTime'
    BY <1>1, <2>2, MainIsNoTimer DEF IInv, TypeOK, StepsHaveTheirTime
  <2>10. QED BY <2>4, <2>5, <2>6, <2>7, <2>8, <2>9 DEF IInv
<1>3. CASE ~(RunsModeOf(g) /\ expired)
  <2>1. /\ \E pc \in {"done", "tick"} : worker' = [worker EXCEPT ![g] = pc]
        /\ UNCHANGED <<timer, expired, ended, finisher, todo>>
    BY <1>3 DEF WorkerLock
  <2>2. TypeOK'
    BY <1>1, <2>1 DEF IInv, TypeOK
  <2>3. Service'
    BY <1>1, <2>1 DEF IInv, TypeOK, Service, EachTimerEndsOnce, NothingAhead, MainOnTimer,
                OverIsSignalled, ExpiredIsAlone, FinishedByOwnWorker, Alive
  <2>4. StepsHaveTheirTime'
    BY <1>1, <2>1 DEF IInv, TypeOK, StepsHaveTheirTime
  <2>5. QED BY <2>2, <2>3, <2>4 DEF IInv, Service
<1>4. QED BY <1>2, <1>3

LEMMA WorkerPreserves ==
  ASSUME IInv, NEW g \in Timers, WorkerCheck(g) \/ WorkerTick(g) \/ WorkerReturns(g)
  PROVE  IInv'
<1> USE DEF serviceVars, assistantVars, brokerVars, BrokerTypeOK
<1>1. CASE WorkerCheck(g)
  <2>1. g \notin stopSet /\ expired => g = timer
    BY <1>1, MaxTimersAssumption
       DEF WorkerCheck, IInv, OverIsSignalled, NothingAhead, Alive, TypeOK, Timers
  <2>2. TypeOK'
    BY <1>1 DEF WorkerCheck, IInv, TypeOK
  <2>3. Service'
    BY <1>1, <2>1 DEF WorkerCheck, IInv, TypeOK, Service, EachTimerEndsOnce, NothingAhead,
                MainOnTimer, OverIsSignalled, ExpiredIsAlone, FinishedByOwnWorker, Alive
  <2>4. StepsHaveTheirTime'
    BY <1>1 DEF WorkerCheck, IInv, TypeOK, StepsHaveTheirTime
  <2>5. QED BY <2>2, <2>3, <2>4 DEF IInv, Service
<1>2. CASE WorkerTick(g)
  <2>0. countdown' \in BOOLEAN
    BY <1>2 DEF WorkerTick, IInv, TypeOK
  <2>1. TypeOK'
    BY <1>2, <2>0 DEF WorkerTick, IInv, TypeOK
  <2>2. Service'
    BY <1>2 DEF WorkerTick, IInv, TypeOK, Service, EachTimerEndsOnce, NothingAhead,
                MainOnTimer, OverIsSignalled, ExpiredIsAlone, FinishedByOwnWorker, Alive
  <2>3. StepsHaveTheirTime'
    BY <1>2 DEF WorkerTick, IInv, TypeOK, StepsHaveTheirTime
  <2>4. QED BY <2>1, <2>2, <2>3 DEF IInv, Service
<1>3. CASE WorkerReturns(g)
  <2>1. TypeOK'
    BY <1>3 DEF WorkerReturns, IInv, TypeOK
  <2>2. Service'
    BY <1>3 DEF WorkerReturns, IInv, TypeOK, Service, EachTimerEndsOnce, NothingAhead,
                MainOnTimer, OverIsSignalled, ExpiredIsAlone, FinishedByOwnWorker, Alive
  <2>3. StepsHaveTheirTime'
    BY <1>3 DEF WorkerReturns, IInv, TypeOK, StepsHaveTheirTime
  <2>4. QED BY <2>1, <2>2, <2>3 DEF IInv, Service
<1>4. QED BY <1>1, <1>2, <1>3

LEMMA NextIInv == IInv /\ [Next]_vars => IInv'
<1> SUFFICES ASSUME IInv, [Next]_vars PROVE IInv'
  OBVIOUS
<1>1. CASE Command
  BY <1>1, StartPreserves, StopPreserves, TurnPreserves DEF Command
<1>2. CASE MainStep
  BY <1>2, MainIsNoTimer, MainPreserves, CallbackPreserves DEF MainStep
<1>3. CASE Expire
  <2>0. timer # 0 /\ expired' = TRUE /\ UNCHANGED <<serviceVars, main, worker, todo, assistantVars>>
    BY <1>3 DEF Expire
  <2>1. TypeOK'
    BY <2>0 DEF IInv, TypeOK, serviceVars, assistantVars, BrokerTypeOK
  <2>2. Service'
    BY <1>3, <2>0
       DEF Expire, IInv, Service, EachTimerEndsOnce, NothingAhead, MainOnTimer, OverIsSignalled,
           ExpiredIsAlone, FinishedByOwnWorker, Alive, serviceVars
  <2>3. StepsHaveTheirTime'
    BY <1>3 DEF Expire, serviceVars, IInv, StepsHaveTheirTime
  <2>4. QED BY <2>1, <2>2, <2>3 DEF IInv, Service
<1>4. ASSUME NEW g \in Timers, WorkerStep(g) PROVE IInv'
  <2>1. g \in Threads
    BY MainIsNoTimer
  <2>2. QED BY <1>4, <2>1, LockPreserves, WorkerPreserves, CallbackPreserves DEF WorkerStep
<1>7. ASSUME NEW t \in Threads, SaveRaises(t) PROVE IInv'
  BY <1>7, RaisePreserves
<1>5. CASE UNCHANGED vars
  <2>1. TypeOK'
    BY <1>5 DEF vars, IInv, TypeOK, BrokerTypeOK
  <2>2. Service'
    BY <1>5 DEF vars, IInv, Service, EachTimerEndsOnce, NothingAhead, MainOnTimer,
                OverIsSignalled, ExpiredIsAlone, FinishedByOwnWorker, Alive
  <2>3. StepsHaveTheirTime'
    BY <1>5 DEF vars, IInv, StepsHaveTheirTime
  <2>4. QED BY <2>1, <2>2, <2>3 DEF IInv, Service
<1>6. QED BY <1>1, <1>2, <1>3, <1>4, <1>5, <1>7 DEF Next

\* The inductive invariant.
THEOREM Invariant == Spec => []IInv
  BY InitIInv, NextIInv, PTL DEF Spec

\* Types, for any number of timers.
THEOREM TypeCorrect == Spec => []TypeOK
<1>1. IInv => TypeOK
  BY DEF IInv
<1>2. QED BY <1>1, Invariant, PTL

\* start(), stop() and the workers agree under the lock that a timer ends once.
THEOREM TimersEndOnce == Spec => []EachTimerEndsOnce
<1>1. IInv => EachTimerEndsOnce
  BY DEF IInv
<1>2. QED BY <1>1, Invariant, PTL

\* on_finished reports the timer that finished: the stop event keeps the worker of
\* an earlier timer of the same mode away from it.
THEOREM WorkersFinishTheirOwn == Spec => []FinishedByOwnWorker
<1>1. IInv => FinishedByOwnWorker
  BY DEF IInv
<1>2. QED BY <1>1, Invariant, PTL
-----------------------------------------------------------------------------
(* NothingLeftOn.  Whatever is on has an owner: a timer that runs, the main  *)
(* thread on its way from a timer's end to that timer's callback, or a       *)
(* thread whose callback has the step that turns it off still ahead.  And    *)
(* only the callback of a start, while its timer runs, turns anything on.    *)

Elems(s) == {s[i] : i \in DOMAIN s}

FocusOffs == {<<"sentinel", "signal">>, <<"sentinel", "joined">>,
              <<"lane", "idle_baseline">>, <<"published", "idle_baseline">>}
FocusOns == {<<"lane", "focus_sentinel">>, <<"published", "focus_sentinel">>,
             <<"sentinel", "start">>}

\* What a step of a callback turns off is on, and no callback was broken off.
IsOn(off) ==
  /\ ~raised
  /\ \/ off = <<"sentinel", "signal">> /\ sentinel.watching
     \/ off = <<"sentinel", "joined">> /\ sentinel.running
     \/ off = <<"lane", "idle_baseline">> /\ lane = "focus_sentinel"
     \/ off = <<"published", "idle_baseline">> /\ published = "focus_sentinel"

Owned(off) ==
  \/ timer # 0 /\ mode[timer] = "focus"
  \/ main.pc = "signal" /\ mode[main.gen] = "focus"
  \/ \E t \in Threads : off \in Elems(todo[t])

WhatIsOnIsOwned == \A off \in FocusOffs : IsOn(off) => Owned(off)

OnlyStartsTurnOn ==
  \A t \in Threads : \A s \in Elems(todo[t]) :
    s \in FocusOns => t = MainThread /\ main.pc = "starting" /\ mode[main.gen] = "focus"

OInv ==
  /\ IInv
  /\ OnlyStartsTurnOn
  /\ WhatIsOnIsOwned

LEMMA ElemsConcat ==
  ASSUME NEW S, NEW s \in Seq(S), NEW u \in Seq(S)
  PROVE  Elems(s \o u) = Elems(s) \union Elems(u)
<1>1. /\ s \o u \in Seq(S) /\ Len(s \o u) = Len(s) + Len(u)
      /\ DOMAIN (s \o u) = 1..(Len(s) + Len(u))
      /\ DOMAIN s = 1..Len(s) /\ DOMAIN u = 1..Len(u)
      /\ Len(s) \in Nat /\ Len(u) \in Nat
  OBVIOUS
<1>2. /\ \A i \in 1..Len(s) : (s \o u)[i] = s[i]
      /\ \A i \in 1..Len(u) : (s \o u)[Len(s) + i] = u[i]
  OBVIOUS
<1>3. ASSUME NEW i \in DOMAIN (s \o u) PROVE (s \o u)[i] \in Elems(s) \union Elems(u)
  <2>1. CASE i \in 1..Len(s)
    BY <1>1, <1>2, <2>1 DEF Elems
  <2>2. CASE i \notin 1..Len(s)
    <3>1. i - Len(s) \in 1..Len(u) /\ i = Len(s) + (i - Len(s))
      BY <1>1, <2>2
    <3>2. QED BY <1>1, <1>2, <3>1 DEF Elems
  <2>3. QED BY <2>1, <2>2
<1>4. ASSUME NEW i \in DOMAIN s PROVE s[i] \in Elems(s \o u)
  BY <1>1, <1>2 DEF Elems
<1>5. ASSUME NEW i \in DOMAIN u PROVE u[i] \in Elems(s \o u)
  <2>1. Len(s) + i \in DOMAIN (s \o u)
    BY <1>1
  <2>2. QED BY <1>1, <1>2, <2>1 DEF Elems
<1>6. QED BY <1>3, <1>4, <1>5 DEF Elems

LEMMA ElemsTail ==
  ASSUME NEW S, NEW s \in Seq(S), s # <<>>
  PROVE  Elems(s) = {Head(s)} \union Elems(Tail(s))
<1>1. /\ DOMAIN s = 1..Len(s) /\ Len(s) \in Nat \ {0} /\ Head(s) = s[1]
      /\ DOMAIN Tail(s) = 1..(Len(s) - 1)
      /\ \A i \in 1..(Len(s) - 1) : Tail(s)[i] = s[i + 1]
  OBVIOUS
<1>2. ASSUME NEW i \in DOMAIN s, i # 1 PROVE s[i] \in Elems(Tail(s))
  <2>1. i - 1 \in DOMAIN Tail(s) /\ Tail(s)[i - 1] = s[i]
    BY <1>1, <1>2
  <2>2. QED BY <2>1 DEF Elems
<1>3. ASSUME NEW i \in DOMAIN Tail(s) PROVE Tail(s)[i] \in Elems(s)
  BY <1>1 DEF Elems
<1>4. Head(s) \in Elems(s)
  BY <1>1 DEF Elems
<1>5. QED BY <1>1, <1>2, <1>3, <1>4 DEF Elems

LEMMA ElemsSmall ==
  /\ Elems(<<>>) = {}
  /\ \A a : Elems(<<a>>) = {a}
  /\ \A a, b : Elems(<<a, b>>) = {a, b}
  /\ \A a, b, c : Elems(<<a, b, c>>) = {a, b, c}
  BY DEF Elems

\* What the callbacks and turns consist of.
LEMMA ElemsOfTransition ==
  ASSUME NEW m \in BrokerModes
  PROVE  /\ Elems(Transition(m)) = {<<"lane", m>>, <<"published", m>>}
         /\ Elems(TurnSteps(m)) = {<<"lane", m>>, <<"published", m>>,
              <<"lane", "recovery_window">>, <<"published", "recovery_window">>}
<1>1. \A b : Elems(Transition(b)) = {<<"lane", b>>, <<"published", b>>}
  BY ElemsSmall DEF Transition
<1>2. Transition("recovery_window") \in Seq(CallbackSteps) /\ Transition(m) \in Seq(CallbackSteps)
  BY TransitionsAreSteps DEF BrokerModes
<1>3. Elems(TurnSteps(m)) = Elems(Transition(m)) \union Elems(Transition("recovery_window"))
  BY <1>2, ElemsConcat DEF TurnSteps
<1>4. QED BY <1>1, <1>3

LEMMA ElemsOfCallbacks ==
  ASSUME NEW m \in Modes
  PROVE  /\ Elems(StoppedSteps(m)) = Elems(SetAndSave("none"))
              \union (IF m = "focus" THEN FocusOffs ELSE {})
         /\ Elems(FinishedSteps(m)) = Elems(StoppedSteps(m)) \union {<<"countdown", "hide">>}
         /\ \A n \in Named : Elems(SetAndSave(n)) =
              {<<"state", n>>, <<"save", "copy">>, <<"save", "return">>}
         /\ Elems(StartedSteps(m)) \subseteq Elems(SetAndSave(m)) \union {<<"countdown", "show">>}
              \union (IF m = "focus" THEN FocusOns ELSE {})
<1> DEFINE S == Seq(CallbackSteps)
           stops == << <<"sentinel", "signal">>, <<"sentinel", "joined">> >>
           idle == Transition("idle_baseline")
           watch == Transition("focus_sentinel")
           begin == << <<"sentinel", "start">> >>
           show == << <<"countdown", "show">> >>
           hide == << <<"countdown", "hide">> >>
           off == SetAndSave("none")
           on == SetAndSave(m)
<1>1. /\ <<>> \in S /\ stops \in S /\ begin \in S /\ show \in S /\ hide \in S
      /\ off \in S /\ on \in S
  <2>1. /\ \A n \in Named : SetAndSave(n) \in Seq(CallbackSteps)
        /\ \A do \in {"start", "signal", "joined"} : <<"sentinel", do>> \in CallbackSteps
        /\ \A do \in {"show", "hide"} : <<"countdown", do>> \in CallbackSteps
    BY SavesAreSteps DEF CallbackSteps
  <2>2. QED BY <2>1 DEF Named
<1>2. idle \in S /\ watch \in S
  BY TransitionsAreSteps DEF BrokerModes
<1>3. /\ Elems(idle) = {<<"lane", "idle_baseline">>, <<"published", "idle_baseline">>}
      /\ Elems(watch) = {<<"lane", "focus_sentinel">>, <<"published", "focus_sentinel">>}
  BY ElemsOfTransition DEF BrokerModes
<1>4. /\ Elems(stops) = {<<"sentinel", "signal">>, <<"sentinel", "joined">>}
      /\ Elems(begin) = {<<"sentinel", "start">>} /\ Elems(show) = {<<"countdown", "show">>}
      /\ Elems(hide) = {<<"countdown", "hide">>} /\ Elems(<<>>) = {}
  BY ElemsSmall
<1> HIDE DEF stops, idle, watch, begin, show, hide, off, on
<1>5. \A s, u \in S : s \o u \in S /\ Elems(s \o u) = Elems(s) \union Elems(u)
  BY ElemsConcat
<1> HIDE DEF S
<1>6. stops \o idle \in S /\ Elems(stops \o idle) = FocusOffs
  BY <1>1, <1>2, <1>3, <1>4, <1>5 DEF FocusOffs
<1>7. watch \o begin \in S /\ Elems(watch \o begin) = FocusOns
  BY <1>1, <1>2, <1>3, <1>4, <1>5 DEF FocusOns
<1>8. /\ If(m = "focus", stops \o idle) \in S
      /\ Elems(If(m = "focus", stops \o idle)) = IF m = "focus" THEN FocusOffs ELSE {}
  BY <1>1, <1>4, <1>6 DEF If
<1>9. /\ If(m = "focus", watch \o begin) \in S
      /\ Elems(If(m = "focus", watch \o begin)) = IF m = "focus" THEN FocusOns ELSE {}
  BY <1>1, <1>4, <1>7 DEF If
<1>10. /\ If(m # "timer", show) \in S
       /\ Elems(If(m # "timer", show)) \subseteq {<<"countdown", "show">>}
  BY <1>1, <1>4 DEF If
<1>11. StoppedSteps(m) = off \o If(m = "focus", stops \o idle)
  BY DEF StoppedSteps, off, stops, idle
<1>12. FinishedSteps(m) = StoppedSteps(m) \o hide
  BY DEF FinishedSteps, hide
<1>13. StartedSteps(m) = (on \o If(m = "focus", watch \o begin)) \o If(m # "timer", show)
  BY DEF StartedSteps, on, watch, begin, show
<1>14. /\ StoppedSteps(m) \in S
       /\ Elems(StoppedSteps(m)) = Elems(SetAndSave("none"))
            \union (IF m = "focus" THEN FocusOffs ELSE {})
  BY <1>1, <1>4, <1>5, <1>8, <1>11 DEF off
<1>15. Elems(FinishedSteps(m)) = Elems(StoppedSteps(m)) \union {<<"countdown", "hide">>}
  BY <1>1, <1>4, <1>5, <1>12, <1>14
<1>16. on \o If(m = "focus", watch \o begin) \in S
  BY <1>1, <1>5, <1>9
<1>17. Elems(StartedSteps(m)) \subseteq Elems(SetAndSave(m)) \union {<<"countdown", "show">>}
              \union (IF m = "focus" THEN FocusOns ELSE {})
  BY <1>1, <1>4, <1>5, <1>9, <1>10, <1>13, <1>16 DEF on
<1>18. \A n \in Named : Elems(SetAndSave(n)) =
         {<<"state", n>>, <<"save", "copy">>, <<"save", "return">>}
  BY ElemsSmall DEF SetAndSave
<1>19. QED BY <1>14, <1>15, <1>17, <1>18

LEMMA InitOInv == Init => OInv
<1> SUFFICES ASSUME Init PROVE OInv
  OBVIOUS
<1>1. \A t \in Threads : todo[t] = <<>>
  BY DEF Init
<1>3. OnlyStartsTurnOn
  BY <1>1, ElemsSmall DEF OnlyStartsTurnOn
<1>4. WhatIsOnIsOwned
  BY DEF Init, BrokerInit, WhatIsOnIsOwned, IsOn
<1>5. QED BY <1>3, <1>4, InitIInv DEF OInv

\* Nothing that only moves the program counters turns anything on, or off.
LEMMA OnStays ==
  ASSUME UNCHANGED <<raised, sentinel, brokerVars>>
  PROVE  \A off : IsOn(off)' <=> IsOn(off)
  BY DEF IsOn, brokerVars

LEMMA OStart == ASSUME OInv, NEW m, StartTimer(m) PROVE OInv'
<1> DEFINE g == count + 1
           k == NormalizeMode(m)
<1>1. /\ main.pc = "idle" /\ timer = 0 /\ g \in Timers /\ g # 0
      /\ timer' = g /\ main' = [pc |-> "starting", gen |-> g]
      /\ mode' = [mode EXCEPT ![g] = k]
      /\ todo' = [todo EXCEPT ![MainThread] = StartedSteps(k)]
      /\ UNCHANGED <<raised, sentinel, brokerVars, worker>>
  BY MaxTimersAssumption DEF StartTimer, Accept, OInv, IInv, TypeOK, Timers, assistantVars, brokerVars
<1>2. k \in Modes /\ mode'[g] = k
  BY <1>1, NormalModes DEF OInv, IInv, TypeOK
<1>3. /\ todo[MainThread] = <<>> /\ todo'[MainThread] = StartedSteps(k)
      /\ \A t \in Threads : t # MainThread => todo'[t] = todo[t]
  BY <1>1, MainIsNoTimer DEF OInv, IInv, StepsHaveTheirTime, TypeOK
<1>4. IInv'
  BY StartPreserves DEF OInv
<1>6. OnlyStartsTurnOn'
  <2>1. ASSUME NEW t \in Threads, t # MainThread, NEW x \in Elems(todo'[t])
        PROVE  x \notin FocusOns
    BY <1>1, <1>3, <2>1 DEF OInv, OnlyStartsTurnOn
  <2>2. ASSUME NEW x \in Elems(StartedSteps(k)), x \in FocusOns
        PROVE  k = "focus"
    BY <1>2, <2>2, ElemsOfCallbacks DEF FocusOns, Named
  <2>3. QED BY <1>1, <1>2, <1>3, <2>1, <2>2 DEF OnlyStartsTurnOn
<1>7. WhatIsOnIsOwned'
  <2>1. ASSUME NEW off \in FocusOffs, IsOn(off) PROVE \E t \in Threads : off \in Elems(todo'[t])
    <3>1. PICK t \in Threads : off \in Elems(todo[t])
      BY <1>1, <2>1 DEF OInv, WhatIsOnIsOwned, Owned
    <3>2. QED BY <1>3, <3>1, ElemsSmall
  <2>2. QED BY <1>1, <2>1, OnStays DEF WhatIsOnIsOwned, Owned
<1>8. QED BY <1>4, <1>6, <1>7 DEF OInv

LEMMA OStop == ASSUME OInv, StopTimer PROVE OInv'
<1>1. /\ main.pc = "idle" /\ timer # 0 /\ timer' = 0
      /\ main' = [pc |-> "signal", gen |-> timer]
      /\ UNCHANGED <<mode, todo, raised, sentinel, brokerVars, worker>>
  BY DEF StopTimer, assistantVars, brokerVars
<1>2. IInv'
  BY StopPreserves DEF OInv
<1>3. OnlyStartsTurnOn'
  BY <1>1 DEF OInv, OnlyStartsTurnOn
<1>4. WhatIsOnIsOwned'
  BY <1>1, OnStays DEF OInv, WhatIsOnIsOwned, Owned
<1>5. QED BY <1>2, <1>3, <1>4 DEF OInv

LEMMA OTurn ==
  ASSUME OInv, Tick \/ \E m \in TurnModes : Turn(m)
  PROVE  OInv'
<1>1. PICK steps : BeginTurn(steps) /\ Elems(steps) \intersect (FocusOns) = {}
  <2>1. \A m \in TurnModes \union {"idle_baseline"} : m \in BrokerModes /\ m # "focus_sentinel"
    BY TurnModesAssumption DEF BrokerModes
  <2>2. \A m \in TurnModes \union {"idle_baseline"} :
          /\ Elems(Transition(m)) \intersect (FocusOns) = {}
          /\ Elems(TurnSteps(m)) \intersect (FocusOns) = {}
    <3> TAKE m \in TurnModes \union {"idle_baseline"}
    <3>1. /\ Elems(Transition(m)) = {<<"lane", m>>, <<"published", m>>}
          /\ Elems(TurnSteps(m)) = {<<"lane", m>>, <<"published", m>>,
               <<"lane", "recovery_window">>, <<"published", "recovery_window">>}
      BY <2>1, ElemsOfTransition
    <3>2. QED BY <2>1, <3>1 DEF FocusOns
  <2>3. QED BY <2>2 DEF Tick, Turn
<1>2. /\ main.pc = "idle" /\ main'.pc = "turn"
      /\ UNCHANGED <<timer, mode, raised, sentinel, brokerVars, worker>>
      /\ todo' = [todo EXCEPT ![MainThread] = steps]
  BY <1>1 DEF BeginTurn, serviceVars, assistantVars, brokerVars, OInv, IInv, TypeOK
<1>3. /\ todo[MainThread] = <<>> /\ todo'[MainThread] = steps
      /\ \A t \in Threads : t # MainThread => todo'[t] = todo[t]
  BY <1>2, MainIsNoTimer DEF OInv, IInv, StepsHaveTheirTime, TypeOK
<1>4. IInv'
  BY TurnPreserves DEF OInv
<1>6. OnlyStartsTurnOn'
  <2>1. ASSUME NEW t \in Threads, NEW x \in Elems(todo'[t])
        PROVE  x \notin FocusOns
    BY <1>1, <1>2, <1>3, <2>1 DEF OInv, OnlyStartsTurnOn
  <2>2. QED BY <2>1 DEF OnlyStartsTurnOn
<1>7. WhatIsOnIsOwned'
  <2>1. ASSUME NEW off \in FocusOffs, IsOn(off) PROVE Owned(off)'
    <3>1. Owned(off)
      BY <2>1 DEF OInv, WhatIsOnIsOwned
    <3>2. CASE timer # 0 /\ mode[timer] = "focus"
      BY <1>2, <3>2 DEF Owned
    <3>3. CASE \E t \in Threads : off \in Elems(todo[t])
      BY <1>3, <3>3, ElemsSmall DEF Owned
    <3>4. QED BY <1>2, <3>1, <3>2, <3>3 DEF Owned
  <2>2. QED BY <1>2, <2>1, OnStays DEF WhatIsOnIsOwned
<1>8. QED BY <1>4, <1>6, <1>7 DEF OInv

LEMMA OMain ==
  ASSUME OInv, StartThread \/ SignalWorker \/ StopReturns
  PROVE  OInv'
<1>0. IInv'
  BY MainPreserves DEF OInv
<1>1. CASE StartThread \/ StopReturns
  <2>1. /\ main'.pc = "idle" /\ main.pc # "signal" /\ todo[MainThread] = <<>>
        /\ \A g \in Timers : worker'[g] = "finishing" <=> worker[g] = "finishing"
        /\ UNCHANGED <<timer, mode, todo, raised, sentinel, brokerVars>>
    <3>1. CASE StartThread
      BY <3>1 DEF StartThread, serviceVars, assistantVars, brokerVars, OInv, IInv, TypeOK, MainOnTimer
    <3>2. CASE StopReturns
      BY <3>2 DEF StopReturns, serviceVars, assistantVars, brokerVars, OInv, IInv, TypeOK
    <3>3. QED BY <1>1, <3>1, <3>2
  <2>3. OnlyStartsTurnOn'
    <3>1. ASSUME NEW t \in Threads, NEW x \in Elems(todo[t])
          PROVE  x \notin FocusOns
      BY <2>1, <3>1, ElemsSmall DEF OInv, OnlyStartsTurnOn
    <3>2. QED BY <2>1, <3>1 DEF OnlyStartsTurnOn
  <2>4. WhatIsOnIsOwned'
    BY <2>1, OnStays DEF OInv, WhatIsOnIsOwned, Owned
  <2>5. QED BY <1>0, <2>3, <2>4 DEF OInv
<1>2. CASE SignalWorker
  <2> DEFINE k == mode[main.gen]
  <2>1. /\ main.pc = "signal" /\ main'.pc = "stopping"
        /\ UNCHANGED <<timer, mode, worker, raised, sentinel, brokerVars>>
        /\ todo' = [todo EXCEPT ![MainThread] = StoppedSteps(k)]
    BY <1>2 DEF SignalWorker, assistantVars, brokerVars, OInv, IInv, TypeOK
  <2>2. k \in Modes
    BY <2>1, MaxTimersAssumption DEF OInv, IInv, TypeOK, MainOnTimer, Timers
  <2>3. /\ todo[MainThread] = <<>> /\ todo'[MainThread] = StoppedSteps(k)
        /\ \A t \in Threads : t # MainThread => todo'[t] = todo[t]
    BY <2>1, MainIsNoTimer DEF OInv, IInv, StepsHaveTheirTime, TypeOK
  <2>5. OnlyStartsTurnOn'
    <3>1. ASSUME NEW x \in Elems(StoppedSteps(k)) PROVE x \notin FocusOns
      BY <2>2, <3>1, ElemsOfCallbacks DEF FocusOffs, FocusOns, Named
    <3>2. ASSUME NEW t \in Threads, NEW x \in Elems(todo'[t])
          PROVE  x \notin FocusOns
      BY <2>1, <2>3, <3>1, <3>2 DEF OInv, OnlyStartsTurnOn
    <3>3. QED BY <3>2 DEF OnlyStartsTurnOn
  <2>6. WhatIsOnIsOwned'
    <3>1. ASSUME NEW off \in FocusOffs, IsOn(off) PROVE Owned(off)'
      <4>1. Owned(off)
        BY <3>1 DEF OInv, WhatIsOnIsOwned
      <4>2. CASE timer # 0 /\ mode[timer] = "focus"
        BY <2>1, <4>2 DEF Owned
      <4>3. CASE mode[main.gen] = "focus"
        <5>1. off \in Elems(todo'[MainThread])
          BY <2>2, <2>3, <4>3, ElemsOfCallbacks DEF FocusOffs
        <5>2. QED BY <5>1, MainIsNoTimer DEF Owned
      <4>4. CASE \E t \in Threads : off \in Elems(todo[t])
        BY <2>3, <4>4, ElemsSmall DEF Owned
      <4>5. QED BY <4>1, <4>2, <4>3, <4>4 DEF Owned
    <3>2. QED BY <2>1, <3>1, OnStays DEF WhatIsOnIsOwned
  <2>7. QED BY <1>0, <2>5, <2>6 DEF OInv
<1>3. QED BY <1>1, <1>2

LEMMA OLock == ASSUME OInv, NEW g \in Timers, WorkerLock(g) PROVE OInv'
<1>0. IInv'
  BY LockPreserves DEF OInv
<1>1. /\ worker[g] = "lock"
      /\ UNCHANGED <<mode, main, raised, sentinel, brokerVars>>
  BY DEF WorkerLock, assistantVars, brokerVars
<1>2. CASE RunsModeOf(g) /\ expired
  <2>1. /\ timer = g /\ timer' = 0 /\ g # 0
        /\ worker' = [worker EXCEPT ![g] = "finishing"]
        /\ todo' = [todo EXCEPT ![g] = FinishedSteps(mode[g])]
    BY <1>1, <1>2, MainIsNoTimer DEF WorkerLock, OInv, IInv, ExpiredIsAlone
  <2>2. mode[g] \in Modes
    BY DEF OInv, IInv, TypeOK
  <2>3. /\ todo[g] = <<>> /\ todo'[g] = FinishedSteps(mode[g])
        /\ \A t \in Threads : t # g => todo'[t] = todo[t]
    BY <1>1, <2>1, MainIsNoTimer DEF OInv, IInv, StepsHaveTheirTime, TypeOK
  <2>5. OnlyStartsTurnOn'
    <3>1. ASSUME NEW x \in Elems(FinishedSteps(mode[g])) PROVE x \notin FocusOns
      BY <2>2, <3>1, ElemsOfCallbacks DEF FocusOffs, FocusOns, Named
    <3>2. QED BY <1>1, <2>3, <3>1 DEF OInv, OnlyStartsTurnOn
  <2>6. WhatIsOnIsOwned'
    <3>1. ASSUME NEW off \in FocusOffs, IsOn(off) PROVE Owned(off)'
      <4>1. Owned(off)
        BY <3>1 DEF OInv, WhatIsOnIsOwned
      <4>2. CASE main.pc = "signal" /\ mode[main.gen] = "focus"
        BY <1>1, <4>2 DEF Owned
      <4>3. CASE mode[g] = "focus"
        <5>1. off \in Elems(todo'[g])
          BY <2>2, <2>3, <4>3, ElemsOfCallbacks DEF FocusOffs
        <5>2. QED BY <5>1, MainIsNoTimer DEF Owned
      <4>4. CASE \E t \in Threads : off \in Elems(todo[t])
        BY <2>3, <4>4, ElemsSmall DEF Owned
      <4>5. QED BY <2>1, <4>1, <4>2, <4>3, <4>4 DEF Owned
    <3>2. QED BY <1>1, <3>1, OnStays DEF WhatIsOnIsOwned
  <2>7. QED BY <1>0, <2>5, <2>6 DEF OInv
<1>3. CASE ~(RunsModeOf(g) /\ expired)
  <2>1. /\ UNCHANGED <<timer, todo>>
        /\ \A h \in Timers : worker'[h] = "finishing" <=> worker[h] = "finishing"
    BY <1>1, <1>3 DEF WorkerLock, OInv, IInv, TypeOK
  <2>2. OnlyStartsTurnOn'
    BY <1>1, <2>1 DEF OInv, OnlyStartsTurnOn
  <2>3. WhatIsOnIsOwned'
    BY <1>1, <2>1, OnStays DEF OInv, WhatIsOnIsOwned, Owned
  <2>4. QED BY <1>0, <2>2, <2>3 DEF OInv
<1>4. QED BY <1>2, <1>3

\* The other steps leave the callbacks, and who owns what, alone.
LEMMA OOthers ==
  ASSUME OInv, IInv', UNCHANGED <<timer, mode, main, todo, raised, sentinel, brokerVars>>
  PROVE  OInv'
<1>1. OnlyStartsTurnOn'
  BY DEF OInv, OnlyStartsTurnOn
<1>2. WhatIsOnIsOwned'
  BY OnStays DEF OInv, WhatIsOnIsOwned, Owned
<1>3. QED BY <1>1, <1>2 DEF OInv

LEMMA OWorker ==
  ASSUME OInv, NEW g \in Timers, WorkerCheck(g) \/ WorkerTick(g) \/ WorkerReturns(g)
  PROVE  OInv'
<1>1. IInv'
  BY WorkerPreserves DEF OInv
<1>2. UNCHANGED <<timer, mode, main, todo, raised, sentinel, brokerVars>>
  BY DEF WorkerCheck, WorkerTick, WorkerReturns, serviceVars, assistantVars, brokerVars
<1>3. QED BY <1>1, <1>2, OOthers

\* A step of a callback either is the start's own, whose timer runs, or turns
\* nothing on.
LEMMA TurnsOn ==
  ASSUME OInv, NEW t \in Threads, CallbackStep(t), NEW off \in FocusOffs, IsOn(off)'
  PROVE  \/ IsOn(off) /\ Head(todo[t]) # off
         \/ timer # 0 /\ mode[timer] = "focus"
<1> DEFINE step == Head(todo[t])
<1>1. todo[t] \in Seq(CallbackSteps) /\ todo[t] # <<>>
  BY DEF OInv, IInv, TypeOK, CallbackStep
<1>2. step \in CallbackSteps /\ step \in Elems(todo[t])
  BY <1>1, ElemsTail
<1>3. AssistantStep(t, step[1], step[2])
  BY DEF CallbackStep
<1>4. step \in FocusOns => timer # 0 /\ mode[timer] = "focus"
  BY <1>2, MaxTimersAssumption DEF OInv, OnlyStartsTurnOn, IInv, MainOnTimer, TypeOK
<1>5. raised' = raised
  BY DEF CallbackStep
<1>6. sentinel \in [running: BOOLEAN, watching: BOOLEAN]
  BY DEF OInv, IInv, TypeOK
<1> HIDE DEF step
<1>7. CASE step[1] \in {"state", "save"}
  <2>1. UNCHANGED <<sentinel, brokerVars>>
    BY <1>3, <1>7 DEF AssistantStep, BrokerStep
  <2>2. step # off
    BY <1>7 DEF FocusOffs
  <2>3. QED BY <1>5, <2>1, <2>2, OnStays DEF step
<1>8. CASE step[1] = "sentinel"
  <2>1. step = <<"sentinel", step[2]>> /\ step[2] \in {"start", "signal", "joined"}
    BY <1>2, <1>8 DEF CallbackSteps, BrokerSteps
  <2>2. sentinel' = SentinelAfter(step[2]) /\ UNCHANGED brokerVars
    BY <1>3, <1>8 DEF AssistantStep, BrokerStep
  <2>3. CASE step[2] = "start"
    <3>1. step \in FocusOns
      BY <2>1, <2>3 DEF FocusOns
    <3>2. QED BY <1>4, <3>1
  <2>4. CASE step[2] = "signal"
    <3>1. ~sentinel'.watching /\ sentinel'.running = sentinel.running
      BY <1>6, <2>2, <2>4 DEF SentinelAfter
    <3>2. IsOn(off) /\ off # step
      BY <1>5, <2>1, <2>2, <2>4, <3>1 DEF IsOn, brokerVars
    <3>3. QED BY <3>2 DEF step
  <2>5. CASE step[2] = "joined"
    <3>1. ~sentinel'.running /\ sentinel'.watching = sentinel.watching
      BY <1>6, <2>2, <2>5 DEF SentinelAfter
    <3>2. IsOn(off) /\ off # step
      BY <1>5, <2>1, <2>2, <2>5, <3>1 DEF IsOn, brokerVars
    <3>3. QED BY <3>2 DEF step
  <2>6. QED BY <2>1, <2>3, <2>4, <2>5
<1>9. CASE step[1] = "countdown"
  <2>1. UNCHANGED <<sentinel, brokerVars>>
    BY <1>3, <1>9 DEF AssistantStep, BrokerStep
  <2>2. step # off
    BY <1>9 DEF FocusOffs
  <2>3. QED BY <1>5, <2>1, <2>2, OnStays DEF step
<1>10. CASE step[1] \in {"lane", "published"}
  <2>1. step = <<step[1], step[2]>>
    BY <1>2, <1>10 DEF CallbackSteps, BrokerSteps
  <2>2. BrokerStep(step[1], step[2]) /\ UNCHANGED sentinel
    BY <1>3, <1>10 DEF AssistantStep
  <2>3. CASE step[2] = "focus_sentinel"
    <3>1. step \in FocusOns
      BY <1>10, <2>1, <2>3 DEF FocusOns
    <3>2. QED BY <1>4, <3>1
  <2>4. CASE step[2] # "focus_sentinel"
    <3>1. /\ lane' = "focus_sentinel" => lane = "focus_sentinel" /\ step[1] # "lane"
          /\ published' = "focus_sentinel" => published = "focus_sentinel" /\ step[1] # "published"
      BY <1>10, <2>2, <2>4 DEF BrokerStep
    <3>2. IsOn(off) /\ off # step
      BY <1>5, <1>10, <2>1, <2>2, <3>1 DEF IsOn
    <3>3. QED BY <3>2 DEF step
  <2>5. QED BY <2>3, <2>4
<1>11. QED BY <1>2, <1>7, <1>8, <1>9, <1>10 DEF CallbackSteps, BrokerSteps

LEMMA OCallback == ASSUME OInv, NEW t \in Threads, CallbackStep(t) PROVE OInv'
<1>1. /\ todo[t] # <<>> /\ todo[t] \in Seq(CallbackSteps)
      /\ UNCHANGED <<timer, mode, main, worker>>
      /\ todo'[t] = Tail(todo[t])
      /\ \A u \in Threads : u # t => todo'[u] = todo[u]
  BY DEF CallbackStep, serviceVars, OInv, IInv, TypeOK
<1>2. Elems(todo[t]) = {Head(todo[t])} \union Elems(todo'[t])
  BY <1>1, ElemsTail
<1>3. IInv'
  BY CallbackPreserves DEF OInv
<1>5. OnlyStartsTurnOn'
  <2>1. \A u \in Threads : Elems(todo'[u]) \subseteq Elems(todo[u])
    BY <1>1, <1>2
  <2>2. QED BY <1>1, <2>1 DEF OInv, OnlyStartsTurnOn
<1>6. WhatIsOnIsOwned'
  <2>1. ASSUME NEW off \in FocusOffs, IsOn(off)' PROVE Owned(off)'
    <3>1. CASE timer # 0 /\ mode[timer] = "focus"
      BY <1>1, <3>1 DEF Owned
    <3>2. CASE IsOn(off) /\ Head(todo[t]) # off
      <4>1. Owned(off)
        BY <3>2 DEF OInv, WhatIsOnIsOwned
      <4>2. CASE \E u \in Threads : off \in Elems(todo[u])
        <5>1. PICK u \in Threads : off \in Elems(todo[u])
          BY <4>2
        <5>2. off \in Elems(todo'[u])
          BY <1>1, <1>2, <3>2, <5>1
        <5>3. QED BY <5>1, <5>2 DEF Owned
      <4>3. CASE main.pc = "signal" /\ mode[main.gen] = "focus"
        BY <1>1, <4>3 DEF Owned
      <4>4. QED BY <3>1, <4>1, <4>2, <4>3 DEF Owned
    <3>3. QED BY <2>1, <3>1, <3>2, TurnsOn
  <2>2. QED BY <2>1 DEF WhatIsOnIsOwned
<1>7. QED BY <1>3, <1>5, <1>6 DEF OInv

\* Once a save has raised, nothing counts as on.
LEMMA ORaise == ASSUME OInv, NEW t \in Threads, SaveRaises(t) PROVE OInv'
<1>1. IInv'
  BY RaisePreserves DEF OInv
<1>2. WhatIsOnIsOwned'
  BY DEF SaveRaises, WhatIsOnIsOwned, IsOn
<1>3. OnlyStartsTurnOn'
  <2>1. ASSUME NEW u \in Threads, NEW s \in Elems(todo'[u])
        PROVE  u # t /\ s \in Elems(todo[u])
    BY <2>1, ElemsSmall DEF SaveRaises, OInv, IInv, TypeOK
  <2>2. UNCHANGED mode /\ (t # MainThread => UNCHANGED main)
    BY DEF SaveRaises, serviceVars
  <2>3. QED BY <2>1, <2>2 DEF OInv, OnlyStartsTurnOn
<1>4. QED BY <1>1, <1>2, <1>3 DEF OInv

LEMMA NextOInv == OInv /\ [Next]_vars => OInv'
<1> SUFFICES ASSUME OInv, [Next]_vars PROVE OInv'
  OBVIOUS
<1>1. CASE Command
  BY <1>1, OStart, OStop, OTurn DEF Command
<1>2. CASE MainStep
  BY <1>2, MainIsNoTimer, OMain, OCallback DEF MainStep
<1>3. CASE Expire
  <2>1. IInv'
    BY NextIInv, <1>3 DEF OInv, Next
  <2>2. UNCHANGED <<timer, mode, main, todo, raised, sentinel, brokerVars>>
    BY <1>3 DEF Expire, serviceVars, assistantVars, brokerVars
  <2>3. QED BY <2>1, <2>2, OOthers
<1>4. ASSUME NEW g \in Timers, WorkerStep(g) PROVE OInv'
  BY <1>4, MainIsNoTimer, OLock, OWorker, OCallback DEF WorkerStep
<1>7. ASSUME NEW t \in Threads, SaveRaises(t) PROVE OInv'
  BY <1>7, ORaise
<1>5. CASE UNCHANGED vars
  <2>1. IInv'
    BY NextIInv, <1>5 DEF OInv
  <2>2. UNCHANGED <<timer, mode, main, todo, raised, sentinel, brokerVars>>
    BY <1>5 DEF vars, brokerVars
  <2>3. QED BY <2>1, <2>2, OOthers
<1>6. QED BY <1>1, <1>2, <1>3, <1>4, <1>5, <1>7 DEF Next

LEMMA RestOwnsNothing == OInv => NothingLeftOn
<1> SUFFICES ASSUME OInv, AtRest, timer = 0
             PROVE  /\ sentinel = [running |-> FALSE, watching |-> FALSE]
                    /\ "focus_sentinel" \notin {lane, published}
  BY DEF NothingLeftOn
<1>1. \A t \in Threads : todo[t] = <<>>
  BY MainIsNoTimer DEF OInv, IInv, StepsHaveTheirTime, AtRest, Threads
<1>2. \A off \in FocusOffs : ~IsOn(off)
  BY <1>1, ElemsSmall DEF OInv, WhatIsOnIsOwned, Owned, AtRest
<1>3. /\ ~sentinel.watching /\ ~sentinel.running
      /\ lane # "focus_sentinel" /\ published # "focus_sentinel"
  BY <1>2 DEF FocusOffs, IsOn, AtRest
<1>4. sentinel = [running |-> FALSE, watching |-> FALSE]
  BY <1>3 DEF OInv, IInv, TypeOK
<1>5. QED BY <1>3, <1>4

\* Whatever the callbacks of overlapping timers, the commands and the turns between
\* them do to each other: while no save raises, once none is under way and no timer
\* runs, neither sentinel nor broker nor camera is in the mode a timer turned on.
THEOREM NothingStaysOn == Spec => []NothingLeftOn
<1>1. Spec => []OInv
  BY InitOInv, NextOInv, PTL DEF Spec
<1>2. QED BY <1>1, RestOwnsNothing, PTL
=============================================================================
