------------------------------ MODULE FocusTimer ------------------------------
(***************************************************************************)
(* modules/features/timer/service.py (TimerService) and what the assistant *)
(* does in its callbacks (core/assistant_impl/response_mixin.py): the      *)
(* session state, the Focus Vision sentinel, the mode of the AI broker and *)
(* the countdown on screen.                                                *)
(*                                                                         *)
(* Commands come from one thread, the main loop.  Every accepted start     *)
(* makes a timer with a worker thread of its own; `timer' is the one that  *)
(* _running, _mode and _ends_at describe.  The service's lock covers the   *)
(* changes of that description; callbacks run outside it, in the thread    *)
(* that caused them, so a timer that finishes and a timer that starts may  *)
(* run theirs at the same time.  A callback's save of the state may raise, *)
(* and nothing catches that; what else it calls catches what it raises.    *)
(* Left out: the callbacks' spoken notification (it only takes time: a     *)
(* callback may end at any time) and the follow-up question.               *)
(***************************************************************************)
EXTENDS AiBroker, Integers, Sequences

CONSTANTS
  MaxTimers,  \* bound: starts accepted in a behaviour
  Requests,   \* the mode words that timers are asked for with
  TurnModes   \* what the turns that are about no timer need the broker for

ASSUME MaxTimersAssumption == MaxTimers \in Nat
ASSUME TurnModesAssumption == TurnModes \subseteq {"conversation_answer", "vision_action"}

Timers == 1..MaxTimers
Modes == {"focus", "break", "timer"}
MainThread == 0
Threads == {MainThread} \union Timers

VARIABLES
  count,      \* timers accepted so far
  timer,      \* the timer _running, _mode and _ends_at describe, 0 for none
  mode,       \* per timer: the mode it was started with
  expired,    \* _ends_at, that of the running timer, has passed
  stopSet,    \* timers whose stop event is set
  main,       \* the main thread: pc and the timer it starts or stops
  worker,     \* per timer: its thread
  todo,       \* per thread: what is left of the callback it runs
  ended,      \* history, per timer: how often it finished or was stopped
  finisher,   \* history, per timer: the worker that finished it, 0 for none
  state,      \* assistant.state["current_timer"]
  saved,      \* per thread: the same in the copy that its save will return
  raised,     \* history: a save has raised
  sentinel,   \* FocusVisionSentinelService: _running, and a loop that watches
  countdown   \* the Visual Shell shows a countdown

serviceVars == <<count, timer, mode, stopSet, ended, finisher>>
assistantVars == <<state, saved, raised, sentinel, countdown, lane, published>>
vars == <<count, timer, mode, expired, stopSet, main, worker, todo, ended, finisher,
          state, saved, raised, sentinel, countdown, lane, published>>

Named == Modes \union {"none"}

\* What a step is about, and what it makes of it.
CallbackSteps ==
  ({"state"} \X Named) \union ({"save"} \X {"copy", "return"}) \union BrokerSteps
  \union ({"sentinel"} \X {"start", "signal", "joined"})
  \union ({"countdown"} \X {"show", "hide"})

TypeOK ==
  /\ count \in 0..MaxTimers
  /\ timer \in 0..count
  /\ mode \in [Timers -> Modes]
  /\ expired \in BOOLEAN
  /\ stopSet \subseteq Timers
  /\ main \in [pc: {"idle", "starting", "signal", "stopping", "turn"}, gen: 0..count]
  /\ worker \in [Timers -> {"unborn", "check", "lock", "tick", "finishing", "done"}]
  /\ todo \in [Threads -> Seq(CallbackSteps)]
  /\ ended \in [Timers -> Nat]
  /\ finisher \in [Timers -> 0..MaxTimers]
  /\ state \in Named
  /\ saved \in [Threads -> Named]
  /\ raised \in BOOLEAN
  /\ sentinel \in [running: BOOLEAN, watching: BOOLEAN]
  /\ countdown \in BOOLEAN
  /\ BrokerTypeOK

Init ==
  /\ count = 0
  /\ timer = 0
  /\ mode = [g \in Timers |-> "timer"]
  /\ expired = FALSE
  /\ stopSet = {}
  /\ main = [pc |-> "idle", gen |-> 0]
  /\ worker = [g \in Timers |-> "unborn"]
  /\ todo = [t \in Threads |-> <<>>]
  /\ ended = [g \in Timers |-> 0]
  /\ finisher = [g \in Timers |-> 0]
  /\ state = "none"
  /\ saved = [t \in Threads |-> "none"]
  /\ raised = FALSE
  /\ sentinel = [running |-> FALSE, watching |-> FALSE]
  /\ countdown = FALSE
  /\ BrokerInit

-----------------------------------------------------------------------------
(* The callbacks, as the steps in which another thread can see them.       *)

If(condition, steps) == IF condition THEN steps ELSE <<>>

\* The keys of the state are set and _save_state() writes it: the store copies the
\* dict, and the copy takes the place of the dict when write() returns.
SetAndSave(m) == << <<"state", m>>, <<"save", "copy">>, <<"save", "return">> >>

StartedSteps(m) ==
  SetAndSave(m)
  \o If(m = "focus", Transition("focus_sentinel") \o << <<"sentinel", "start">> >>)
  \o If(m # "timer", << <<"countdown", "show">> >>)

StoppedSteps(m) ==
  SetAndSave("none")
  \o If(m = "focus", << <<"sentinel", "signal">>, <<"sentinel", "joined">> >>
                     \o Transition("idle_baseline"))

FinishedSteps(m) == StoppedSteps(m) \o << <<"countdown", "hide">> >>

\* FocusVisionSentinelService.start: nothing to do while _running; stop: sets the
\* stop event under its lock, joins the loop outside it, then clears _running.
SentinelAfter(do) ==
  CASE do = "start" -> IF sentinel.running THEN sentinel
                       ELSE [running |-> TRUE, watching |-> TRUE]
    [] do = "signal" -> [sentinel EXCEPT !.watching = FALSE]
    [] do = "joined" -> [sentinel EXCEPT !.running = FALSE]

AssistantStep(t, about, to) ==
  \/ /\ about = "state"
     /\ state' = to
     /\ UNCHANGED <<saved, sentinel, countdown, brokerVars>>
  \/ /\ about = "save"
     /\ to = "copy"
     /\ saved' = [saved EXCEPT ![t] = state]
     /\ UNCHANGED <<state, sentinel, countdown, brokerVars>>
  \/ /\ about = "save"
     /\ to = "return"
     /\ state' = saved[t]
     /\ saved' = [saved EXCEPT ![t] = "none"]
     /\ UNCHANGED <<sentinel, countdown, brokerVars>>
  \/ /\ about = "sentinel"
     /\ sentinel' = SentinelAfter(to)
     /\ UNCHANGED <<state, saved, countdown, brokerVars>>
  \/ /\ about = "countdown"
     /\ countdown' = (to = "show")
     /\ UNCHANGED <<state, saved, sentinel, brokerVars>>
  \/ /\ BrokerStep(about, to)
     /\ UNCHANGED <<state, saved, sentinel, countdown>>

\* Thread t takes the next step of the callback or turn it is in.
CallbackStep(t) ==
  /\ todo[t] # <<>>
  /\ AssistantStep(t, Head(todo[t])[1], Head(todo[t])[2])
  /\ todo' = [todo EXCEPT ![t] = Tail(@)]
  /\ UNCHANGED <<serviceVars, expired, main, worker, raised>>

\* The write of thread t raises: the exception leaves the callback and the start(),
\* stop() or _run() that called it.
SaveRaises(t) ==
  /\ todo[t] # <<>>
  /\ Head(todo[t]) = <<"save", "return">>
  /\ todo' = [todo EXCEPT ![t] = <<>>]
  /\ saved' = [saved EXCEPT ![t] = "none"]
  /\ raised' = TRUE
  /\ IF t = MainThread
     THEN main' = [main EXCEPT !.pc = "idle"] /\ UNCHANGED worker
     ELSE worker' = [worker EXCEPT ![t] = "done"] /\ UNCHANGED main
  /\ UNCHANGED <<serviceVars, expired, state, sentinel, countdown, brokerVars>>

-----------------------------------------------------------------------------
(* start() and stop(), in the main thread.                                 *)

\* A plausible bug: an unknown mode is taken as it comes.
KeepMode(m) == m

\* _normalize_mode
NormalizeMode(m) == IF m \in Modes THEN m ELSE "timer"

Accept(m) ==
  /\ main.pc = "idle"
  /\ timer = 0
  /\ count < MaxTimers
  /\ count' = count + 1
  /\ timer' = count + 1
  /\ mode' = [mode EXCEPT ![count + 1] = NormalizeMode(m)]
  /\ main' = [pc |-> "starting", gen |-> count + 1]
  /\ todo' = [todo EXCEPT ![MainThread] = StartedSteps(NormalizeMode(m))]
  /\ expired' = FALSE
  /\ UNCHANGED <<stopSet, ended, finisher, assistantVars>>

\* A plausible bug: the thread is started before on_started is called.
StartThreadFirst(m) ==
  /\ Accept(m)
  /\ worker' = [worker EXCEPT ![count + 1] = "check"]

\* The region under the lock; the duration is positive.  A start while a timer
\* runs changes nothing.
StartTimer(m) == Accept(m) /\ UNCHANGED worker

\* A plausible bug: no new thread while an earlier worker is still alive.
StartThreadUnlessAlive ==
  /\ main.pc = "starting"
  /\ todo[MainThread] = <<>>
  /\ worker' = IF \E g \in Timers : worker[g] \notin {"unborn", "done"} THEN worker
               ELSE [worker EXCEPT ![main.gen] = "check"]
  /\ main' = [main EXCEPT !.pc = "idle"]
  /\ UNCHANGED <<serviceVars, expired, todo, assistantVars>>

\* on_started has returned: self._thread.start()
StartThread ==
  /\ main.pc = "starting"
  /\ todo[MainThread] = <<>>
  /\ worker' = [worker EXCEPT ![main.gen] = "check"]
  /\ main' = [main EXCEPT !.pc = "idle"]
  /\ UNCHANGED <<serviceVars, expired, todo, assistantVars>>

\* A plausible bug: _running is read before the lock is taken, and not again.
StopUnlooked ==
  /\ main.pc = "idle"
  /\ count > 0
  /\ timer' = 0
  /\ expired' = FALSE
  /\ ended' = [ended EXCEPT ![count] = @ + 1]
  /\ main' = [pc |-> "signal", gen |-> count]
  /\ UNCHANGED <<count, mode, stopSet, worker, todo, finisher, assistantVars>>

\* stop(): the region under the lock, then stop_event.set(), then on_stopped.
StopTimer ==
  /\ main.pc = "idle"
  /\ timer # 0
  /\ timer' = 0
  /\ expired' = FALSE
  /\ ended' = [ended EXCEPT ![timer] = @ + 1]
  /\ main' = [pc |-> "signal", gen |-> timer]
  /\ UNCHANGED <<count, mode, stopSet, worker, todo, finisher, assistantVars>>

SignalWorker ==
  /\ main.pc = "signal"
  /\ stopSet' = stopSet \union {main.gen}
  /\ main' = [main EXCEPT !.pc = "stopping"]
  /\ todo' = [todo EXCEPT ![MainThread] = StoppedSteps(mode[main.gen])]
  /\ UNCHANGED <<count, timer, mode, expired, worker, ended, finisher, assistantVars>>

\* stop(), or a turn, returns.
StopReturns ==
  /\ main.pc \in {"stopping", "turn"}
  /\ todo[MainThread] = <<>>
  /\ main' = [main EXCEPT !.pc = "idle"]
  /\ UNCHANGED <<serviceVars, expired, worker, todo, assistantVars>>

\* The main thread takes the steps of a turn that is about no timer.
BeginTurn(steps) ==
  /\ main.pc = "idle"
  /\ main' = [main EXCEPT !.pc = "turn"]
  /\ todo' = [todo EXCEPT ![MainThread] = steps]
  /\ UNCHANGED <<serviceVars, expired, worker, assistantVars>>

\* A dialogue route, or an action that uses the camera.
Turn(m) == BeginTurn(TurnSteps(m))

\* A command begins with tick(), and so does the overlay's report after it: the mode
\* is read under the lock and changed outside it.
Tick == WindowOver /\ BeginTurn(Transition("idle_baseline"))

-----------------------------------------------------------------------------
(* _run, in the worker of timer g.                                         *)

\* A plausible bug: the loop relies on _running and _mode and ignores the event.
CheckNothing(g) ==
  /\ worker[g] = "check"
  /\ worker' = [worker EXCEPT ![g] = "lock"]
  /\ UNCHANGED <<serviceVars, expired, main, todo, assistantVars>>

\* while not stop_event.is_set()
WorkerCheck(g) ==
  /\ worker[g] = "check"
  /\ worker' = [worker EXCEPT ![g] = IF g \in stopSet THEN "done" ELSE "lock"]
  /\ UNCHANGED <<serviceVars, expired, main, todo, assistantVars>>

\* self._running and self._mode == mode
RunsModeOf(g) == timer # 0 /\ mode[timer] = mode[g]

\* The region under the lock: it sees whatever timer runs by now, and goes on with
\* one of its own mode.
WorkerLock(g) ==
  /\ worker[g] = "lock"
  /\ \/ /\ ~RunsModeOf(g)
        /\ worker' = [worker EXCEPT ![g] = "done"]
        /\ UNCHANGED <<timer, expired, ended, finisher, todo>>
     \/ /\ RunsModeOf(g)
        /\ expired
        /\ timer' = 0
        /\ expired' = FALSE
        /\ ended' = [ended EXCEPT ![timer] = @ + 1]
        /\ finisher' = [finisher EXCEPT ![timer] = g]
        /\ worker' = [worker EXCEPT ![g] = "finishing"]
        /\ todo' = [todo EXCEPT ![g] = FinishedSteps(mode[g])]
     \/ /\ RunsModeOf(g)
        /\ ~expired
        /\ worker' = [worker EXCEPT ![g] = "tick"]
        /\ UNCHANGED <<timer, expired, ended, finisher, todo>>
  /\ UNCHANGED <<count, mode, stopSet, main, assistantVars>>

\* on_tick, when a second has passed, then the sleep.
WorkerTick(g) ==
  /\ worker[g] = "tick"
  /\ countdown' \in {countdown, countdown \/ mode[g] # "timer"}
  /\ worker' = [worker EXCEPT ![g] = "check"]
  /\ UNCHANGED <<serviceVars, expired, main, todo, state, saved, raised, sentinel, brokerVars>>

WorkerReturns(g) ==
  /\ worker[g] = "finishing"
  /\ todo[g] = <<>>
  /\ worker' = [worker EXCEPT ![g] = "done"]
  /\ UNCHANGED <<serviceVars, expired, main, todo, assistantVars>>

-----------------------------------------------------------------------------
\* _ends_at passes.  A timer lasts a second at least, and a worker gets from its
\* stop event to the lock well within that: no timer expires while the worker of
\* another is in between.
Expire ==
  /\ timer # 0
  /\ ~expired
  /\ \A g \in Timers : worker[g] = "lock" => g = timer
  /\ expired' = TRUE
  /\ UNCHANGED <<serviceVars, main, worker, todo, assistantVars>>

Command ==
  \/ StopTimer
  \/ \E m \in Requests : StartTimer(m)
  \/ \E m \in TurnModes : Turn(m)
  \/ Tick

MainStep ==
  \/ StartThread
  \/ SignalWorker
  \/ StopReturns
  \/ CallbackStep(MainThread)

WorkerStep(g) ==
  \/ WorkerCheck(g)
  \/ WorkerLock(g)
  \/ WorkerTick(g)
  \/ WorkerReturns(g)
  \/ CallbackStep(g)

Next ==
  \/ Command
  \/ MainStep
  \/ Expire
  \/ \E g \in Timers : WorkerStep(g)
  \/ \E t \in Threads : SaveRaises(t)

\* The main loop and the workers are threads that keep running, and time passes;
\* nobody has to give a command, and no write has to raise.
Spec ==
  /\ Init /\ [][Next]_vars
  /\ WF_vars(MainStep)
  /\ WF_vars(Expire)
  /\ \A g \in Timers : WF_vars(WorkerStep(g))

-----------------------------------------------------------------------------
\* Every accepted timer ends once, by its deadline or by stop(), however the two
\* race: at any time it either runs or has ended exactly once.
EachTimerEndsOnce ==
  \A g \in Timers : ended[g] = IF g <= count /\ g # timer THEN 1 ELSE 0

\* A timer is finished by its own worker, so that on_finished reports its duration
\* and not that of an earlier timer of the same mode.
FinishedByOwnWorker == \A g \in Timers : finisher[g] \in {0, g}

\* No callback is under way, none was broken off by its save, and no worker of an
\* earlier timer is left.
AtRest ==
  /\ ~raised
  /\ main.pc = "idle"
  /\ \A g \in Timers : worker[g] \in {"unborn", "done"} \/ (g = timer /\ worker[g] # "finishing")

\* Whatever the callbacks of overlapping timers and the turns between them did to
\* each other, once no timer runs the sentinel does not watch, and neither the AI
\* broker nor the camera is in the mode that goes with it; unless a save has raised.
NothingLeftOn ==
  AtRest /\ timer = 0 =>
    /\ sentinel = [running |-> FALSE, watching |-> FALSE]
    /\ "focus_sentinel" \notin {lane, published}

\* A timer never runs for ever, unless a save has raised (start()'s, before its
\* worker is started): as only a timer that has ended makes room for the next, again
\* and again none is running.
TimerEnds == []<>(timer = 0 \/ raised)

\* response_mixin.py:846 and 915 set current_timer to None for a timer that is over:
\* at rest, when no timer runs and no save has raised, the state names none.
StateNamesNoTimer == AtRest /\ timer = 0 => state = "none"

\* architecture_notes.md:16117, "Focus timer start starts the sentinel loop": while
\* a focus timer runs and no callback is under way, the sentinel watches.
SentinelFollowsFocusTimer ==
  \A g \in Timers : AtRest /\ timer = g => (mode[g] = "focus" <=> sentinel.watching)

\* The heavy lane has the cadence of the mode that the broker's status names.
LaneFollowsMode == AtRest => lane = published

\* architecture_notes.md:12755, "The Python runtime sends the canonical countdown
\* state from `TimerService`": no countdown is shown for a timer that is over.
CountdownEndsWithTimer == AtRest /\ timer = 0 => ~countdown
=============================================================================
