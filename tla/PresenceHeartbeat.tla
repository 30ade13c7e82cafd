--------------------------- MODULE PresenceHeartbeat ---------------------------
(***************************************************************************)
(* core/presence/heartbeat.py: while a live answer is prepared, a daemon   *)
(* thread speaks short cached phrases ("I'm still working on that."); the  *)
(* thread that streams the answer cancels it when the first real audio     *)
(* starts and again when the stream is finished.  A phrase is played by    *)
(* speak_presence (tts_pipeline/speech_api_mixin.py) under a lock and a    *)
(* stop event of its own, which all heartbeats share.                      *)
(*                                                                         *)
(* Each streamed turn makes a new manager with a new thread; the cancel    *)
(* waits for the old thread only a moment, so it may still be playing when *)
(* the next turn's starts.  The order of the steps below is that of the    *)
(* calls on the shared events; waits with a timeout may end at any time.   *)
(***************************************************************************)
EXTENDS Naturals

CONSTANTS
  MaxTurns,      \* bound: streamed turns in a behaviour
  MaxHeartbeats  \* _max_heartbeats

ASSUME TurnsAssumption == MaxTurns \in Nat
ASSUME HeartbeatsAssumption == MaxHeartbeats \in Nat \ {0}

Turns == 1 .. MaxTurns
NoTurn == 0

VARIABLES
  turn,          \* turns started so far; the last is the current one
  main,          \* the streaming thread: pc, audio (first audio has started)
  answerReady,   \* turns whose _answer_ready is set
  speaking,      \* turns whose _currently_speaking is set
  beat,          \* per turn, its heartbeat thread: pc, phrases tried
  lock,          \* holder of _presence_playback_lock
  presenceStop,  \* _presence_stop_requested
  stop,          \* _stop_requested, of the real speech
  outputs,       \* turns with a "tts_presence" output open at the coordinator
  late,          \* history: phrases begun after the turn's answer was ready
  asked          \* history: turns whose phrase was playing when cancel stopped it

playerVars == <<lock, presenceStop, outputs, late, asked>>
vars == <<turn, main, answerReady, speaking, beat, stop, playerVars>>

PlayerPCs == {"clear", "begin", "playing", "release"}
BeatPCs == {"unborn", "wait", "check", "announce", "enter", "leave", "done"}
           \union PlayerPCs

TypeOK ==
  /\ turn \in 0 .. MaxTurns
  /\ main \in [pc: {"idle", "stream", "set", "look", "stop", "abort", "join"},
               audio: BOOLEAN, last: BOOLEAN]
  /\ answerReady \subseteq Turns
  /\ speaking \subseteq Turns
  /\ beat \in [Turns -> [pc: BeatPCs, count: 0 .. MaxHeartbeats]]
  /\ lock \in Turns \union {NoTurn}
  /\ presenceStop \in BOOLEAN
  /\ stop \in BOOLEAN
  /\ outputs \subseteq Turns
  /\ late \in [Turns -> Nat]
  /\ asked \subseteq Turns

Init ==
  /\ turn = 0
  /\ main = [pc |-> "idle", audio |-> FALSE, last |-> FALSE]
  /\ answerReady = {}
  /\ speaking = {}
  /\ beat = [t \in Turns |-> [pc |-> "unborn", count |-> 0]]
  /\ lock = NoTurn
  /\ presenceStop = FALSE
  /\ stop = FALSE
  /\ outputs = {}
  /\ late = [t \in Turns |-> 0]
  /\ asked = {}

GoTo(t, pc) == beat' = [beat EXCEPT ![t].pc = pc]

-----------------------------------------------------------------------------
(* The streaming thread.                                                   *)

\* _start_presence_heartbeat
StartTurn ==
  /\ main.pc = "idle"
  /\ turn < MaxTurns
  /\ turn' = turn + 1
  /\ main' = [pc |-> "stream", audio |-> FALSE, last |-> FALSE]
  /\ GoTo(turn + 1, "wait")
  /\ UNCHANGED <<answerReady, speaking, stop, playerVars>>

\* speak() begins, of a chunk of the answer or of any other text on any thread:
\* clear_stop_request().
SpeakBegins ==
  /\ stop' = FALSE
  /\ UNCHANGED <<turn, main, answerReady, speaking, beat, playerVars>>

\* cancel("real_audio_started"), once in a turn.
AudioStarts ==
  /\ main.pc = "stream"
  /\ ~main.audio
  /\ main' = [main EXCEPT !.pc = "set", !.audio = TRUE]
  /\ UNCHANGED <<turn, answerReady, speaking, beat, stop, playerVars>>

\* cancel("stream_finished").
StreamFinishes ==
  /\ main.pc = "stream"
  /\ main' = [main EXCEPT !.pc = "set", !.last = TRUE]
  /\ UNCHANGED <<turn, answerReady, speaking, beat, stop, playerVars>>

CancelReturns == main' = [main EXCEPT !.pc = IF main.last THEN "idle" ELSE "stream"]

CancelSet ==
  /\ main.pc = "set"
  /\ answerReady' = answerReady \union {turn}
  /\ main' = [main EXCEPT !.pc = "look"]
  /\ UNCHANGED <<turn, speaking, beat, stop, playerVars>>

CancelLook ==
  /\ main.pc = "look"
  /\ IF turn \in speaking THEN main' = [main EXCEPT !.pc = "stop"] ELSE CancelReturns
  /\ UNCHANGED <<turn, answerReady, speaking, beat, stop, playerVars>>

\* stop_presence_playback sets the event ...
CancelStop ==
  /\ main.pc = "stop"
  /\ presenceStop' = TRUE
  /\ asked' = IF beat[turn].pc = "playing" THEN asked \union {turn} ELSE asked
  /\ main' = [main EXCEPT !.pc = "abort"]
  /\ UNCHANGED <<turn, answerReady, speaking, beat, stop, lock, outputs, late>>

\* ... and then ends the presence stream or process there is.  The player goes on
\* with its next backend, if it has one and does not see the event.
CancelAbort ==
  /\ main.pc = "abort"
  /\ \/ UNCHANGED beat
     \/ \E t \in Turns : beat[t].pc = "playing" /\ GoTo(t, "release")
  /\ main' = [main EXCEPT !.pc = "join"]
  /\ UNCHANGED <<turn, answerReady, speaking, stop, playerVars>>

\* join(timeout)
CancelJoin ==
  /\ main.pc = "join"
  /\ CancelReturns
  /\ UNCHANGED <<turn, answerReady, speaking, beat, stop, playerVars>>

CancelStep ==
  CancelSet \/ CancelLook \/ CancelStop \/ CancelAbort \/ CancelJoin

\* stop_playback() of a barge-in.
StopPlayback ==
  /\ stop' = TRUE
  /\ UNCHANGED <<turn, main, answerReady, speaking, beat, playerVars>>

-----------------------------------------------------------------------------
(* _run, in the heartbeat thread of turn t.                                *)

\* A plausible bug: the result of the wait is ignored, and the loop does not look.
WaitOnly(t) ==
  /\ beat[t].pc = "wait"
  /\ GoTo(t, IF beat[t].count = MaxHeartbeats THEN "done" ELSE "announce")
  /\ UNCHANGED <<turn, main, answerReady, speaking, stop, playerVars>>

\* _answer_ready.wait(timeout), before the first phrase and between phrases.
BeatWait(t) ==
  /\ beat[t].pc = "wait"
  /\ GoTo(t, IF t \in answerReady \/ beat[t].count = MaxHeartbeats THEN "done"
             ELSE "check")
  /\ UNCHANGED <<turn, main, answerReady, speaking, stop, playerVars>>

\* The tests of _answer_ready in the loop, and the one in _speak_phrase, which
\* counts as a skipped phrase.
BeatCheck(t) ==
  /\ beat[t].pc = "check"
  /\ \/ t \notin answerReady /\ GoTo(t, "announce")
     \/ t \in answerReady /\ GoTo(t, "done")
     \/ t \in answerReady /\ beat' = [beat EXCEPT ![t] = [pc |-> "wait", count |-> @.count + 1]]
  /\ UNCHANGED <<turn, main, answerReady, speaking, stop, playerVars>>

BeatAnnounce(t) ==
  /\ beat[t].pc = "announce"
  /\ speaking' = speaking \union {t}
  /\ GoTo(t, "enter")
  /\ UNCHANGED <<turn, main, answerReady, stop, playerVars>>

\* A plausible bug: the shared stop event is cleared before the lock is held.
EnterClearsFirst(t) ==
  /\ beat[t].pc = "enter"
  /\ presenceStop' = FALSE
  /\ IF lock = NoTurn
       THEN lock' = t /\ GoTo(t, "begin")
       ELSE UNCHANGED lock /\ GoTo(t, "leave")
  /\ UNCHANGED <<turn, main, answerReady, speaking, stop, outputs, late, asked>>

\* A plausible bug: the result of acquire(blocking=False) is not looked at.
EnterAnyway(t) ==
  /\ beat[t].pc = "enter"
  /\ lock' = t
  /\ GoTo(t, "clear")
  /\ UNCHANGED <<turn, main, answerReady, speaking, stop, presenceStop, outputs, late, asked>>

\* speak_presence: no phrase (disabled, not cached, ...), or the lock at once.
BeatEnter(t) ==
  /\ beat[t].pc = "enter"
  /\ \/ GoTo(t, "leave") /\ UNCHANGED lock
     \/ lock = NoTurn /\ lock' = t /\ GoTo(t, "clear")
  /\ UNCHANGED <<turn, main, answerReady, speaking, stop, presenceStop, outputs, late, asked>>

BeatClear(t) ==
  /\ beat[t].pc = "clear"
  /\ presenceStop' = FALSE
  /\ GoTo(t, "begin")
  /\ UNCHANGED <<turn, main, answerReady, speaking, stop, lock, outputs, late, asked>>

\* A stop of the real speech keeps the phrase from being played.
BeatBegin(t) ==
  /\ beat[t].pc = "begin"
  /\ IF stop
       THEN GoTo(t, "release") /\ UNCHANGED <<outputs, late>>
       ELSE /\ GoTo(t, "playing")
            /\ outputs' = outputs \union {t}
            /\ late' = IF t \in answerReady THEN [late EXCEPT ![t] = @ + 1] ELSE late
  /\ UNCHANGED <<turn, main, answerReady, speaking, stop, lock, presenceStop, asked>>

\* A plausible bug: the player waits for the stop event and not for the end.
PlayUntilStopped(t) ==
  /\ beat[t].pc = "playing"
  /\ presenceStop
  /\ GoTo(t, "release")
  /\ UNCHANGED <<turn, main, answerReady, speaking, stop, playerVars>>

\* The phrase ends, by itself or at a poll of the stop event.
BeatPlayed(t) ==
  /\ beat[t].pc = "playing"
  /\ GoTo(t, "release")
  /\ UNCHANGED <<turn, main, answerReady, speaking, stop, playerVars>>

\* finally: end_assistant_output, then lock.release()
BeatRelease(t) ==
  /\ beat[t].pc = "release"
  /\ outputs' = outputs \ {t}
  /\ lock' = NoTurn
  /\ asked' = asked \ {t}
  /\ GoTo(t, "leave")
  /\ UNCHANGED <<turn, main, answerReady, speaking, stop, presenceStop, late>>

BeatLeave(t) ==
  /\ beat[t].pc = "leave"
  /\ speaking' = speaking \ {t}
  /\ beat' = [beat EXCEPT ![t] = [pc |-> "wait", count |-> @.count + 1]]
  /\ UNCHANGED <<turn, main, answerReady, stop, playerVars>>

BeatStep(t) ==
  \/ BeatWait(t)
  \/ BeatCheck(t)
  \/ BeatAnnounce(t)
  \/ BeatEnter(t)
  \/ BeatClear(t)
  \/ BeatBegin(t)
  \/ BeatPlayed(t)
  \/ BeatRelease(t)
  \/ BeatLeave(t)

Next ==
  \/ StartTurn
  \/ SpeakBegins
  \/ AudioStarts
  \/ StreamFinishes
  \/ CancelStep
  \/ StopPlayback
  \/ \E t \in Turns : BeatStep(t)

\* The heartbeat threads and a cancel that has begun keep running.
Spec ==
  /\ Init
  /\ [][Next]_vars
  /\ WF_vars(CancelStep)
  /\ \A t \in Turns : WF_vars(BeatStep(t))

-----------------------------------------------------------------------------
\* Phrases of two turns never sound together, though the thread of an earlier turn
\* may still be playing when the next turn's starts.
OnePhraseAtATime ==
  \A t, u \in Turns : beat[t].pc = "playing" /\ beat[u].pc = "playing" => t = u

\* After the answer is ready at most one more phrase begins: the one whose tests
\* were already behind it.
AtMostOneLatePhrase == \A t \in Turns : late[t] <= 1

\* A cancel that finds its phrase playing is not undone: until the phrase is over
\* the shared stop event stays set, whatever a heartbeat of another turn does.
StopReachesPlayingPhrase ==
  \A t \in asked : beat[t].pc = "playing" => presenceStop

\* A heartbeat thread does not outlive its answer for ever, and leaves no output
\* open at the coordinator, which would keep the microphone closed.
HeartbeatEnds ==
  \A t \in Turns :
    t \in answerReady ~> beat[t].pc = "done" /\ t \notin outputs /\ lock # t

\* heartbeat.py:36, "Cancels immediately when the real response becomes ready": when
\* cancel has returned, a phrase of the turn that still plays is being stopped.
CancelStopsPhrase ==
  \A t \in Turns :
    /\ beat[t].pc = "playing"
    /\ t \in answerReady
    /\ main.pc \in {"stream", "idle"}
    => presenceStop
=============================================================================
