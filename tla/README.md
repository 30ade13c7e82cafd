# NeXa in TLA+

A verification project for the desk assistant *NeXa* (Python, Raspberry Pi 5): the concurrent
components of `modules/` as TLA+ modules, model-checked with TLC on small instances and, for the
safety properties that matter most, proved with TLAPS for every value of the constants. Source paths
below are relative to `src/modules/` unless they begin with `docs/`.

## 1. The system

NeXa waits for a wake word, records a command, routes it (action, conversation, both, unclear) and
answers by voice and on a display. One main thread runs the loop wake -> capture -> recognition ->
routing -> speech. Around it live many daemon threads that share its objects:

| thread | started by | shares with others | module |
|---|---|---|---|
| main loop | `runtime/main_loop/loop.py` | everything | Conversation, and its part in all others |
| stream callback of the microphone | `faster_whisper/backend/capture_mixin.py` | the chunk queue, the audio bus | VoiceCapture |
| TTS synthesis worker, warm-up, prefetch callers | `tts_pipeline/` | `_pending_jobs`, `_job_queue`, cached WAV files, `_stop_requested` | SynthesisQueue |
| presence heartbeat, one per streamed turn | `response_streamer/live_stream.py` | `_answer_ready`, presence lock and stop event, the coordinator | PresenceHeartbeat |
| live prefetch, one per streamed turn | `response_streamer/live_stream.py` | a queue of 4 chunks | LiveStream |
| timer worker, one per timer | `features/timer/service.py` | the timer's fields, the assistant's state and the AI broker in its callbacks | FocusTimer |
| notification, in the timer's or the reminder's thread | `core/flows/notification_flow` | pending question, session state and window | Conversation |
| reminder loop | `core/assistant_impl/memory_background_mixin.py` | the reminder file, speech output | Reminders |
| focus sentinel, tracking worker, focus scans, micro-scans | `features/focus_vision/service.py` | the stamps and flags of the service | FocusSentinel |

### Inventory

For each component: its state; its operations; what is hard; what makes it correct. `PROJECT.json`
lists every component with its files and how far it is modelled.

* **Audio coordinator** (`devices/audio/coordination.py`). Open outputs, manual holds, the deadline
  `blocked_until`; begin/end of an output, force/release of a hold, queries, reset. Hard: several
  threads, clock read outside the lock. Correct: the microphone is blocked exactly while it must be.
* **TTS synthesis queue** (`devices/audio/output/tts_pipeline`). Jobs by text, a priority queue with
  versions, the cached files; request, promotion, synthesis, wait, play, retry, stop. Hard: joins of
  the same text at several priorities, deadlines, files seen half-written, stops. Correct: one
  synthesis per text, no job lost, `speak()` returns, only whole files are played.
* **Presence heartbeat** (`core/presence/heartbeat.py`, `speak_presence`). Events and a lock shared
  by the threads of successive turns. Hard: cancel against a phrase that is about to begin. Correct:
  one phrase at a time, none after the answer (but one), stops are kept, nothing is left open.
* **Live response streamer** (`presentation/response_streamer`). Prefetch thread, chunk queue,
  look-ahead, interrupt request. Hard: a producer nobody tells that the consumer has left, a stop
  flag that `speak()` clears. Correct: chunks in order and complete, an interrupt heeded, all end.
* **Timer** (`features/timer/service.py`, `core/assistant_impl/response_mixin.py`). The running
  timer, a worker per timer, callbacks outside the lock. Hard: stop against deadline, an old worker
  against a new timer, callbacks of two timers. Correct: each timer ends once, effects are undone.
* **AI broker** (`runtime/ai_broker`). Published mode, cadence of the camera's object detection.
  Hard: a decision under the lock, its effects outside. Correct: no focus mode without a focus timer.
* **Reminders** (`features/reminders`, `_reminder_loop`). A list in a JSON file; add, delete, clear,
  the loop's claim of one due reminder, delivery. Hard: load and save are two steps, reads and saves
  fail, the process ends. Correct: no reminder twice, none lost, every due one taken.
* **Realtime audio bus** (`devices/audio/realtime`). Ring buffer of frames, a cursor per reader.
  Hard: overrun, a reader that subscribes late, the exact trim. Correct: it is an append-only log of
  which the newest part is held, and nobody misses a held frame or sees one twice.
* **Speech capture and voice activity** (`faster_whisper/backend`, `voice_engine_v2`,
  `devices/audio/vad`). The bounded queue between callback and recorder, the shield, the replay of a
  recording onto the bus, the endpointing policy. Hard: chunks from before the recording, both
  threads at one queue. Correct: no holes, not the assistant's own voice, exact end points.
* **Conversation**: main loop, voice session, resume policy, pending questions, command and dialogue
  flows, notifications (`runtime/main_loop`, `core/session`, `core/flows`,
  `core/assistant_impl/interaction_mixin.py`). Hard: a notification changes question, state and
  window under the main thread, without a lock. Correct: a reply answers the question the user
  heard, the session comes to rest, nothing is asked or retried for ever.
* **Focus vision** (`features/focus_vision`). Stamps and flags shared by four kinds of threads.
  Hard: old scans meet the state of new ones, results outdated when they arrive. Correct: tracking
  is paused only for a live scan, an absence is answered, a face that is back resets everything.
* **JSON persistence** (`shared/persistence`). Files that hold one payload, read, written and
  updated by threads that share a store and its lock; a write is a temporary file, fsync and a
  rename. Hard: failures, crashes and power cuts between these steps. Correct: never half a payload,
  each call at one moment or not at all.
* **Camera, tracking, pan-tilt, mobile base, drive
  mode**, **memory**, **understanding**, **display and Visual Shell**, **acknowledgements**,
  **builder, product state, health, telemetry, validation, settings, logging, deployment,
  scripts**: section 5 and the notes in `PROJECT.json`.

How they meet: every voice goes through `AudioCoordinator`, whose shield the recorder looks at
(`VoiceCapture` has it as one bit, as `ShieldExact` justifies); `LiveStream` is `PresenceHeartbeat`
with its streaming thread worked out; `VoiceCapture` drives the `AudioBus`, which implements
`FrameLog`; `FocusTimer` drives the `AiBroker` and, in its callbacks, the sentinel that
`FocusSentinel` details; `Conversation` runs the dialogues of `PendingFlow` and takes the timer's
and the reminders' notifications as given; `Reminders` reads and writes its file as
`JsonStore` allows, which implements `AtomicFile`.

## 2. Modules

A component's module has its state, one action per operation or step, its specification and its
properties; an `MC` module and `.cfg` files bound it for TLC; a `Proofs` module holds its theorems.
No constant carries more assumptions than the code gives it. Definitions called "a plausible bug" or
"mutant" are mutations of the action that follows them: they are in no specification, and serve to
show that each property is able to fail. "Refuted" properties state what a document or a comment
promises, or what one would wish; those of section 3's table are findings of `PROJECT.json`, the
others have a configuration that is run by hand.

### AudioCoordinator

`activeOutputs`, `manualHolds`/`holdUntil` and `blockedUntil` are the fields of the same name. Each
method holds `_lock` for its body and is one action. `end_assistant_output` reads `time.monotonic()`
and computes the hold *before* it takes the lock, so it is `EndReadClock` and `EndAssistantOutput`,
with any ticks and calls in between. `InputBlocked` is the answer of `input_blocked()`, and
`InputBlockedCall` the removal of expired holds that every query makes. `owed` is history: the
deadlines promised since the last reset.

* `ShieldExact`: `input_blocked()` answers True iff an output is open or a promised deadline is
  ahead.
* `OnlyLastEndOpens` (but for the clock, only the last end or `reset` unblocks input) is proved, and
  in no run.
* Refuted, `EveryOutputKeepsItsHold` (`AudioCoordinatorHold.cfg`): the hold of an output that is not
  the last to close is dropped. It uses `SpecNoReset`, since `reset` drops holds on purpose.

Bounds: three outputs (reply, phrase, notification), two manual holds, holds of 0 (what interrupted
or failed speech is ended with) and 2, a clock up to 3: a hold can begin, be overtaken and expire.
Manual holds and `reset` are part of the class and have no caller in the program yet. Every output
and hold is used at most once, as in the code (uuid tokens).

### SynthesisQueue

`jobs`, `pending`, `queue`, `sequence` are `_SynthesisJob`, `_pending_jobs`, `_job_queue`,
`_job_sequence`. Threads: the worker, the thread inside `speak()` (`_speak_lock` admits one), and
requesters that only queue. A step is a region under `_prefetch_lock` or one file or event
operation. A file is `none`, `partial` (open for writing) or `whole`; `writers` says who has it
open, and an unlink or rename leaves a writer with a file nobody sees. A finished job is popped from
`pending` in a step of its own, as `_finalize_job_cleanup` does. `SpeakLook` has one disjunct per
path of `_ensure_current_wav_ready`; which path applies by length and latency profile of the text is
a free choice. A deadline may pass at any time. `dropped` is history: jobs whose live entry the
worker threw away.

* `UnfinishedIsPending`: requests are deduplicated, although finished jobs are popped late.
* `OnlyStopLosesAJob`: promotions lose no job; only a drop under a requested stop does.
* `EveryJobFinishes`, `SpeakReturns` (under `FairSpec`).
* Refuted: `NoStrandedJob` (`SynthesisQueueStranded.cfg`; a drop leaves a job that later requests
  join and nobody works on) and `OnlyWholeFilesPlayed` (`SynthesisQueuePartial.cfg`; readers decide
  by `exists()` while the file is written in place).

Bounds: one text, two job objects, one requester. Texts interact only through the queue's order and
the worker; two jobs are what it takes for a finished job to be replaced while an older entry of it
is still in the queue. The pool of jobs is the bound of the run: `SpeakReturns` excludes a speaker
that finds the pool empty. The proofs have no such bounds.

### FocusTimer, AiBroker

`timer` is the timer that `_running`, `_mode` and `_ends_at` describe, 0 when `_running` is false;
`expired` is whether its deadline has passed. `start` is `StartTimer` (under the lock), the
callback, `StartThread`; `stop` is `StopTimer`, `SignalWorker` (the event), the callback,
`StopReturns`. A worker's loop is `WorkerCheck`, `WorkerLock`, `WorkerTick`. `_run` compares `_mode`
with its own mode and not its identity, so an old worker may meet a new timer of its mode
(`RunsModeOf`). Callbacks are sequences of steps in `todo`, pairs of what and to what, executed by
the thread that caused them: state set or cleared, the state copied for its save, the copy put in
its place when `write()` returns (`persistence_mixin.py:23`), sentinel started, sentinel stop (the
event, then, after the join, `_running`), countdown shown or hidden, and the two steps of a
transition of the AI broker: cadence of the object detection (`lane`), then snapshot (`published`).
The main thread's turns take the broker through their own modes, and its `tick` ends a recovery
window. The write may raise instead of returning (`SaveRaises`): no caller up to `start`, `stop` and
`_run` catches it, so the rest of the callback, and of the call, is skipped. What else the callbacks
call catches what it raises.

* `EachTimerEndsOnce`, `FinishedByOwnWorker`: also when saves raise. `TimerEnds` (liveness): unless
  one has, as a `start` whose save raises leaves a timer that runs and has no worker.
* `NothingLeftOn`: whatever the callbacks of overlapping timers and the turns did, once nothing runs
  the sentinel does not watch, broker and camera are in no focus mode; unless a save has raised,
  which leaves them on.
* Refuted: `StateNamesNoTimer` (`FocusTimerState.cfg`): a callback that is late with its save puts
  back a copy that names the timer of another (the copy was made while that one ran), and nothing
  clears it when that timer ends.
  `SentinelFollowsFocusTimer` (`FocusTimerSentinel.cfg`): `stop` of the sentinel joins its
  loop outside the lock and clears `_running` afterwards (`features/focus_vision/service.py:195`),
  `start` returns at once while it is set, so the start of the next focus timer is swallowed.
  `CountdownEndsWithTimer` (`FocusTimerCountdown.cfg`): a late tick shows the countdown again.
  `LaneFollowsMode` (`FocusTimerLane.cfg`): two transitions cross, and camera and snapshot differ.

Assumption (in `Expire`): a timer lasts a second at least and a worker gets from its stop event to
the lock well within that second, so that no timer expires while the worker of *another* is in
between. Without it a thread suspended for the whole duration of the next timer could finish that
timer. Commands come from one thread, the main loop. Bounds: two timers (the callbacks of one can
be late for the other), all modes and an unknown word (which counts as a plain timer), both kinds of
turn. What a third timer could add to the safety properties is covered by their proofs.

### Reminders

`store` is the list in the file; the list is in the order of creation, so it is a function from ids
and "the first due reminder" a minimum. Each operation is a load and a save, each locked on its own.
Both threads, failed reads (the default, an empty list), failed saves (an exception; the file is
unchanged), process end and restart (`ensure_valid` writes back what could be read). `exposed` is
history: a save fell into another thread's load-save window, or a read failed.

* `SpokenAtMostOnce`, `StoreMatchesCommands`: hold as long as not `exposed`, with failing saves,
  exits and restarts anywhere. `DueReminderIsTaken`: no starvation by `limit=1` or by failures.
* Refuted, `NoReminderLost` (a finding): two windows cross and an added reminder is gone.

The condition `~exposed` is exactly the hazard the refutation exhibits; the passing properties say
that there is no other. Bounds: three reminders (one never due, one due behind it, one changed
meanwhile); `ReadsFail` switches failed reads on.

### JsonStore and AtomicFile

`JsonStore` is the primitive under the reminders, the session state, the telemetry and the status
files: the file and the temporary file (by what their paths name), whether the latter is on the disk
(`synced`), what a power cut may bring back (`recent`), `_lock`, and for each thread the operation,
where it is in it, its payload and its answer. Every operation is there, `ensure_valid` of the
repositories as the two calls it is. Reading is one step, since a reader holds the lock; a write is
`Open`, `Dump`, `Fsync`, `Rename`, any of which may raise (`WriteFails`, `CleanUp`; an updater that
raises looks the same). `StoreExit` ends the process between any two steps and a new one starts on
what it left; `PowerCut` undoes renames that have not reached the disk and makes data that was not
synced anything. `AtomicFile` has no lock and no temporary file: a call is asked for, takes effect
in one step (`Get`, `Put`, `Change`, ...) or fails without one, and is answered.

* `NeverDamaged`: a file that was whole stays so, whatever fails, ends or is cut. Without the fsync
  it does not.
* `ImplementsAtomicFile`: the store refines `AtomicFile`. An `update` starts from what the file holds
  when it takes effect; the default replaces a payload only after a failed read, on request of
  `reset` or by `ensure_valid`. Between the two calls of `ensure_valid` another thread may write, and
  loses that (`Doubt`, `Repair`); the program calls it at start-up only, before its threads run.
* `LockGivenBack`: a thread that has the lock gives it back, failing or not.

The refinement is what allows `Reminders` to take a load and a save as one step each. Assumed of the
file system: a rename is atomic, and fsync keeps its promise. Threads share the store object: settings and the first
creation of files make stores of their own, with locks of their own, while one thread runs.
Bounds: two threads, two payloads, an update that turns either into the other.

### PresenceHeartbeat

A turn starts a manager and its thread (`beat[t]`); the streaming thread (`main`) cancels it at the
first real audio and at the end of the stream. `cancel` is `CancelSet`, `CancelLook`, `CancelStop`,
`CancelAbort`, `CancelJoin`; `speak_presence` is `BeatEnter` (any skip, or the lock), `BeatClear`
(the stop event), `BeatBegin`, `BeatPlayed`, `BeatRelease`. The join has a timeout, so the thread of
one turn may overlap the next turn's. Real speech appears as its effect on `_stop_requested`.

* `OnePhraseAtATime`, `AtMostOneLatePhrase`, `StopReachesPlayingPhrase`, `HeartbeatEnds` (liveness).
* Refuted, `CancelStopsPhrase` (`PresenceHeartbeatCancel.cfg`): a stop that falls between the last
  test of `_answer_ready` and the clear of the stop event is lost.

Bounds: two turns (overlap of neighbours), two phrases (one can follow the phrase a cancel came
upon).

### LiveStream

`PresenceHeartbeat` with its streaming thread worked out: a reply the language model is still
writing. The prefetch thread (`prefetch[t]`: `Produce`, `Put`) puts the generator's chunks into
`queue[t]`; the main thread (`reader`) takes one (`FetchFirst`), then the one after it
(`LookAhead`), looks for an interrupt (`TestInterrupt`), speaks (`SpeakChunk`, during which
`FirstAudio` cancels the heartbeat), and looks again only when the chunk failed (`ChunkFailed`).
A wait for a chunk may run out (45 s). `put` has no timeout, and nobody tells the prefetch thread
that the loop has been left. Interrupts (`RequestInterrupt`) come from barge-in and from the
shutdown; a notification does not interrupt. `handle_command` clears the request before the turn.

* `ChunksKept`: chunks are spoken in the order they were written, none twice, and all of them unless
  the loop was broken off or its wait ran out, whichever chunks failed.
* `OneChunkAfterInterrupt`: `speak()` clears the flag of `stop_playback()`, so a chunk may be begun
  under an interrupt; only one can.
* `TurnEnds` (liveness): loop, heartbeat and prefetch thread end, and leave neither output nor lock;
  the prefetch thread unless the loop left it behind.
* Refuted, `NoPrefetchLeftBehind` (`LiveStreamLeft.cfg`): a loop that is broken off leaves its
  prefetch thread waiting at a full queue, with the model's stream open.
* `THEOREM StreamImplementsHeartbeat`: every behaviour is one of `PresenceHeartbeat`.

Bounds: one turn with one phrase, four chunks against a queue of two, so that the producer can be
blocked with chunks spoken, in hand, queued and waiting. Turns touch each other only through the
heartbeat, of which `PresenceHeartbeat` takes two. A live plan has no chunks of its own, so the loop
over them is left out.

### FrameLog, AudioBus, VoiceCapture

`FrameLog` is the promise of the bus: an append-only log, a suffix of which is held (`base`), and
readers that get contiguous runs of held frames. `AudioBus` has the ring (`frames`, `sampleCount`),
`nextSeq` and the cursors; an operation is one step, since bus and ring lock its whole body. It
implements `FrameLog` with `base <- nextSeq - Len(frames)` and `pos <- cursor` (`ImplementsFrameLog`,
checked by the run and proved). `VoiceCapture` lets the program drive it: the callback publishes each
chunk and puts it into the bounded queue in a further step (`Put`, or `DropOldest` when full); the
main thread flushes, looks at the shield before each chunk, records with its pre-roll, gives up on a
time-out at any look, replays the recorded window onto the same bus and lets the bridge read and
score frames through `EndpointingPolicy`, which may fail half-way.

* `RetentionExact`: the ring holds the longest suffix that fits, and always the newest frame.
* `CaptureContiguous`: a recording has no holes but chunks dropped from a full queue.
* `OnlyLastChunkSelfHeard`: of the assistant's own voice a command holds the last chunk at most.
* `SpeechStateExact`: the policy is in speech exactly when enough speech was scored since it was
  armed and not enough silence after it.

Assumption (in `ShieldDown`): the chunk the callback was recording when the assistant's output ended
has been queued before the hold after speech is over. Bounds: five samples against chunks of two and
frames of one or two (the trim stops on and off a frame's edge), reads of two frames, a queue of
one, pre-roll of two, speech of four samples and silence of three, three chunks, two recordings.

### PendingFlow, Conversation

`PendingFlow` is the table of dialogues: which command asks which question, what each class of reply
does to each pending question. `Conversation` is the loop around it. `followUp`, `confirmation`,
`clarify`, `toStandby` are the assistant's `pending_follow_up`, `pending_confirmation`,
`_last_clarification_repeat_context`, `_return_to_wake_standby_after_response`; `vstate` and
`window` the voice session; `phase`, `attempts` the active window; `delivered` the delivery
snapshot. `notice` is the thread of one notification, `speaker` who has the voice, `told` history: what
the user was told last, and by whom. A step is what a thread does between two points where another
can matter: reads and writes of the pending question, of session and window, waits for a voice.

* `AnsweredAsAsked`: a reply is taken for the answer to a question of the main thread only if that
  is the last thing the main thread said.
* `RestingState`: at the wake gate, with no notification under way, the session is in standby.
* `StandbyServesOneTurn`: the wish to return to standby does not outlive its reply.
* `RepeatsBounded`: the user is not asked to repeat for ever. A fresh query after the wake phrase
  (`_clear_stale_dialogue_follow_up`; whether a text begins like one is left open) clears the request
  and starts the count anew. `BackToGate` (liveness).
* Refuted: `DestructiveOnlyIfConfirmed` (a finding), `GraceAfterReply` (`ConversationGrace.cfg`): the
  delivery snapshot is forgotten before the resume policy is asked, and
  `ConversationPreserved` (`ConversationPreserved.cfg`): a notification that found nothing pending
  closes the window of a question asked since.

Bounds: the notification of a finished focus timer, which also writes a question, and one timer the
main thread announces itself; three utterances of fifteen classes, one guess of two commands; two
utterances make a question and its answer, a third what comes between or after. Left out: barge-in
(off in the shipped settings), the spoken wake acknowledgement (skipped with the dedicated wake
gate), mixed routes, the Polish request to complete half a topic
(`partial_polish_dialogue_topic`), the thinking state, ownership of the input device (diagnostics only), time.

### FocusSentinel

The service in its deployed settings: sentinel loop, tracking worker, threads of focus scans and of
micro-scans, start and stop. A `since` stamp is an age that grows with `Tick` up to its limit;
`outdated` holds the stamps a person was seen after. What a camera read shows, what the reminder
policy grants and how long speech takes are free choices.

The joins of `stop` are timed (`service.py:202`), and a thread that speaks a reminder (the worker's of
an absence or a phone, the sentinel's at the end of a tick) outlives them. `Stop` is therefore one
step that waits for nobody, and `Start`, which clears the stop event, decides which threads have
looked at it by then: the others go on beside the new ones. A reminder about a phone changes nothing,
so a worker that speaks it is one in its loop that takes no step; a worker that speaks of an absence
marks the episode afterwards, possibly that of a later session. The finally of a sentinel that looked
just before `start` cleared the event may lower `_running` again, and the session then has workers
that do nothing until it is stopped and started: the liveness properties suppose `running`.

* `PausedOnlyForLiveScan`: the flags that pause tracking name a thread that will lower them.
* `PauseEnds`, `AbsenceAnswered`, `FaceResets` (liveness; the last two under what they suppose of
  the camera, which is stated in them).
* Refuted, `OneScanPerAbsence` (`FocusSentinelScans.cfg`): one absence may be scanned repeatedly.

Bounds: `Threads` of three, that is one worker with two scans (an expired one that is slow to stop and
its successor), or two workers (one of an earlier session) with a scan; any number of sentinel
threads, which have no state of their own; one micro-scan; debounce and hold of one tick. The proof
has any number.

## 3. Runs

| run | asks | distinct states | result |
|---|---|---|---|
| AudioCoordinator | `ShieldExact` | 1 148 544 | holds |
| SynthesisQueue | safety and liveness | 262 916 | holds |
| FocusTimer | safety and liveness | 158 573 | holds |
| Reminders | safety and liveness | 134 631 | holds |
| RemindersLost | `NoReminderLost` | | refuted |
| JsonStore | safety, liveness and the refinement of `AtomicFile` | 82 320 | holds |
| PresenceHeartbeat | safety and liveness, two turns | 57 186 | holds |
| LiveStream | safety and liveness, stream and heartbeat | 299 814 | holds |
| VoiceCapture | safety and the refinement of `FrameLog` | 637 015 | holds |
| Conversation | safety and liveness | 1 017 048 | holds |
| ConversationDestructive | `DestructiveOnlyIfConfirmed` | | refuted |
| FocusSentinel | safety and liveness | 191 118 | holds |

The two refuted properties quote a sentence of the code's comments or documents; `PROJECT.json`,
"findings", tells the behaviour. By hand, `tlc -config <cfg> MC<module>` refutes the property named
after each of `AudioCoordinatorHold`, `SynthesisQueuePartial`, `SynthesisQueueStranded`,
`FocusTimerState`, `FocusTimerSentinel`, `FocusTimerCountdown`, `FocusTimerLane`,
`PresenceHeartbeatCancel`, `LiveStreamLeft`, `ConversationGrace`, `ConversationPreserved`, `FocusSentinelScans` in section 2.

**Symmetry** is used only for `AudioCoordinator`, whose run checks no liveness. **Deadlock** is
checked for `SynthesisQueue`, `Reminders`, `JsonStore`, `PresenceHeartbeat` and `LiveStream`, where
something (a stop or an interrupt request, a command, a restart) is always possible. In the others the bounded
resources may be used up or the session may be over.

**Fairness.** Weak fairness on steps of a thread that is in its loop and not blocked: the interpreter
schedules it eventually, and every wait in these steps has a timeout or ends by a step that is fair
itself.

* `SynthesisQueue`: the worker and the thread inside `speak()`; nobody must speak, request or stop.
* `FocusTimer`: the workers, the main thread inside `start`/`stop`, the passing of time. No save has
  to raise.
* `PresenceHeartbeat`: the heartbeat threads and a cancel that has begun. `LiveStream`: besides, the
  loop of the main thread (its waits have timeouts, and `speak()` returns by `SynthesisQueue`) and
  the prefetch threads (requests to the model have timeouts), as far as `put` finds room.
* `Reminders`: the loop, and *strong* fairness of its save: a disk that refuses every save for ever
  starves every reminder, so the property assumes it does not; `LoopSaveFails` may otherwise happen
  any number of times.
* `JsonStore`: a thread that has the lock gets on with its call; none must get the lock.
* `Conversation`: the main thread's own steps and each notification that has begun; nobody must
  speak and no timer must finish.
* `FocusSentinel`: time, and the steps of all threads that do not depend on what the camera shows.
* `VoiceCapture` has no liveness property, `AudioCoordinator` neither.

## 4. Proofs

Every module's type invariant is proved; the runs repeat it where it also says that a queue or a count
keeps its bound or a setting its range (`FocusTimer`, `LiveStream`, `VoiceCapture`, `Conversation`).

All theorems are of the form `Spec => []P` or `Spec => [][A]_vars` or a refinement, for arbitrary
constants under the assumptions named in the modules (finite or infinite sets of outputs, texts and
jobs; any number of timers, reminders, turns, phrases, chunks, frames, notices and threads). Each
follows from an inductive invariant, checked action by action.

* `AudioCoordinatorProofs`. `blockedUntil` is the largest of the promised deadlines: every one is at
  most `blockedUntil`, which is 0 or one of them, and no manual hold reaches beyond. `ShieldExact` and `OnlyLastEndOpens`
  follow from it; `ShieldExact` alone is not inductive, since it says nothing of deadlines that are
  not the largest.
* `SynthesisQueueProofs`. Besides the two properties: the worker finalises only a job whose event is
  set, a key maps to a job of that key, queue and worker hold created jobs only. This is why a late
  pop cannot remove an unfinished job, and why an entry that is passed over as stale is not the last
  of its job.
* `FocusTimerProofs`. A worker whose timer is over has its stop event set, or `stop` is about to set
  it while no timer runs; once a timer has expired, only its own worker can be between the event and
  the lock (the assumption in `Expire`). A save that raises takes a thread out of its callback: that a
  thread has steps ahead only in a callback or a turn is part of the invariant. `NothingStaysOn`:
  until a save raises, whatever is on has an owner, which is the running timer, the main thread about
  to run its callback, or a thread with the step that turns it off still ahead; only the callback of
  a start turns anything on, and its timer runs meanwhile.
* `PersistenceProofs`. Of the reminders: while not `exposed`, the list a thread holds equals the file,
  so that its save changes only its own reminder; delivered reminders are `done` or gone, and one
  about to be spoken has not been spoken. Of the store: `StoreInv` says that a thread is inside a call exactly if it
  holds the lock, that a write past its dump finds its payload in the temporary file, and synced
  before the rename, and `Intended`: until the rename the file is as the call found it, so that the
  payload of an update is still made from what the file holds. Hence the rename is the moment at
  which a write takes effect, and `StoreImplementsFile` maps each step to a step of `AtomicFile` or
  to none, for any threads, payloads and updates; `FileStaysWhole` needs `synced` at the rename.
* `PresenceHeartbeatProofs`. Of the heartbeat: the lock is held exactly by the thread between
  acquire and release, so the stop event of a playing phrase can be cleared by nobody; a thread past
  its tests has not been counted late yet. Of the stream: its steps are steps of the heartbeat or
  leave its variables alone, which is the refinement and carries the heartbeat's invariant over.
  `SInv` adds that the queue of the current turn continues the chunk fetched last, the chunks in
  hand continue the spoken ones, and a loop that got no chunk without its wait running out has had
  all the generator yielded. `ChunksKept` is not inductive without the middle of that chain.
* `VoiceCaptureProofs`. `BusInv`, the types of the bus and that the held frames are numbered without
  gaps up to `nextSeq`, makes each bus operation a step of `FrameLog`: `BusRefinesLog` for any
  readers, `CaptureRefinesLog` for the bus as recorder, callback and bridge drive it. `ChainInv`:
  from the last chunk of the pre-roll through the queue to the chunk the callback holds or will be
  given next, each chunk follows the one before but for dropped ones; the recording ends where the
  pre-roll ends. `CaptureContiguous` alone says nothing of the queue, from which the next chunk
  comes. `HeardInv`: while the shield is down, a recorder that looks at it before each chunk has no
  chunk of the assistant's voice before it, in the queue or in the callback's hands.
  `RingKeepsWhatFits`: `sampleCount` is the total of the held frames, a suffix of the log, and the
  number of frames a publish drops is the least that makes the rest fit; so the newest frame that is
  gone would not fit with what is held, and no older one either, since totals only grow
  (`TotalMonotone`). `SpeechStateIsExact`: the statement of the property alone is not inductive, as
  it says nothing of a run that is still too short. `Exact` adds that the policy's counter is the
  length of the run at the end of what was scored, and less than what would change its mind; one
  more frame lengthens that run or begins another (`ExactStep`), and a batch is so many frames, in
  one read or several (`FoldExact`). `BoundInv`: the callback puts only where there is room.
* `ConversationProofs`. Types; `StandbyInv` (where the wish to return to standby is set, the policy
  that takes it back is still ahead); `RestInv` (whoever has opened the session, the main thread or
  a notification, has the step ahead that returns it to standby); `AskedInv` (a pending question is
  either a timer's offer, a repair, or the last thing the main thread said); `RepeatInv` (the
  requests heard are at most those counted by the pending question, by the question being answered
  or by the count kept for the next one; where nothing counts them, a reply that ends the row is
  still ahead, and a new question starts at zero only when there were none).
* `FocusSentinelProofs`. `TypeOK` and `PausedOnlyForLiveScan` are inductive together.

*Sums and folds.* `RetentionExact` and `SpeechStateExact` speak of sums over frames and of a fold
over a batch. What a recursive function computes is a statement about all lengths; it is proved by
`NatSetInduction`, induction stated of a *set* of naturals (a non-empty set of counterexamples would
have a least element, `WFMin` of the library), so that no operator is a parameter.

Every safety property of the runs, action properties and refinements included, is proved. Only
model-checked are the liveness properties: there is no ENABLED and no fairness in the prover. The
refutations are counterexamples TLC finds.

## 5. Not modelled, and why

* **Text**: command grammar, parsing and routing, language models, quality gates, memory search,
  wording in two languages. Pure functions of strings over large tables, which are most of the
  program's lines; in the models their results are free choices or classes of replies.
* **Numbers**: signal levels, the voice detector, face and body detection, pan-tilt geometry, motion
  ramps, the decision engine's scores. The models take their outcome as a free choice.
* **I/O and drawing**: display, Visual Shell and its transport, serial lines, cameras, Piper and the
  audio back ends. They appear as steps that take time and may fail.
* **Observation**: telemetry, benchmarks, validation, health, product state, shadow modes of voice
  engine v2. They read the system and change nothing it depends on.
* **Memory**: the service loads, changes and saves its file as the reminders do, from one thread.
* **Off in the shipped settings**: barge-in with its interrupt generations, periodic focus scans.
  `capture_worker.py` of the audio bus is started by nothing.
* **Acknowledgements**: `thinking_ack` has the cancel-against-speak race of the presence heartbeat,
  with one thread instead of many; the wake acknowledgement is skipped with the dedicated wake gate.
* **Drive mode, mobile base**: one thread, commands to a serial line.
* **Build, deployment, settings, scripts**: no behaviour of their own.

For these reasons the modules account for a small share of the repository's lines: its shared-state
concurrency sits in few files, and those have modules. What would come next: barge-in and the interrupt
generations, if they are switched on; a failed boot and the order of shutdown.
