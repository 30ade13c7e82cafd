----------------------------- MODULE VoiceCapture -----------------------------
(***************************************************************************)
(* How microphone sound becomes an utterance, and what the voice activity  *)
(* bridge of voice engine v2 makes of it.  Two threads meet here:          *)
(*  - the stream's callback (capture_mixin.py:236) publishes every chunk   *)
(*    on the audio bus and puts it into the bounded audio_queue, dropping  *)
(*    the oldest chunk when that is full;                                  *)
(*  - the main thread (capture_mixin.py:703, core.py:737) arms the bridge, *)
(*    records from the queue while the shield of the audio coordinator is  *)
(*    down, replays the recorded window onto the same bus and lets the     *)
(*    bridge score the frames through an endpointing policy.               *)
(*                                                                         *)
(* A chunk is an index into chunks; it is speech or not, and selfHeard     *)
(* when the shield was up as it was recorded.  Time is left out: a record  *)
(* loop may end for its timeouts at any look once it can.                  *)
(***************************************************************************)
EXTENDS AudioBus, SequencesExt

CONSTANTS
  Bridge,       \* the reader of vad_timing_bridge.py
  ChunkSamples, \* samples of a callback chunk (blocksize)
  QueueSize,    \* maxsize of audio_queue
  PreRoll,      \* pre_roll_max_chunks
  MinSpeech,    \* min_speech_ms of the endpointing policy, in samples
  MinSilence,   \* min_silence_ms, in samples
  MaxChunks,    \* bound: chunks the microphone delivers
  MaxCaptures   \* bound: recordings begun

ASSUME CaptureAssumption ==
  /\ Bridge \in Readers
  /\ ChunkSamples \in SampleCounts
  /\ {QueueSize, PreRoll, MinSpeech, MinSilence} \subseteq Nat \ {0}

VARIABLES
  chunks,     \* history: the chunks recorded so far, [speech, selfHeard]
  callback,   \* the callback: "idle", or what it does with the last chunk
  audioQueue, \* audio_queue
  stream,     \* the input stream is open
  shield,     \* input_blocked() of the audio coordinator
  rec,        \* the main thread: pc, kind of capture, pre-roll, recorded, window
  policy,     \* the EndpointingPolicy of the bridge
  scored,     \* history: frames scored since the policy was reset
  overflowed, \* history: chunks the callback dropped from a full queue
  captures    \* recordings begun

micVars == <<chunks, callback, audioQueue, overflowed>>
vadVars == <<policy, scored>>
vars == <<busVars, micVars, vadVars, stream, shield, rec, captures>>

Idle == [pc |-> "idle", kind |-> "command", preRoll |-> <<>>, recorded |-> <<>>,
         window |-> <<>>]
NewPolicy == [inSpeech |-> FALSE, candidate |-> 0, silence |-> 0]

Speaks(s) == \E i \in 1..Len(s) : chunks[s[i]].speech
LastOf(s, n) == IF Len(s) <= n THEN s ELSE SubSeq(s, Len(s) - n + 1, Len(s))

Init ==
  /\ BusInit
  /\ chunks = <<>>
  /\ callback = "idle"
  /\ audioQueue = <<>>
  /\ stream = FALSE
  /\ shield = FALSE
  /\ rec = Idle
  /\ policy = NewPolicy
  /\ scored = <<>>
  /\ overflowed = {}
  /\ captures = 0

-----------------------------------------------------------------------------
(* The callback.  The tap publishes first, then the chunk is queued.        *)

Chunk(sp) ==
  /\ stream
  /\ callback = "idle"
  /\ Len(chunks) < MaxChunks
  /\ chunks' = Append(chunks, [speech |-> sp, selfHeard |-> shield])
  /\ callback' = "put"
  /\ Publish(ChunkSamples, sp)
  /\ UNCHANGED <<audioQueue, overflowed, vadVars, stream, shield, rec, captures>>

\* put_nowait finds room, or raises queue.Full.
Put ==
  /\ callback = "put"
  /\ IF Len(audioQueue) < QueueSize
     THEN /\ audioQueue' = Append(audioQueue, Len(chunks))
          /\ callback' = "idle"
     ELSE /\ callback' = "full"
          /\ UNCHANGED audioQueue
  /\ UNCHANGED <<busVars, chunks, overflowed, vadVars, stream, shield, rec, captures>>

\* Mutant: nothing is taken out of the full queue.
DropNothing ==
  /\ callback = "full"
  /\ callback' = "idle"
  /\ audioQueue' = Append(audioQueue, Len(chunks))
  /\ UNCHANGED <<busVars, chunks, overflowed, vadVars, stream, shield, rec, captures>>

\* The oldest chunk is taken out, if the recorder left one, and the new one put.
\* Only the callback puts, so there is room.
DropOldest ==
  /\ callback = "full"
  /\ callback' = "idle"
  /\ audioQueue' = Append(IF audioQueue = <<>> THEN <<>> ELSE Tail(audioQueue),
                          Len(chunks))
  /\ overflowed' = overflowed \union {audioQueue[i] : i \in 1..Len(audioQueue) \cap {1}}
  /\ UNCHANGED <<busVars, chunks, vadVars, stream, shield, rec, captures>>

-----------------------------------------------------------------------------
(* The shield (module AudioCoordinator).  An output and the hold after it    *)
(* last longer than a turn of the record loop and than a run of the          *)
(* callback: the shield does not come down between two looks, or while the   *)
(* callback still holds a chunk.                                             *)

ShieldUp ==
  /\ ~shield
  /\ Len(chunks) < MaxChunks
  /\ shield' = TRUE
  /\ UNCHANGED <<busVars, micVars, vadVars, stream, rec, captures>>

ShieldDown ==
  /\ shield
  /\ rec.pc \notin {"look", "take"}
  /\ callback = "idle"
  /\ shield' = FALSE
  /\ UNCHANGED <<busVars, micVars, vadVars, stream, rec, captures>>

-----------------------------------------------------------------------------
(* The record loop.                                                          *)

\* active_window.py:1204 arms the bridge before a command capture; the wake
\* capture (core.py:1069) does neither that nor a flush.
Arm ==
  /\ Subscribe(Bridge, TRUE)
  /\ policy' = NewPolicy
  /\ scored' = <<>>

\* A capture ends without an utterance; the bridge still observes a command.
NoUtterance(kind) ==
  [Idle EXCEPT !.pc = IF kind = "command" THEN "transcribed" ELSE "idle"]

\* A capture is refused while the shield is up (or was until just before, which
\* is a time the model leaves out); a refused command capture flushes too.
BeginCapture(kind) ==
  /\ rec.pc = "idle"
  /\ captures < MaxCaptures
  /\ captures' = captures + 1
  /\ IF kind = "command" THEN Arm ELSE UNCHANGED <<busVars, vadVars>>
  /\ \/ /\ shield
        /\ audioQueue' = IF kind = "command" THEN <<>> ELSE audioQueue
        /\ rec' = NoUtterance(kind)
        /\ UNCHANGED stream
     \/ /\ ~shield
        /\ rec' = [Idle EXCEPT !.pc = "flush", !.kind = kind]
        /\ stream' = TRUE
        /\ UNCHANGED audioQueue
  /\ UNCHANGED <<chunks, callback, overflowed, shield>>

Flush ==
  /\ rec.pc = "flush"
  /\ rec' = [rec EXCEPT !.pc = "look"]
  /\ audioQueue' = IF rec.kind = "command" THEN <<>> ELSE audioQueue
  /\ UNCHANGED <<busVars, chunks, callback, overflowed, vadVars, stream, shield, captures>>

\* Mutant: the shield is looked at only before the loop.
LookPastShield ==
  /\ rec.pc = "look"
  /\ rec' = [rec EXCEPT !.pc = "take"]
  /\ UNCHANGED <<busVars, micVars, vadVars, stream, shield, captures>>

\* The top of the loop: the shield aborts the capture.
Look ==
  /\ rec.pc = "look"
  /\ IF shield
     THEN /\ rec' = NoUtterance(rec.kind)
          /\ audioQueue' = IF rec.kind = "command" THEN <<>> ELSE audioQueue
     ELSE /\ rec' = [rec EXCEPT !.pc = "take"]
          /\ UNCHANGED audioQueue
  /\ UNCHANGED <<busVars, chunks, callback, overflowed, vadVars, stream, shield, captures>>

\* Mutant: a chunk without speech is left out of the recording.
TakeSpeechOnly ==
  /\ rec.pc = "take"
  /\ audioQueue # <<>>
  /\ audioQueue' = Tail(audioQueue)
  /\ LET chunk == Head(audioQueue)
         preRoll == LastOf(Append(rec.preRoll, chunk), PreRoll)
         recorded == IF ~chunks[chunk].speech THEN rec.recorded
                     ELSE IF rec.recorded # <<>> THEN Append(rec.recorded, chunk)
                     ELSE preRoll
     IN  \E pc \in {"look", "finish"} :
           /\ rec' = [rec EXCEPT !.pc = pc, !.preRoll = preRoll, !.recorded = recorded]
           /\ pc = "finish" => rec.recorded # <<>>
  /\ UNCHANGED <<busVars, chunks, callback, overflowed, vadVars, stream, shield, captures>>

\* One chunk: into the pre-roll, and once speech has begun into the recording,
\* which begins with the pre-roll.  Then the loop goes on or ends.
Take ==
  /\ rec.pc = "take"
  /\ audioQueue # <<>>
  /\ audioQueue' = Tail(audioQueue)
  /\ LET chunk == Head(audioQueue)
         preRoll == LastOf(Append(rec.preRoll, chunk), PreRoll)
         recorded == IF rec.recorded # <<>> THEN Append(rec.recorded, chunk)
                     ELSE IF Speaks(preRoll) THEN preRoll ELSE <<>>
     IN  \E pc \in {"look", "finish"} :
           /\ rec' = [rec EXCEPT !.pc = pc, !.preRoll = preRoll, !.recorded = recorded]
           /\ pc = "finish" => rec.recorded # <<>>
  /\ UNCHANGED <<busVars, chunks, callback, overflowed, vadVars, stream, shield, captures>>

\* The queue stays empty for the read timeout, or the hard timeout is over.
TakeTimeout ==
  /\ \/ /\ rec.pc = "take"
        /\ audioQueue = <<>>
        /\ \/ rec' = [rec EXCEPT !.pc = "look"]
           \/ /\ rec.recorded # <<>>
              /\ rec' = [rec EXCEPT !.pc = "finish"]
     \/ /\ rec.pc = "look"
        /\ rec' = [rec EXCEPT !.pc = "finish"]
  /\ UNCHANGED <<busVars, micVars, vadVars, stream, shield, captures>>

\* Without speech, or with too little, there is no utterance; otherwise it is
\* the recording trimmed to its speech and some padding.  A command is replayed
\* on the bus; a wake phrase is only transcribed.
Finish ==
  /\ rec.pc = "finish"
  /\ \/ rec' = NoUtterance(rec.kind)
     \/ \E a, b \in 1..Len(rec.recorded) :
          /\ rec.kind = "command"
          /\ Speaks(SubSeq(rec.recorded, a, b))
          /\ rec' = [rec EXCEPT !.pc = "replay",
                                !.window = SubSeq(rec.recorded, a, b)]
  /\ UNCHANGED <<busVars, micVars, vadVars, stream, shield, captures>>

\* publish_realtime_audio_bus_capture_window_shadow_tap, chunk by chunk between
\* those of the callback; the last one may be shorter.
Replay ==
  /\ rec.pc = "replay"
  /\ \E n \in SampleCounts, sp \in BOOLEAN :
       /\ n = ChunkSamples \/ (n < ChunkSamples /\ Len(rec.window) = 1)
       /\ sp = chunks[Head(rec.window)].speech
       /\ Publish(n, sp)
  /\ rec' = [rec EXCEPT !.window = Tail(@),
                        !.pc = IF Len(rec.window) = 1 THEN "observe" ELSE @]
  /\ UNCHANGED <<micVars, vadVars, stream, shield, captures>>

-----------------------------------------------------------------------------
(* The bridge scores the frames it reads.                                    *)

\* Mutant: silence does not end a candidate.
ProcessKeepingCandidate(p, frame) ==
  IF frame.speech
  THEN IF p.inSpeech THEN [p EXCEPT !.silence = 0]
       ELSE LET c == p.candidate + frame.samples
            IN  [inSpeech |-> c >= MinSpeech, candidate |-> c, silence |-> 0]
  ELSE IF ~p.inSpeech THEN p
       ELSE LET s == p.silence + frame.samples
            IN  IF s >= MinSilence THEN NewPolicy ELSE [p EXCEPT !.silence = s]

\* EndpointingPolicy.process.
Process(p, frame) ==
  IF frame.speech
  THEN IF p.inSpeech THEN [p EXCEPT !.silence = 0]
       ELSE LET c == p.candidate + frame.samples
            IN  [inSpeech |-> c >= MinSpeech, candidate |-> c, silence |-> 0]
  ELSE IF ~p.inSpeech THEN [p EXCEPT !.candidate = 0]
       ELSE LET s == p.silence + frame.samples
            IN  IF s >= MinSilence THEN NewPolicy
                ELSE [p EXCEPT !.candidate = 0, !.silence = s]

\* observe: the cursor moves past the whole batch before the first frame is
\* scored; a frame that cannot be scored ends the observation.
Observe ==
  \/ /\ Unread(Bridge) = {}
     /\ UNCHANGED <<busVars, vadVars>>
  \/ \E first, last \in 1..Len(frames), ok \in 0..MaxFrames :
       /\ ReadBatch(Bridge, first, last)
       /\ ok <= last - first + 1
       /\ LET batch == SubSeq(frames, first, first + ok - 1)
          IN  /\ policy' = FoldLeft(Process, policy, batch)
              /\ scored' = scored \o batch

\* After the replay (observe_after_capture_window_publish), then after the
\* transcription (observe_after_capture), which disarms the bridge.
ObserveWindow ==
  /\ rec.pc = "observe"
  /\ rec' = [rec EXCEPT !.pc = "transcribed"]
  /\ Observe
  /\ UNCHANGED <<micVars, stream, shield, captures>>

ObserveTranscribed ==
  /\ rec.pc = "transcribed"
  /\ rec' = Idle
  /\ Observe
  /\ UNCHANGED <<micVars, stream, shield, captures>>

-----------------------------------------------------------------------------
\* release_capture_ownership gives the microphone back: clear, then close.
\* Closing waits for the callback; a chunk it queues in between stays queued.
BeginRelease ==
  /\ rec.pc = "idle"
  /\ stream
  /\ audioQueue' = <<>>
  /\ rec' = [Idle EXCEPT !.pc = "close"]
  /\ UNCHANGED <<busVars, chunks, callback, overflowed, vadVars, stream, shield, captures>>

CloseStream ==
  /\ rec.pc = "close"
  /\ callback = "idle"
  /\ stream' = FALSE
  /\ rec' = Idle
  /\ UNCHANGED <<busVars, micVars, vadVars, shield, captures>>

Next ==
  \/ \E sp \in BOOLEAN : Chunk(sp)
  \/ Put \/ DropOldest
  \/ ShieldUp \/ ShieldDown
  \/ \E kind \in {"command", "wake"} : BeginCapture(kind)
  \/ Flush \/ Look \/ Take \/ TakeTimeout \/ Finish
  \/ Replay \/ ObserveWindow \/ ObserveTranscribed
  \/ BeginRelease \/ CloseStream

Spec == Init /\ [][Next]_vars

-----------------------------------------------------------------------------
RecPCs == {"idle", "flush", "look", "take", "finish", "replay", "observe",
           "transcribed", "close"}

TypeOK ==
  /\ BusTypeOK
  /\ chunks \in Seq([speech : BOOLEAN, selfHeard : BOOLEAN])
  /\ callback \in {"idle", "put", "full"}
  /\ audioQueue \in Seq(1..Len(chunks)) /\ Len(audioQueue) <= QueueSize
  /\ stream \in BOOLEAN /\ shield \in BOOLEAN
  /\ rec.pc \in RecPCs
  /\ {rec.preRoll, rec.recorded, rec.window} \subseteq Seq(1..Len(chunks))
  /\ policy \in [inSpeech : BOOLEAN, candidate : Nat, silence : 0..MinSilence]
  /\ scored \in Seq(Frame)

\* What is recorded is what the microphone heard, in order and without holes
\* other than the chunks dropped from a full queue, whatever the callback does
\* between two steps of the recorder (capture_mixin.py:279-290, 703-865).
CaptureContiguous ==
  \A i \in 1..(Len(rec.recorded) - 1) :
    /\ rec.recorded[i] < rec.recorded[i + 1]
    /\ (rec.recorded[i] + 1)..(rec.recorded[i + 1] - 1) \subseteq overflowed

\* Of the assistant's own voice a recorded command holds the last chunk at most:
\* what the queue kept from before is flushed, and the shield is looked at before
\* every chunk (capture_mixin.py:725, 775-780).  A wake capture, which does not
\* flush, gives no such promise.
OnlyLastChunkSelfHeard ==
  rec.kind = "command" =>
    \A i \in 1..(Len(rec.recorded) - 1) : ~chunks[rec.recorded[i]].selfHeard

\* The frames a..b of the scored ones are all of the given sort and last at
\* least n samples.
Run(a, b, speech, n) ==
  /\ \A i \in a..b : scored[i].speech = speech
  /\ Total(SubSeq(scored, a, b), b - a + 1) >= n

\* The incremental policy says "in speech" exactly when, since the bridge was
\* armed, a long enough run of speech was scored and no long enough run of
\* silence after it (endpointing_policy.py:60-143).  So nothing is carried
\* over from an earlier capture or an observation that failed half-way.
SpeechStateExact ==
  policy.inSpeech <=>
    \E b \in 1..Len(scored) :
      /\ \E a \in 1..b : Run(a, b, TRUE, MinSpeech)
      /\ ~\E c, d \in (b + 1)..Len(scored) : c <= d /\ Run(c, d, FALSE, MinSilence)
===============================================================================
