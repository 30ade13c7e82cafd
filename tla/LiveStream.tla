------------------------------ MODULE LiveStream ------------------------------
(***************************************************************************)
(* presentation/response_streamer/live_stream.py: a reply the language     *)
(* model is still writing.  A prefetch thread takes the chunks from the    *)
(* model's generator and puts them into a queue of 4; the main thread      *)
(* takes them from it, one ahead of the one it speaks, so that the next    *)
(* can be synthesised meanwhile.  The main thread leaves its loop when an  *)
(* interrupt is requested (barge_in.py, the shutdown) and gives up waiting *)
(* after 45 seconds; nobody tells the prefetch thread.                     *)
(*                                                                         *)
(* The presence heartbeat of the turn runs beside both: this module is     *)
(* PresenceHeartbeat with its streaming thread worked out.  Chunks are     *)
(* numbered in the order the generator yields them.                        *)
(***************************************************************************)
EXTENDS PresenceHeartbeat, Sequences

CONSTANTS
  MaxChunks,  \* bound: chunks of one reply
  QueueSize   \* maxsize of the chunk queue

ASSUME ChunksAssumption == MaxChunks \in Nat
ASSUME QueueAssumption == QueueSize \in Nat \ {0}

None == 0     \* no chunk, and the end mark in the queue
Chunks == 1 .. MaxChunks

VARIABLES
  prefetch,     \* per turn, its prefetch thread: pc, chunks the generator has yielded
  queue,        \* per turn, the chunk queue
  reader,       \* the main thread: its place in the loop, current and next chunk
  interrupted,  \* _requested of the interrupt controller
  spoken,       \* history: per turn, the chunks given to speak(), in order
  left,         \* history: turns whose loop was broken off or whose wait ran out
  ignored       \* history: chunks of the current turn begun under an interrupt

readerVars == <<reader, spoken, left, ignored>>
streamVars == <<prefetch, queue, interrupted, readerVars>>
allVars == <<vars, streamVars>>

Places == {"idle", "first", "next", "test", "speak", "speaking", "failed", "finish"}

StreamTypeOK ==
  /\ TypeOK
  /\ prefetch \in [Turns -> [pc: {"unborn", "produce", "put", "end", "done"},
                             made: 0 .. MaxChunks]]
  /\ queue \in [Turns -> Seq(Chunks \union {None})]
  /\ \A t \in Turns : Len(queue[t]) <= QueueSize
  /\ reader \in [at: Places, current: Chunks \union {None},
                 next: Chunks \union {None}]
  /\ interrupted \in BOOLEAN
  /\ spoken \in [Turns -> Seq(Chunks)]
  /\ left \subseteq Turns
  /\ ignored \in Nat

StreamInit ==
  /\ Init
  /\ prefetch = [t \in Turns |-> [pc |-> "unborn", made |-> 0]]
  /\ queue = [t \in Turns |-> <<>>]
  /\ reader = [at |-> "idle", current |-> None, next |-> None]
  /\ interrupted = FALSE
  /\ spoken = [t \in Turns |-> <<>>]
  /\ left = {}
  /\ ignored = 0

-----------------------------------------------------------------------------
(* _drain, in the prefetch thread of turn t.                               *)

\* The generator yields a chunk, or ends or raises.
Produce(t) ==
  /\ prefetch[t].pc = "produce"
  /\ \/ /\ prefetch[t].made < MaxChunks
        /\ prefetch' = [prefetch EXCEPT ![t] = [pc |-> "put", made |-> @.made + 1]]
     \/ prefetch' = [prefetch EXCEPT ![t].pc = "end"]
  /\ UNCHANGED <<vars, queue, interrupted, readerVars>>

\* A plausible bug: the queue is made without a maxsize.
PutAnyway(t) ==
  /\ \/ /\ prefetch[t].pc = "put"
        /\ queue' = [queue EXCEPT ![t] = Append(@, prefetch[t].made)]
        /\ prefetch' = [prefetch EXCEPT ![t].pc = "produce"]
     \/ /\ prefetch[t].pc = "end"
        /\ queue' = [queue EXCEPT ![t] = Append(@, None)]
        /\ prefetch' = [prefetch EXCEPT ![t].pc = "done"]
  /\ UNCHANGED <<vars, interrupted, readerVars>>

\* put() waits for room, without a timeout.
Put(t) ==
  /\ Len(queue[t]) < QueueSize
  /\ \/ /\ prefetch[t].pc = "put"
        /\ queue' = [queue EXCEPT ![t] = Append(@, prefetch[t].made)]
        /\ prefetch' = [prefetch EXCEPT ![t].pc = "produce"]
     \/ /\ prefetch[t].pc = "end"
        /\ queue' = [queue EXCEPT ![t] = Append(@, None)]
        /\ prefetch' = [prefetch EXCEPT ![t].pc = "done"]
  /\ UNCHANGED <<vars, interrupted, readerVars>>

PrefetchStep(t) == Produce(t) \/ Put(t)

-----------------------------------------------------------------------------
(* _execute_live_stream, in the main thread.                               *)

\* A command has cleared the interrupt; prefetch and heartbeat are started.
StartStream ==
  /\ StartTurn
  /\ prefetch' = [prefetch EXCEPT ![turn'].pc = "produce"]
  /\ reader' = [at |-> "first", current |-> None, next |-> None]
  /\ interrupted' = FALSE
  /\ ignored' = 0
  /\ UNCHANGED <<queue, spoken, left>>

Streaming(place) == main.pc = "stream" /\ reader.at = place

\* next(live_iterator) gives c: the head of the queue, or None when the wait for one
\* runs out.  After a None the loop does not ask again.
NextLiveChunk(c) ==
  \/ /\ queue[turn] # <<>>
     /\ c = Head(queue[turn])
     /\ queue' = [queue EXCEPT ![turn] = Tail(@)]
     /\ UNCHANGED left
  \/ /\ queue[turn] = <<>>
     /\ c = None
     /\ left' = left \union {turn}
     /\ UNCHANGED queue

\* The loop goes on with chunk c, if there is one.
WithChunk(c) ==
  reader' = [at |-> IF c = None THEN "finish" ELSE "next", current |-> c, next |-> None]

FetchFirst ==
  /\ Streaming("first")
  /\ \E c \in Chunks \union {None} : NextLiveChunk(c) /\ WithChunk(c)
  /\ UNCHANGED <<vars, prefetch, interrupted, spoken, ignored>>

LookAhead ==
  /\ Streaming("next")
  /\ \E c \in Chunks \union {None} :
       /\ NextLiveChunk(c)
       /\ reader' = [reader EXCEPT !.at = "test", !.next = c]
  /\ UNCHANGED <<vars, prefetch, interrupted, spoken, ignored>>

BreakOff ==
  /\ reader' = [reader EXCEPT !.at = "finish"]
  /\ left' = left \union {turn}

\* A plausible bug: only a chunk that fails makes the loop look for an interrupt.
TestNothing ==
  /\ Streaming("test")
  /\ reader' = [reader EXCEPT !.at = "speak"]
  /\ UNCHANGED <<vars, prefetch, queue, interrupted, spoken, left, ignored>>

\* _interrupted() before the chunk is spoken.
TestInterrupt ==
  /\ Streaming("test")
  /\ IF interrupted
       THEN BreakOff
       ELSE reader' = [reader EXCEPT !.at = "speak"] /\ UNCHANGED left
  /\ UNCHANGED <<vars, prefetch, queue, interrupted, spoken, ignored>>

SpeakChunk ==
  /\ Streaming("speak")
  /\ SpeakBegins
  /\ reader' = [reader EXCEPT !.at = "speaking"]
  /\ spoken' = [spoken EXCEPT ![turn] = Append(@, reader.current)]
  /\ ignored' = IF interrupted THEN ignored + 1 ELSE ignored
  /\ UNCHANGED <<prefetch, queue, interrupted, left>>

\* on_first_audio, called by speak(), cancels the heartbeat.
FirstAudio ==
  /\ Streaming("speaking")
  /\ AudioStarts
  /\ UNCHANGED streamVars

ChunkSpoken ==
  /\ Streaming("speaking")
  /\ \/ WithChunk(reader.next)
     \/ reader' = [reader EXCEPT !.at = "failed"]
  /\ UNCHANGED <<vars, prefetch, queue, interrupted, spoken, left, ignored>>

\* A plausible bug: the chunk that failed stays the current one.
FailedStays ==
  /\ Streaming("failed")
  /\ IF interrupted
       THEN BreakOff
       ELSE WithChunk(reader.current) /\ UNCHANGED left
  /\ UNCHANGED <<vars, prefetch, queue, interrupted, spoken, ignored>>

\* A plausible bug: a chunk that failed ends the loop.
FailedBreaks ==
  /\ Streaming("failed")
  /\ reader' = [reader EXCEPT !.at = "finish"]
  /\ UNCHANGED <<vars, prefetch, queue, interrupted, spoken, left, ignored>>

\* _interrupted() after a chunk that was not spoken; else the loop goes on.
ChunkFailed ==
  /\ Streaming("failed")
  /\ IF interrupted
       THEN BreakOff
       ELSE WithChunk(reader.next) /\ UNCHANGED left
  /\ UNCHANGED <<vars, prefetch, queue, interrupted, spoken, ignored>>

\* finally: the heartbeat is cancelled for good.
FinishStream ==
  /\ Streaming("finish")
  /\ StreamFinishes
  /\ reader' = [reader EXCEPT !.at = "idle"]
  /\ UNCHANGED <<prefetch, queue, interrupted, spoken, left, ignored>>

MainStep ==
  \/ FetchFirst
  \/ LookAhead
  \/ TestInterrupt
  \/ SpeakChunk
  \/ ChunkSpoken
  \/ ChunkFailed
  \/ FinishStream
  \/ CancelStep /\ UNCHANGED streamVars

\* request(), by a barge-in or the shutdown, on any thread.
RequestInterrupt ==
  /\ interrupted' = TRUE
  /\ UNCHANGED <<vars, prefetch, queue, readerVars>>

StreamNext ==
  \/ StartStream
  \/ MainStep
  \/ FirstAudio
  \/ RequestInterrupt
  \/ (SpeakBegins \/ StopPlayback) /\ UNCHANGED streamVars
  \/ \E t \in Turns : BeatStep(t) /\ UNCHANGED streamVars
  \/ \E t \in Turns : PrefetchStep(t)

\* The threads keep running: the generator ends by the timeouts of its requests, the
\* waits of the main thread have a timeout, and speak() returns (SynthesisQueue).
StreamSpec ==
  /\ StreamInit
  /\ [][StreamNext]_allVars
  /\ WF_allVars(MainStep)
  /\ \A t \in Turns : WF_allVars(BeatStep(t) /\ UNCHANGED streamVars)
  /\ \A t \in Turns : WF_allVars(PrefetchStep(t))

-----------------------------------------------------------------------------
IsOver(t) == t < turn \/ (t = turn /\ main.pc = "idle")

\* The chunks are spoken in the order the model wrote them, none twice and none left
\* out, and all of them, unless the loop was broken off or its wait ran out: whatever
\* chunks failed, and with one chunk always taken ahead.
ChunksKept ==
  /\ \A t \in Turns : \A i \in 1 .. Len(spoken[t]) : spoken[t][i] = i
  /\ \A t \in Turns : IsOver(t) /\ t \notin left => Len(spoken[t]) = prefetch[t].made

\* speak() clears the flag of stop_playback(), so an interrupt that falls between the
\* test and that clear is not heard by the chunk; it is by the test after it.
OneChunkAfterInterrupt == ignored <= 1

\* Every turn ends: its loop returns whatever model and threads do, its heartbeat is
\* over and leaves neither output nor lock, and its prefetch thread has ended unless
\* the loop left it behind.
TurnEnds ==
  \A t \in Turns :
    t <= turn ~>
      /\ IsOver(t)
      /\ beat[t].pc = "done" /\ t \notin outputs /\ lock # t
      /\ prefetch[t].pc = "done" \/ t \in left

\* No document says so: a prefetch thread waits for room only while its loop reads.
NoPrefetchLeftBehind ==
  \A t \in Turns :
    IsOver(t) /\ Len(queue[t]) = QueueSize => prefetch[t].pc \notin {"put", "end"}
===============================================================================
