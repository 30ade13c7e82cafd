------------------------------- MODULE AudioBus -------------------------------
(***************************************************************************)
(* modules/devices/audio/realtime: AudioBus numbers the PCM frames and     *)
(* puts them into an AudioRingBuffer, which keeps the last                 *)
(* max_duration_seconds of them; every AudioBusSubscription reads with a   *)
(* cursor of its own.  Publishing holds the bus lock, reading the lock of  *)
(* the ring, subscribing both: each operation is one step.                 *)
(*                                                                         *)
(* The sound of a frame is one bit, whether the voice detector takes it    *)
(* for speech.  FrameLog is the promise; frames, cursors and what readers  *)
(* were given map to it directly.                                          *)
(***************************************************************************)
EXTENDS Integers, Sequences

CONSTANTS
  Readers,          \* subscriptions
  MaxSampleCount,   \* _max_sample_count of the ring
  SampleCounts,     \* sizes a frame may have
  MaxFrames         \* max_frames of a read

ASSUME BusAssumption ==
  /\ MaxSampleCount \in Nat
  /\ SampleCounts \subseteq Nat \ {0}
  /\ MaxFrames \in Nat \ {0}

VARIABLES
  frames,        \* _frames, oldest first
  sampleCount,   \* _sample_count
  nextSeq,       \* _next_sequence of the bus
  cursor,        \* per reader, _next_sequence; -1 without a subscription
  log,           \* history: every frame published
  heard          \* history: per reader, the sequence numbers given to it

busVars == <<frames, sampleCount, nextSeq, cursor, log, heard>>

NoCursor == -1
Frame == [sequence : Nat, samples : SampleCounts, speech : BOOLEAN]

\* The samples of the first n frames of f.
Total(f, n) ==
  LET sum[i \in 0..Len(f)] == IF i = 0 THEN 0 ELSE sum[i - 1] + f[i].samples
  IN  sum[n]

\* Mutant: a ring that is exactly full is trimmed too.
TrimStopsBelowFull(f, count, d) ==
  Len(f) - d <= 1 \/ count - Total(f, d) < MaxSampleCount

\* _trim_locked leaves f after letting d frames go.
TrimStops(f, count, d) ==
  Len(f) - d <= 1 \/ count - Total(f, d) <= MaxSampleCount

Publish(samples, speech) ==
  LET frame == [sequence |-> nextSeq, samples |-> samples, speech |-> speech]
      grown == Append(frames, frame)
      count == sampleCount + samples
  IN  /\ nextSeq' = nextSeq + 1
      /\ log' = Append(log, frame)
      /\ \E d \in 0..Len(frames) :
           /\ TrimStops(grown, count, d)
           /\ \A e \in 0..(d - 1) : ~TrimStops(grown, count, e)
           /\ frames' = SubSeq(grown, d + 1, Len(grown))
           /\ sampleCount' = count - Total(grown, d)
      /\ UNCHANGED <<cursor, heard>>

Clear ==
  /\ frames' = <<>>
  /\ sampleCount' = 0
  /\ UNCHANGED <<nextSeq, cursor, log, heard>>

\* Mutant: a subscription after the newest frame starts at that frame.
FirstSequenceAtNewest(atLatest) ==
  IF frames = <<>> THEN 0
  ELSE frames[IF atLatest THEN Len(frames) ELSE 1].sequence

\* create_subscription: after the newest frame, or at the oldest.
FirstSequence(atLatest) ==
  IF frames = <<>> THEN 0
  ELSE IF atLatest THEN frames[Len(frames)].sequence + 1
  ELSE frames[1].sequence

Subscribe(r, atLatest) ==
  /\ cursor' = [cursor EXCEPT ![r] = FirstSequence(atLatest)]
  /\ heard' = [heard EXCEPT ![r] = <<>>]
  /\ UNCHANGED <<frames, sampleCount, nextSeq, log>>

\* frames_since keeps the frames numbered s or more.  As the ring is in the
\* order of the numbers (Contiguous) they are the frames from some index on.
IsFirstSince(s, first) ==
  \A i \in 1..Len(frames) : frames[i].sequence >= s <=> i >= first

Unread(r) ==
  {b \in (1..Len(frames)) \X (1..Len(frames)) :
     /\ IsFirstSince(cursor[r], b[1])
     /\ b[1] <= b[2]
     /\ b[2] = Len(frames) \/ b[2] - b[1] + 1 = MaxFrames
     /\ b[2] - b[1] + 1 <= MaxFrames}

\* read_available: the batch from index first to index last.
ReadBatch(r, first, last) ==
  /\ cursor[r] # NoCursor
  /\ <<first, last>> \in Unread(r)
  /\ cursor' = [cursor EXCEPT ![r] = frames[last].sequence + 1]
  /\ heard' = [heard EXCEPT ![r] =
                 @ \o [i \in 1..(last - first + 1) |-> frames[first + i - 1].sequence]]
  /\ UNCHANGED <<frames, sampleCount, nextSeq, log>>

Read(r) == \E first, last \in 1..Len(frames) : ReadBatch(r, first, last)

BusInit ==
  /\ frames = <<>>
  /\ sampleCount = 0
  /\ nextSeq = 0
  /\ cursor = [r \in Readers |-> NoCursor]
  /\ log = <<>>
  /\ heard = [r \in Readers |-> <<>>]

BusNext ==
  \/ \E n \in SampleCounts, sp \in BOOLEAN : Publish(n, sp)
  \/ Clear
  \/ \E r \in Readers, latest \in BOOLEAN : Subscribe(r, latest)
  \/ \E r \in Readers : Read(r)

BusSpec == BusInit /\ [][BusNext]_busVars

-----------------------------------------------------------------------------
\* The ring holds the newest of the published frames, in their order and
\* numbered by their place in the log.
Contiguous ==
  /\ nextSeq = Len(log)
  /\ Len(frames) <= Len(log)
  /\ \A i \in 1..Len(frames) :
       frames[i] = log[Len(log) - Len(frames) + i]
  /\ \A i \in 1..Len(log) : log[i].sequence = i - 1

BusTypeOK ==
  /\ frames \in Seq(Frame)
  /\ sampleCount \in Nat
  /\ nextSeq \in Nat
  /\ cursor \in [Readers -> Nat \union {NoCursor}]
  /\ log \in Seq(Frame)
  /\ heard \in [Readers -> Seq(Nat)]

Log == INSTANCE FrameLog WITH base <- nextSeq - Len(frames), pos <- cursor

\* The bus keeps the promise of FrameLog: a reader is given contiguous runs of
\* the published frames in order, none twice, and misses only frames that the
\* ring has let go (ring_buffer.py:88-137, audio_bus.py:33-131).
ImplementsFrameLog == Log!Spec

\* The sample counter is the sum over the ring, and the ring lets go only what
\* does not fit: with the last frame it let go it would hold more than
\* MaxSampleCount (no clear() happens in the runs).  The newest frame stays
\* whatever its size (ring_buffer.py:122-129).
RetentionExact ==
  /\ sampleCount = Total(frames, Len(frames))
  /\ sampleCount <= MaxSampleCount \/ Len(frames) = 1
  /\ Len(frames) < Len(log) =>
       sampleCount + log[Len(log) - Len(frames)].samples > MaxSampleCount
===============================================================================
