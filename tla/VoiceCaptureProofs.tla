--------------------------- MODULE VoiceCaptureProofs ---------------------------
(* The audio bus keeps the promise of FrameLog, for any ring size, frame sizes  *)
(* and number of readers; and so does the bus as the voice capture uses it.     *)
(* The argument: the ring is a suffix of the log and frames are numbered by     *)
(* their place in it (Contiguous), so a cursor is a place in the log.  Then     *)
(* what a recording holds: no holes, and not the assistant's own voice.  Last   *)
(* what is computed from frames: what the ring lets go of, and what the         *)
(* endpointing policy says of the frames it has scored.                         *)
EXTENDS VoiceCapture, SequenceTheorems, WellFoundedInduction, TLAPS

BusTypes ==
  /\ frames \in Seq(Frame)
  /\ nextSeq \in Nat
  /\ cursor \in [Readers -> Nat \union {NoCursor}]
  /\ log \in Seq(Frame)
  /\ heard \in [Readers -> Seq(Nat)]

BusInv == BusTypes /\ Contiguous

LEMMA BusInitInv == BusInit => BusInv
BY DEF BusInit, BusInv, BusTypes, Contiguous, NoCursor

\* Where the held frames are in the log.
LEMMA HeldFrames ==
  ASSUME BusInv
  PROVE  /\ Len(frames) \in Nat /\ Len(log) \in Nat /\ Len(frames) <= Len(log)
         /\ nextSeq = Len(log)
         /\ \A i \in 1..Len(frames) :
              /\ frames[i] \in Frame
              /\ frames[i].sequence = Len(log) - Len(frames) + i - 1
<1>1. Len(frames) \in Nat /\ Len(log) \in Nat /\ Len(frames) <= Len(log) /\ nextSeq = Len(log)
  BY DEF BusInv, BusTypes, Contiguous
<1>2. ASSUME NEW i \in 1..Len(frames)
      PROVE  frames[i] \in Frame /\ frames[i].sequence = Len(log) - Len(frames) + i - 1
  <2>1. frames[i] \in Frame
    BY ElementOfSeq DEF BusInv, BusTypes
  <2>2. Len(log) - Len(frames) + i \in 1..Len(log)
    BY <1>1
  <2>3. frames[i] = log[Len(log) - Len(frames) + i]
    BY DEF BusInv, Contiguous
  <2> QED
    BY <2>1, <2>2, <2>3 DEF BusInv, Contiguous
<1> QED
  BY <1>1, <1>2

\* What publishing does to ring and log: the ring loses d of its oldest frames.
LEMMA PublishEffect ==
  ASSUME BusInv, NEW n \in SampleCounts, NEW sp \in BOOLEAN, Publish(n, sp)
  PROVE  /\ BusInv'
         /\ Len(log') = Len(log) + 1
         /\ \A i \in 1..Len(log) : log'[i] = log[i]
         /\ \E d \in 0..Len(frames) : Len(frames') = Len(frames) + 1 - d
<1> DEFINE frame == [sequence |-> nextSeq, samples |-> n, speech |-> sp]
           grown == Append(frames, frame)
<1>1. frame \in Frame
  BY DEF Frame, BusInv, BusTypes
<1>2. PICK d \in 0..Len(frames) : frames' = SubSeq(grown, d + 1, Len(grown))
  BY DEF Publish
<1>3. nextSeq' = nextSeq + 1 /\ log' = Append(log, frame) /\ UNCHANGED <<cursor, heard>>
  BY DEF Publish
<1>4. /\ Len(frames) \in Nat /\ Len(log) \in Nat /\ Len(frames) <= Len(log)
      /\ nextSeq = Len(log)
  BY HeldFrames
<1>5. /\ grown \in Seq(Frame) /\ Len(grown) = Len(frames) + 1
      /\ \A i \in 1..Len(frames) : grown[i] = frames[i]
      /\ grown[Len(frames) + 1] = frame
  BY <1>1, AppendProperties DEF BusInv, BusTypes
<1>6. /\ log' \in Seq(Frame) /\ Len(log') = Len(log) + 1
      /\ \A i \in 1..Len(log) : log'[i] = log[i]
      /\ log'[Len(log) + 1] = frame
  BY <1>1, <1>3, AppendProperties DEF BusInv, BusTypes
<1> HIDE DEF frame, grown
<1>7. /\ Len(frames') = Len(frames) + 1 - d
      /\ \A i \in 1..(Len(frames) + 1 - d) : frames'[i] = grown[d + i]
  BY <1>2, <1>4, <1>5, SubSeqProperties
<1>8. frames' \in Seq(Frame)
  BY <1>2, <1>4, <1>5, SubSeqProperties
<1>9. ASSUME NEW i \in 1..Len(frames')
      PROVE  frames'[i] = log'[Len(log') - Len(frames') + i]
  <2>1. frames'[i] = grown[d + i] /\ d + i \in 1..(Len(frames) + 1)
    BY <1>4, <1>7
  <2>2. Len(log') - Len(frames') + i = Len(log) - Len(frames) + (d + i)
    BY <1>4, <1>6, <1>7
  <2>3. CASE d + i = Len(frames) + 1
    BY <2>1, <2>2, <2>3, <1>4, <1>5, <1>6
  <2>4. CASE d + i \in 1..Len(frames)
    <3>1. frames[d + i] = log[Len(log) - Len(frames) + (d + i)]
      BY <2>4 DEF BusInv, Contiguous
    <3>2. Len(log) - Len(frames) + (d + i) \in 1..Len(log)
      BY <2>4, <1>4
    <3> QED
      BY <2>1, <2>2, <2>4, <3>1, <3>2, <1>5, <1>6
  <2> QED
    BY <2>1, <2>3, <2>4, <1>4
<1>10. ASSUME NEW i \in 1..Len(log') PROVE log'[i].sequence = i - 1
  <2>1. CASE i \in 1..Len(log)
    BY <2>1, <1>6 DEF BusInv, Contiguous
  <2>2. CASE i = Len(log) + 1
    BY <2>2, <1>6, <1>4 DEF frame
  <2> QED
    BY <2>1, <2>2, <1>4, <1>6
<1>11. BusTypes'
  BY <1>3, <1>4, <1>6, <1>8 DEF BusInv, BusTypes
<1>12. Contiguous'
  <2>1. nextSeq' = Len(log') /\ Len(frames') <= Len(log')
    BY <1>3, <1>4, <1>6, <1>7
  <2> QED
    BY <2>1, <1>9, <1>10 DEF Contiguous
<1> QED
  BY <1>6, <1>7, <1>11, <1>12 DEF BusInv

\* A cleared ring is the empty suffix of the log.
LEMMA ClearEffect == ASSUME BusInv, Clear PROVE BusInv' /\ Log!LetGo
<1>1. BusTypes' /\ Contiguous'
  BY DEF BusInv, BusTypes, Contiguous, Clear
<1>2. nextSeq = Len(log)
  BY HeldFrames
<1> QED
  BY <1>1, <1>2 DEF BusInv, Clear, Log!LetGo

\* A new cursor is at or before the oldest held frame, or after the newest.
LEMMA SubscribeEffect ==
  ASSUME BusInv, NEW r \in Readers, NEW latest \in BOOLEAN, Subscribe(r, latest)
  PROVE  BusInv' /\ Log!Subscribe(r)
<1> DEFINE p == FirstSequence(latest)
<1>1. p \in 0..Len(log) /\ (p <= nextSeq - Len(frames) \/ p = Len(log))
  <2>1. CASE frames = <<>>
    BY <2>1, HeldFrames DEF FirstSequence
  <2>2. CASE frames # <<>>
    <3>1. Len(frames) \in Nat \ {0}
      BY <2>2, EmptySeq DEF BusInv, BusTypes
    <3>2. frames[1].sequence = nextSeq - Len(frames)
      BY <3>1, HeldFrames
    <3>3. frames[Len(frames)].sequence + 1 = Len(log)
      BY <3>1, HeldFrames
    <3> QED
      BY <2>2, <3>1, <3>2, <3>3, HeldFrames DEF FirstSequence
  <2> QED
    BY <2>1, <2>2
<1> HIDE DEF p
<1>2. /\ cursor' = [cursor EXCEPT ![r] = p]
      /\ heard' = [heard EXCEPT ![r] = <<>>]
      /\ UNCHANGED <<frames, nextSeq, log>>
  BY DEF Subscribe, p
<1>3. p \in Nat
  BY <1>1, HeldFrames
<1>4. BusTypes'
  BY <1>2, <1>3 DEF BusInv, BusTypes
<1>5. Contiguous'
  BY <1>2 DEF BusInv, Contiguous
<1>6. Log!Subscribe(r)
  BY <1>1, <1>2 DEF Log!Subscribe
<1> QED
  BY <1>4, <1>5, <1>6 DEF BusInv

\* A batch is a contiguous run of the log, from the cursor or the oldest held
\* frame on.
LEMMA ReadEffect ==
  ASSUME BusInv, NEW r \in Readers,
         NEW first \in 1..Len(frames), NEW last \in 1..Len(frames),
         ReadBatch(r, first, last)
  PROVE  BusInv' /\ Log!Read(r)
<1> DEFINE base == nextSeq - Len(frames)
           batch == [i \in 1..(last - first + 1) |-> frames[first + i - 1].sequence]
           to == base + last
           run == [i \in 1..(to - Log!Start(r)) |-> Log!Start(r) + i - 1]
<1>1. /\ Len(frames) \in Nat /\ Len(log) \in Nat /\ Len(frames) <= Len(log)
      /\ base = Len(log) - Len(frames) /\ base \in Nat
      /\ \A i \in 1..Len(frames) : frames[i].sequence = base + i - 1
  BY HeldFrames
<1>0. base = nextSeq - Len(frames)
  OBVIOUS
<1> HIDE DEF base
<1>2. cursor[r] \in Nat
  BY DEF ReadBatch, BusInv, BusTypes
<1>3. /\ first <= last
      /\ \A i \in 1..Len(frames) : frames[i].sequence >= cursor[r] <=> i >= first
  BY DEF ReadBatch, Unread, IsFirstSince
<1>4. /\ cursor' = [cursor EXCEPT ![r] = frames[last].sequence + 1]
      /\ heard' = [heard EXCEPT ![r] = @ \o batch]
      /\ UNCHANGED <<frames, nextSeq, log>>
  BY DEF ReadBatch
<1>5. Log!Start(r) = base + first - 1
  <2>1. base + first - 1 >= cursor[r]
    BY <1>1, <1>3
  <2>2. CASE first = 1
    BY <1>1, <1>2, <2>1, <2>2, <1>0 DEF Log!Start
  <2>3. CASE first > 1
    <3>1. ~(frames[first - 1].sequence >= cursor[r])
      BY <1>1, <1>3, <2>3
    <3>2. base + first - 2 < cursor[r]
      BY <1>1, <1>2, <2>3, <3>1
    <3> QED
      BY <1>1, <1>2, <2>1, <2>3, <3>2, <1>0 DEF Log!Start
  <2> QED
    BY <1>1, <2>2, <2>3
<1>6. frames[last].sequence + 1 = base + last
  BY <1>1
<1>7. batch = run
  <2>1. to - Log!Start(r) = last - first + 1
    BY <1>1, <1>5
  <2>2. ASSUME NEW i \in 1..(last - first + 1)
        PROVE  frames[first + i - 1].sequence = Log!Start(r) + i - 1
    <3>1. first + i - 1 \in 1..Len(frames)
      BY <1>1, <1>3
    <3>2. frames[first + i - 1].sequence = base + (first + i - 1) - 1
      BY <1>1, <3>1
    <3> QED
      BY <1>1, <1>5, <3>2
  <2> HIDE DEF to
  <2>3. run = [i \in 1..(last - first + 1) |-> Log!Start(r) + i - 1]
    BY <2>1 DEF run
  <2> QED
    BY <2>2, <2>3
<1>8. batch \in Seq(Nat)
  <2>0. ASSUME NEW i \in 1..(last - first + 1) PROVE first + i - 1 \in 1..Len(frames)
    BY <1>1, <1>3
  <2>1. last - first + 1 \in Nat
    BY <1>1, <1>3
  <2>2. ASSUME NEW i \in 1..(last - first + 1)
        PROVE  frames[first + i - 1].sequence \in Nat
    <3>1. first + i - 1 \in 1..Len(frames)
      BY <2>0
    <3>2. frames[first + i - 1].sequence = base + (first + i - 1) - 1
      BY <1>1, <3>1
    <3> QED
      BY <1>1, <3>1, <3>2
  <2>3. batch \in [1..(last - first + 1) -> Nat]
    BY <2>2
  <2> QED
    BY <2>1, <2>3, SeqDef
<1> HIDE DEF batch, run
<1>9. BusTypes'
  <2>1. frames[last].sequence + 1 \in Nat
    BY <1>1, <1>6
  <2>2. heard[r] \o batch \in Seq(Nat)
    BY <1>8, ConcatProperties DEF BusInv, BusTypes
  <2> QED
    BY <1>4, <2>1, <2>2 DEF BusInv, BusTypes
<1>10. Contiguous'
  BY <1>4 DEF BusInv, Contiguous
<1>11. Log!Read(r)
  <2>1. to \in (Log!Start(r) + 1)..Len(log)
    BY <1>1, <1>3, <1>5
  <2> HIDE DEF to
  <2>2. cursor' = [cursor EXCEPT ![r] = to]
    BY <1>4, <1>6 DEF to
  <2>5. heard' = [heard EXCEPT ![r] = @ \o run]
    BY <1>4, <1>7
  <2>3. log' = log /\ nextSeq' - Len(frames') = base
    BY <1>0, <1>4
  <2>4. cursor[r] >= 0
    BY <1>2
  <2>6. UNCHANGED <<log, nextSeq - Len(frames)>>
    BY <2>3, <1>0
  <2>7. heard' = [heard EXCEPT ![r] =
                    @ \o [i \in 1..(to - Log!Start(r)) |-> Log!Start(r) + i - 1]]
    <3>1. run = [i \in 1..(to - Log!Start(r)) |-> Log!Start(r) + i - 1]
      BY DEF run
    <3> QED
      BY <2>5, <3>1
  <2>8. \E t \in (Log!Start(r) + 1)..Len(log) :
          /\ cursor' = [cursor EXCEPT ![r] = t]
          /\ heard' = [heard EXCEPT ![r] =
                         @ \o [i \in 1..(t - Log!Start(r)) |-> Log!Start(r) + i - 1]]
    BY <2>1, <2>2, <2>7
  <2> QED
    BY <2>4, <2>6, <2>8 DEF Log!Read
<1> QED
  BY <1>9, <1>10, <1>11 DEF BusInv

\* Publishing lets go of any number of the oldest frames, never of the new one.
LEMMA PublishImplements ==
  ASSUME BusInv, NEW n \in SampleCounts, NEW sp \in BOOLEAN, Publish(n, sp)
  PROVE  BusInv' /\ Log!Publish
<1>1. PICK d \in 0..Len(frames) : Len(frames') = Len(frames) + 1 - d
  BY PublishEffect
<1>2. nextSeq' = nextSeq + 1 /\ UNCHANGED <<cursor, heard>>
  BY DEF Publish
<1>3. /\ Len(frames) \in Nat /\ Len(log) \in Nat /\ Len(frames) <= Len(log)
      /\ nextSeq = Len(log)
  BY HeldFrames
<1>4. nextSeq' - Len(frames') \in (nextSeq - Len(frames))..Len(log)
  BY <1>1, <1>2, <1>3
<1> QED
  BY <1>2, <1>4, PublishEffect DEF Log!Publish

\* Every step of the bus is a step of the log or leaves it alone.
LEMMA BusStep ==
  ASSUME BusInv, [BusNext]_busVars
  PROVE  BusInv' /\ [Log!Next]_(Log!logVars)
<1>1. CASE UNCHANGED busVars
  BY <1>1 DEF busVars, BusInv, BusTypes, Contiguous, Log!logVars
<1>2. ASSUME NEW n \in SampleCounts, NEW sp \in BOOLEAN, Publish(n, sp)
      PROVE  BusInv' /\ Log!Next
  BY <1>2, PublishImplements DEF Log!Next
<1>3. CASE Clear
  BY <1>3, ClearEffect DEF Log!Next
<1>4. ASSUME NEW r \in Readers, NEW latest \in BOOLEAN, Subscribe(r, latest)
      PROVE  BusInv' /\ Log!Next
  BY <1>4, SubscribeEffect DEF Log!Next
<1>5. ASSUME NEW r \in Readers, NEW first \in 1..Len(frames),
             NEW last \in 1..Len(frames), ReadBatch(r, first, last)
      PROVE  BusInv' /\ Log!Next
  BY <1>5, ReadEffect DEF Log!Next
<1> QED
  BY <1>1, <1>2, <1>3, <1>4, <1>5 DEF BusNext, Read

LEMMA LogInit == BusInit => Log!Init
<1> SUFFICES ASSUME BusInit PROVE Log!Init
  OBVIOUS
<1>1. nextSeq = 0
  BY DEF BusInit
<1>2. Len(frames) \in Nat /\ Len(frames) <= nextSeq
  BY BusInitInv, HeldFrames
<1>3. nextSeq - Len(frames) = 0
  BY <1>1, <1>2
<1> QED
  BY <1>3 DEF BusInit, Log!Init, NoCursor

\* The audio bus refines FrameLog, whoever publishes, clears, subscribes and
\* reads: readers get contiguous runs in order, none twice, and miss only frames
\* the ring let go.
THEOREM BusRefinesLog == BusSpec => ImplementsFrameLog
<1>1. BusInv /\ [BusNext]_busVars => BusInv' /\ [Log!Next]_(Log!logVars)
  BY BusStep
<1> QED
  BY BusInitInv, LogInit, <1>1, PTL DEF BusSpec, ImplementsFrameLog, Log!Spec

\* A step of the voice capture touches the bus by its own operations only.
LEMMA CaptureStep == ASSUME [Next]_vars PROVE [BusNext]_busVars
<1>1. ASSUME NEW n \in SampleCounts, NEW sp \in BOOLEAN, Publish(n, sp) PROVE BusNext
  BY <1>1 DEF BusNext
<1>2. CASE UNCHANGED vars
  BY <1>2 DEF vars, busVars
<1>3. ASSUME NEW sp \in BOOLEAN, Chunk(sp) PROVE BusNext
  BY <1>1, <1>3, CaptureAssumption DEF Chunk
<1>4. CASE Put \/ DropOldest \/ ShieldUp \/ ShieldDown \/ Flush \/ Look \/ Take
           \/ TakeTimeout \/ Finish \/ BeginRelease \/ CloseStream
  BY <1>4 DEF Put, DropOldest, ShieldUp, ShieldDown, Flush, Look, Take, TakeTimeout,
     Finish, BeginRelease, CloseStream
<1>5. ASSUME NEW kind, BeginCapture(kind) PROVE BusNext \/ UNCHANGED busVars
  <2>1. CASE Arm
    BY <2>1, CaptureAssumption DEF Arm, BusNext
  <2>2. CASE UNCHANGED busVars
    BY <2>2
  <2> QED
    BY <1>5, <2>1, <2>2 DEF BeginCapture
<1>6. CASE Replay
  BY <1>1, <1>6 DEF Replay
<1>7. CASE Observe
  BY <1>7, CaptureAssumption DEF Observe, BusNext, Read
<1>8. CASE ObserveWindow \/ ObserveTranscribed
  BY <1>7, <1>8 DEF ObserveWindow, ObserveTranscribed
<1> QED
  BY <1>2, <1>3, <1>4, <1>5, <1>6, <1>8 DEF Next

\* So does the bus as the voice capture drives it: the callback and the replay
\* publish, the bridge subscribes and reads.
THEOREM CaptureRefinesLog == Spec => ImplementsFrameLog
<1>1. Init => BusInit
  BY DEF Init
<1>2. [Next]_vars => [BusNext]_busVars
  BY CaptureStep
<1> QED
  BY <1>1, <1>2, BusRefinesLog, PTL DEF Spec, BusSpec

-----------------------------------------------------------------------------
(* What is recorded.                                                         *)

\* The types of callback and recorder, without the sums over frames.
RecTypes ==
  /\ chunks \in Seq([speech : BOOLEAN, selfHeard : BOOLEAN])
  /\ callback \in {"idle", "put", "full"}
  /\ callback # "idle" => Len(chunks) > 0
  /\ audioQueue \in Seq(Nat)
  /\ shield \in BOOLEAN
  /\ rec \in [pc : RecPCs, kind : {"command", "wake"}, preRoll : Seq(Nat),
              recorded : Seq(Nat), window : Seq(Nat)]
  /\ rec.pc = "replay" => rec.window # <<>>
  /\ rec.pc \in {"idle", "flush", "close"} => rec.preRoll = <<>> /\ rec.recorded = <<>>

\* Chunk b is the next after a that was not dropped from the queue.
Linked(a, b) == a < b /\ (a + 1)..(b - 1) \subseteq overflowed

Chain(s) == \A i \in 1..(Len(s) - 1) : Linked(s[i], s[i + 1])

\* The chunks on their way to the recorder: the queued ones, then the one the
\* callback holds or will be given.
NextChunk == IF callback = "idle" THEN Len(chunks) + 1 ELSE Len(chunks)
Coming == [i \in 1..(Len(audioQueue) + 1) |->
             IF i <= Len(audioQueue) THEN audioQueue[i] ELSE NextChunk]

\* From the pre-roll, or the recording, to the next chunk of the microphone
\* there is one chain.
ChainInv ==
  /\ \A i \in 1..Len(audioQueue) : Linked(Coming[i], Coming[i + 1])
  /\ Chain(rec.preRoll) /\ Chain(rec.recorded)
  /\ rec.preRoll # <<>> => Linked(rec.preRoll[Len(rec.preRoll)], Coming[1])
  /\ rec.recorded # <<>> =>
       /\ rec.preRoll # <<>>
       /\ rec.recorded[Len(rec.recorded)] = rec.preRoll[Len(rec.preRoll)]

LEMMA IdleType ==
  /\ Idle \in [pc : RecPCs, kind : {"command", "wake"}, preRoll : Seq(Nat),
               recorded : Seq(Nat), window : Seq(Nat)]
  /\ Idle.pc = "idle" /\ Idle.preRoll = <<>> /\ Idle.recorded = <<>>
  BY EmptySeq DEF Idle, RecPCs

LEMMA NoUtteranceType ==
  ASSUME NEW kind
  PROVE  /\ NoUtterance(kind) \in [pc : RecPCs, kind : {"command", "wake"}, preRoll : Seq(Nat),
                                   recorded : Seq(Nat), window : Seq(Nat)]
         /\ NoUtterance(kind).pc \in {"idle", "transcribed"}
         /\ NoUtterance(kind).preRoll = <<>> /\ NoUtterance(kind).recorded = <<>>
  BY IdleType, EmptySeq DEF NoUtterance, Idle, RecPCs

\* The last n elements of a sequence are not none, and are its end.
LEMMA LastOfEffect ==
  ASSUME NEW s \in Seq(Nat), s # <<>>, NEW n \in Nat \ {0}
  PROVE  /\ LastOf(s, n) \in Seq(Nat)
         /\ \E k \in 0..(Len(s) - 1) :
              /\ Len(LastOf(s, n)) = Len(s) - k
              /\ \A i \in 1..(Len(s) - k) : LastOf(s, n)[i] = s[k + i]
<1>1. Len(s) \in Nat \ {0}
  BY EmptySeq
<1>2. CASE Len(s) <= n
  BY <1>1, <1>2 DEF LastOf
<1>3. CASE Len(s) > n
  <2>1. LastOf(s, n) = SubSeq(s, Len(s) - n + 1, Len(s))
    BY <1>1, <1>3 DEF LastOf
  <2>2. \A i \in (Len(s) - n + 1)..Len(s) : s[i] \in Nat
    BY <1>1, <1>3, ElementOfSeq
  <2>3. Len(s) - n \in 0..(Len(s) - 1)
    BY <1>1, <1>3
  <2> DEFINE k == Len(s) - n
             m == k + 1
             e == Len(s)
  <2>5. m \in Int /\ e \in Int /\ m <= e
    BY <1>1, <1>3
  <2>6. \A i \in m..e : s[i] \in Nat
    BY <2>2
  <2>7. LastOf(s, n) = SubSeq(s, m, e)
    BY <2>1
  <2> HIDE DEF m, e
  <2>8. /\ LastOf(s, n) \in Seq(Nat)
        /\ Len(LastOf(s, n)) = e - m + 1
        /\ \A i \in 1..(e - m + 1) : LastOf(s, n)[i] = s[m + i - 1]
    BY <2>5, <2>6, <2>7, SubSeqProperties
  <2>9. e - m + 1 = e - k /\ \A i \in 1..(e - k) : m + i - 1 = k + i
    BY <1>1, <2>3, <2>5 DEF m, e
  <2>4. /\ LastOf(s, n) \in Seq(Nat)
        /\ Len(LastOf(s, n)) = Len(s) - k
        /\ \A i \in 1..(Len(s) - k) : LastOf(s, n)[i] = s[k + i]
    BY <2>8, <2>9 DEF e
  <2> QED BY <2>3, <2>4
<1> QED BY <1>1, <1>2, <1>3

\* The window of a recording that speaks is not empty.
LEMMA WindowType ==
  ASSUME RecTypes, NEW a \in 1..Len(rec.recorded), NEW b \in 1..Len(rec.recorded),
         Speaks(SubSeq(rec.recorded, a, b))
  PROVE  SubSeq(rec.recorded, a, b) \in Seq(Nat) /\ SubSeq(rec.recorded, a, b) # <<>>
<1>1. rec.recorded \in Seq(Nat) /\ Len(rec.recorded) \in Nat
  BY DEF RecTypes
<1>2. \A i \in a..b : rec.recorded[i] \in Nat
  BY <1>1, ElementOfSeq
<1>3. SubSeq(rec.recorded, a, b) \in Seq(Nat)
  BY <1>1, <1>2, SubSeqProperties
<1>4. Len(SubSeq(rec.recorded, a, b)) # 0
  BY DEF Speaks
<1> QED BY <1>3, <1>4, EmptySeq

\* A chunk is taken: it is the head of the queue, and ends the pre-roll and, if
\* there is one, the recording.
LEMMA TakeEffect ==
  ASSUME RecTypes, Take
  PROVE  \E k \in 0..Len(rec.preRoll), chunk \in Nat :
           /\ Len(audioQueue) \in Nat \ {0} /\ chunk = audioQueue[1]
           /\ audioQueue' \in Seq(Nat) /\ Len(audioQueue') = Len(audioQueue) - 1
           /\ \A i \in 1..(Len(audioQueue) - 1) : audioQueue'[i] = audioQueue[i + 1]
           /\ rec'.preRoll \in Seq(Nat)
           /\ Len(rec'.preRoll) = Len(rec.preRoll) + 1 - k
           /\ rec'.preRoll[Len(rec.preRoll) + 1 - k] = chunk
           /\ \A i \in 1..(Len(rec.preRoll) - k) : rec'.preRoll[i] = rec.preRoll[k + i]
           /\ \/ /\ rec.recorded # <<>>
                 /\ rec'.recorded = Append(rec.recorded, chunk)
              \/ rec'.recorded = rec'.preRoll
              \/ rec'.recorded = <<>>
           /\ rec'.recorded \in Seq(Nat)
           /\ rec'.pc \in {"look", "finish"} /\ rec'.kind = rec.kind
           /\ rec'.window = rec.window
           /\ rec' = [rec EXCEPT !.pc = rec'.pc, !.preRoll = rec'.preRoll,
                                !.recorded = rec'.recorded]
<1>1. /\ audioQueue \in Seq(Nat) /\ audioQueue # <<>>
      /\ rec.preRoll \in Seq(Nat) /\ rec.recorded \in Seq(Nat)
  BY DEF RecTypes, Take
<1> DEFINE chunk == Head(audioQueue)
           s == Append(rec.preRoll, chunk)
           pre == LastOf(s, PreRoll)
<1>2. /\ Len(audioQueue) \in Nat \ {0} /\ chunk = audioQueue[1] /\ chunk \in Nat
      /\ Tail(audioQueue) \in Seq(Nat) /\ Len(Tail(audioQueue)) = Len(audioQueue) - 1
      /\ \A i \in 1..(Len(audioQueue) - 1) : Tail(audioQueue)[i] = audioQueue[i + 1]
  BY <1>1, EmptySeq, HeadTailProperties
<1>3. audioQueue' = Tail(audioQueue)
  BY DEF Take
<1> HIDE DEF chunk
<1>4. /\ s \in Seq(Nat) /\ s # <<>> /\ Len(s) = Len(rec.preRoll) + 1
      /\ Len(rec.preRoll) \in Nat
      /\ \A i \in 1..Len(rec.preRoll) : s[i] = rec.preRoll[i]
      /\ s[Len(rec.preRoll) + 1] = chunk
  <2>1. rec.preRoll \in Seq(Nat) /\ chunk \in Nat
    BY <1>1, <1>2
  <2>2. Len(rec.preRoll) \in Nat
    BY <2>1, LenProperties
  <2> QED BY <2>1, <2>2, AppendProperties
<1>5. PreRoll \in Nat \ {0}
  BY CaptureAssumption
<1> HIDE DEF s
<1>6. PICK k \in 0..(Len(s) - 1) :
         /\ Len(pre) = Len(s) - k
         /\ \A i \in 1..(Len(s) - k) : pre[i] = s[k + i]
  BY <1>4, <1>5, LastOfEffect
<1>7. pre \in Seq(Nat)
  BY <1>4, <1>5, LastOfEffect
<1> HIDE DEF pre
<1>8. \E pc \in {"look", "finish"}, recorded \in {Append(rec.recorded, chunk), pre, <<>>} :
        /\ rec' = [rec EXCEPT !.pc = pc, !.preRoll = pre, !.recorded = recorded]
        /\ rec.recorded = <<>> => recorded \in {pre, <<>>}
  BY DEF Take, chunk, s, pre
<1>9. PICK pc \in {"look", "finish"}, recorded \in {Append(rec.recorded, chunk), pre, <<>>} :
        /\ rec' = [rec EXCEPT !.pc = pc, !.preRoll = pre, !.recorded = recorded]
        /\ rec.recorded = <<>> => recorded \in {pre, <<>>}
  BY <1>8
<1>10. rec'.preRoll = pre /\ rec'.recorded = recorded /\ rec'.pc = pc
       /\ rec'.kind = rec.kind /\ rec'.window = rec.window
  BY <1>9 DEF RecTypes
<1>11. recorded \in Seq(Nat)
  <2>1. Append(rec.recorded, chunk) \in Seq(Nat)
    BY <1>1, <1>2, AppendProperties
  <2>2. <<>> \in Seq(Nat)
    BY EmptySeq
  <2> QED BY <1>7, <1>9, <2>1, <2>2
<1>12. k \in 0..Len(rec.preRoll)
  BY <1>4
<1>13. /\ pre[Len(rec.preRoll) + 1 - k] = chunk
       /\ \A i \in 1..(Len(rec.preRoll) - k) : pre[i] = rec.preRoll[k + i]
  <2> DEFINE n == Len(rec.preRoll)
  <2>1. Len(s) = n + 1 /\ n \in Nat /\ k \in 0..n
    BY <1>4, <1>12
  <2>2. n + 1 - k \in 1..(Len(s) - k) /\ k + (n + 1 - k) = n + 1
    BY <2>1
  <2>3. pre[n + 1 - k] = s[n + 1]
    BY <1>6, <2>2
  <2>4. ASSUME NEW i \in 1..(n - k) PROVE pre[i] = rec.preRoll[k + i]
    <3>1. i \in 1..(Len(s) - k) /\ k + i \in 1..n
      BY <2>1
    <3> QED BY <1>4, <1>6, <3>1
  <2> QED BY <1>4, <2>3, <2>4
<1>14. /\ rec'.preRoll \in Seq(Nat)
       /\ Len(rec'.preRoll) = Len(rec.preRoll) + 1 - k
       /\ rec'.preRoll[Len(rec.preRoll) + 1 - k] = chunk
       /\ \A i \in 1..(Len(rec.preRoll) - k) : rec'.preRoll[i] = rec.preRoll[k + i]
  BY <1>4, <1>6, <1>7, <1>10, <1>13
<1>15. /\ audioQueue' \in Seq(Nat) /\ Len(audioQueue') = Len(audioQueue) - 1
       /\ \A i \in 1..(Len(audioQueue) - 1) : audioQueue'[i] = audioQueue[i + 1]
  BY <1>2, <1>3
<1>16. /\ \/ /\ rec.recorded # <<>>
             /\ rec'.recorded = Append(rec.recorded, chunk)
          \/ rec'.recorded = rec'.preRoll
          \/ rec'.recorded = <<>>
       /\ rec'.recorded \in Seq(Nat)
  BY <1>9, <1>10, <1>11
<1>17. rec' = [rec EXCEPT !.pc = rec'.pc, !.preRoll = rec'.preRoll,
                          !.recorded = rec'.recorded]
  BY <1>9, <1>10
<1> QED BY <1>2, <1>9, <1>10, <1>12, <1>14, <1>15, <1>16, <1>17

LEMMA RecTypesInit == Init => RecTypes
  BY IdleType, EmptySeq DEF Init, RecTypes

LEMMA RecTypesNext == RecTypes /\ [Next]_vars => RecTypes'
<1> SUFFICES ASSUME RecTypes, [Next]_vars PROVE RecTypes'
  OBVIOUS
<1> USE DEF RecTypes, micVars
<1>1. ASSUME NEW sp \in BOOLEAN, Chunk(sp) PROVE RecTypes'
  <2>1. chunks' = Append(chunks, [speech |-> sp, selfHeard |-> shield])
    BY <1>1 DEF Chunk
  <2>2. /\ chunks' \in Seq([speech : BOOLEAN, selfHeard : BOOLEAN])
        /\ Len(chunks') = Len(chunks) + 1 /\ Len(chunks) \in Nat
    BY <2>1, AppendProperties
  <2> QED BY <1>1, <2>2 DEF Chunk
<1>2. CASE Put
  <2>1. Append(audioQueue, Len(chunks)) \in Seq(Nat)
    BY AppendProperties
  <2> QED BY <1>2, <2>1 DEF Put
<1>3. CASE DropOldest
  <2>1. Len(chunks) \in Nat /\ <<>> \in Seq(Nat)
    BY EmptySeq
  <2>2. audioQueue # <<>> => Tail(audioQueue) \in Seq(Nat)
    BY HeadTailProperties
  <2>3. audioQueue' \in Seq(Nat)
    BY <1>3, <2>1, <2>2, AppendProperties DEF DropOldest
  <2> QED BY <1>3, <2>3 DEF DropOldest
<1>4. CASE ShieldUp \/ ShieldDown
  BY <1>4 DEF ShieldUp, ShieldDown
<1>5. ASSUME NEW kind \in {"command", "wake"}, BeginCapture(kind) PROVE RecTypes'
  <2>1. audioQueue' \in Seq(Nat)
    BY <1>5, EmptySeq DEF BeginCapture
  <2>2. CASE rec' = NoUtterance(kind)
    BY <1>5, <2>1, <2>2, NoUtteranceType DEF BeginCapture
  <2>3. CASE rec' = [Idle EXCEPT !.pc = "flush", !.kind = kind]
    BY <1>5, <2>1, <2>3, IdleType DEF BeginCapture, RecPCs
  <2> QED BY <1>5, <2>2, <2>3 DEF BeginCapture
<1>6. CASE Flush
  BY <1>6, EmptySeq DEF Flush, RecPCs
<1>7. CASE Look
  BY <1>7, EmptySeq, NoUtteranceType DEF Look, RecPCs
<1>8. CASE Take
  <2>1. /\ audioQueue' \in Seq(Nat) /\ rec'.preRoll \in Seq(Nat) /\ rec'.recorded \in Seq(Nat)
        /\ rec'.pc \in {"look", "finish"} /\ rec'.kind = rec.kind /\ rec'.window = rec.window
    BY <1>8, TakeEffect
  <2>2. rec' = [rec EXCEPT !.pc = rec'.pc, !.preRoll = rec'.preRoll,
                           !.recorded = rec'.recorded]
    BY <1>8, TakeEffect
  <2> QED BY <1>8, <2>1, <2>2 DEF Take, RecPCs
<1>9. CASE TakeTimeout
  BY <1>9 DEF TakeTimeout, RecPCs
<1>10. CASE Finish
  <2>1. CASE rec' = NoUtterance(rec.kind)
    BY <1>10, <2>1, NoUtteranceType DEF Finish
  <2>2. ASSUME NEW a \in 1..Len(rec.recorded), NEW b \in 1..Len(rec.recorded),
               Speaks(SubSeq(rec.recorded, a, b)),
               rec' = [rec EXCEPT !.pc = "replay", !.window = SubSeq(rec.recorded, a, b)]
        PROVE  RecTypes'
    BY <1>10, <2>2, WindowType DEF Finish, RecPCs
  <2> QED BY <1>10, <2>1, <2>2 DEF Finish
<1>11. CASE Replay
  <2>1. rec.window \in Seq(Nat) /\ rec.window # <<>>
    BY <1>11 DEF Replay
  <2>2. /\ Tail(rec.window) \in Seq(Nat) /\ Len(rec.window) \in Nat \ {0}
        /\ Len(Tail(rec.window)) = Len(rec.window) - 1
    BY <2>1, HeadTailProperties, EmptySeq
  <2>5. Len(<<>>) = 0
    BY EmptySeq
  <2>3. Len(rec.window) # 1 => Tail(rec.window) # <<>>
    <3> SUFFICES ASSUME Tail(rec.window) = <<>> PROVE Len(rec.window) = 1
      OBVIOUS
    <3>1. Len(Tail(rec.window)) = 0
      BY <2>5
    <3> QED BY <2>2, <3>1
  <2>4. rec' = [rec EXCEPT !.window = Tail(@),
                           !.pc = IF Len(rec.window) = 1 THEN "observe" ELSE @]
    BY <1>11 DEF Replay
  <2> QED BY <1>11, <2>2, <2>3, <2>4 DEF Replay, RecPCs
<1>12. CASE ObserveWindow
  BY <1>12 DEF ObserveWindow, RecPCs
<1>13. CASE ObserveTranscribed
  BY <1>13, IdleType DEF ObserveTranscribed
<1>14. CASE BeginRelease
  BY <1>14, IdleType, EmptySeq DEF BeginRelease, RecPCs
<1>15. CASE CloseStream
  BY <1>15, IdleType DEF CloseStream
<1>16. CASE UNCHANGED vars
  BY <1>16 DEF vars
<1> QED
  BY <1>1, <1>2, <1>3, <1>4, <1>5, <1>6, <1>7, <1>8, <1>9, <1>10, <1>11, <1>12, <1>13,
     <1>14, <1>15, <1>16 DEF Next

LEMMA ChainInit == Init => ChainInv
  BY IdleType DEF Init, ChainInv, Chain

LEMMA ChainNext == RecTypes /\ RecTypes' /\ ChainInv /\ [Next]_vars => ChainInv'
<1> SUFFICES ASSUME RecTypes, RecTypes', ChainInv, [Next]_vars PROVE ChainInv'
  OBVIOUS
<1> USE DEF ChainInv, Chain, micVars
<1>0. /\ Len(chunks) \in Nat /\ Len(audioQueue) \in Nat
      /\ Len(rec.preRoll) \in Nat /\ Len(rec.recorded) \in Nat
      /\ rec.preRoll # <<>> => Len(rec.preRoll) >= 1
      /\ rec.recorded # <<>> => Len(rec.recorded) >= 1
  <2>1. rec.preRoll \in Seq(Nat) /\ rec.recorded \in Seq(Nat)
    BY DEF RecTypes
  <2>2. \A s \in Seq(Nat) : s # <<>> => Len(s) \in Nat \ {0}
    BY EmptySeq
  <2>3. Len(chunks) \in Nat /\ Len(audioQueue) \in Nat
    <3>1. \A S : \A s \in Seq(S) : Len(s) \in Nat
      BY LenProperties
    <3> QED BY <3>1 DEF RecTypes
  <2> QED BY <2>1, <2>2, <2>3
\* A recorder that goes on with what it has.
<1>1. ASSUME UNCHANGED <<micVars, rec.preRoll, rec.recorded>> PROVE ChainInv'
  <2>1. Coming' = Coming
    BY <1>1 DEF Coming, NextChunk
  <2> QED BY <1>1, <2>1 DEF Linked
\* A recorder that begins anew, whatever it lets go of the queue.
<1>2. ASSUME UNCHANGED <<chunks, callback, overflowed>>, audioQueue' \in {audioQueue, <<>>},
             rec'.preRoll = <<>>, rec'.recorded = <<>>
      PROVE  ChainInv'
  <2>1. Chain(rec.preRoll)' /\ Chain(rec.recorded)'
    BY <1>2, EmptySeq
  <2>2. CASE audioQueue' = audioQueue
    <3>1. Coming' = Coming
      BY <1>2, <2>2 DEF Coming, NextChunk
    <3> QED BY <1>2, <2>1, <2>2, <3>1 DEF Linked
  <2>3. CASE audioQueue' = <<>>
    <3>1. Len(audioQueue') = 0
      BY <2>3, EmptySeq
    <3> QED BY <1>2, <2>1, <3>1
  <2> QED BY <1>2, <2>2, <2>3
<1>3. ASSUME NEW sp \in BOOLEAN, Chunk(sp) PROVE ChainInv'
  <2>1. Len(chunks') = Len(chunks) + 1
    BY <1>3, AppendProperties DEF Chunk, RecTypes
  <2>2. NextChunk' = NextChunk /\ UNCHANGED <<audioQueue, overflowed, rec>>
    BY <1>3, <2>1 DEF Chunk, NextChunk
  <2> QED BY <2>2 DEF Linked, Coming
<1>4. ASSUME UNCHANGED <<chunks, overflowed, rec>>, callback # "idle", callback' = "idle",
             audioQueue' = Append(audioQueue, Len(chunks))
      PROVE  ChainInv'
  <2>1. /\ Len(audioQueue') = Len(audioQueue) + 1
        /\ \A i \in 1..Len(audioQueue) : audioQueue'[i] = audioQueue[i]
        /\ audioQueue'[Len(audioQueue) + 1] = Len(chunks)
    BY <1>0, <1>4, AppendProperties DEF RecTypes
  <2>2. NextChunk = Len(chunks) /\ NextChunk' = Len(chunks) + 1
    BY <1>4 DEF NextChunk
  <2>3. \A i \in 1..(Len(audioQueue) + 1) : Coming'[i] = Coming[i]
    BY <1>0, <2>1, <2>2 DEF Coming
  <2>4. Coming'[Len(audioQueue) + 2] = Len(chunks) + 1 /\ Coming[Len(audioQueue) + 1] = Len(chunks)
    BY <1>0, <2>1, <2>2 DEF Coming
  <2>5. Linked(Len(chunks), Len(chunks) + 1)
    BY <1>0 DEF Linked
  <2>6. ASSUME NEW i \in 1..Len(audioQueue') PROVE Linked(Coming[i], Coming[i + 1])'
    <3>1. CASE i = Len(audioQueue) + 1
      BY <1>0, <1>4, <2>3, <2>4, <2>5, <3>1 DEF Linked
    <3>2. CASE i \in 1..Len(audioQueue)
      <4>1. Coming'[i] = Coming[i] /\ Coming'[i + 1] = Coming[i + 1]
        BY <1>0, <2>3, <3>2
      <4> QED BY <1>4, <3>2, <4>1 DEF Linked
    <3> QED BY <1>0, <2>1, <3>1, <3>2
  <2>7. Coming'[1] = Coming[1]
    BY <1>0, <2>3
  <2> QED BY <1>4, <2>6, <2>7 DEF Linked
<1>5. CASE Put
  BY <1>1, <1>4, <1>5 DEF Put, Coming, NextChunk, Linked
<1>6. CASE DropOldest
  <2>1. CASE audioQueue = <<>>
    <3>1. Len(audioQueue) = 0
      BY <2>1, EmptySeq
    <3>2. overflowed' = overflowed
      BY <1>6, <3>1 DEF DropOldest
    <3> QED BY <1>4, <1>6, <2>1, <3>2 DEF DropOldest
  <2>2. CASE audioQueue # <<>>
    <3> DEFINE n == Len(audioQueue)
    <3>1. /\ UNCHANGED <<chunks, rec>> /\ callback = "full" /\ callback' = "idle"
          /\ audioQueue' = Append(Tail(audioQueue), Len(chunks))
      BY <1>6, <2>2 DEF DropOldest
    <3>2. overflowed \union {audioQueue[1]} \subseteq overflowed'
      <4>1. 1 \in 1..n \cap {1}
        BY <1>0, <2>2, EmptySeq DEF RecTypes
      <4> QED BY <1>6, <4>1 DEF DropOldest
    <3>3. /\ Tail(audioQueue) \in Seq(Nat) /\ Len(Tail(audioQueue)) = n - 1 /\ n \in Nat \ {0}
          /\ \A i \in 1..(n - 1) : Tail(audioQueue)[i] = audioQueue[i + 1]
      BY <2>2, HeadTailProperties, EmptySeq DEF RecTypes
    <3>4. /\ Len(audioQueue') = n
          /\ \A i \in 1..(n - 1) : audioQueue'[i] = audioQueue[i + 1]
          /\ audioQueue'[n] = Len(chunks)
      BY <1>0, <3>1, <3>3, AppendProperties
    <3>12. n \in Nat \ {0} /\ Len(chunks) \in Nat
      BY <1>0, <3>3
    <3>13. /\ \A i \in 1..n : Coming[i] = audioQueue[i]
           /\ Coming[n + 1] = Len(chunks)
      BY <3>1, <3>12 DEF Coming, NextChunk
    <3>14. /\ \A i \in 1..n : Coming'[i] = audioQueue'[i]
           /\ Coming'[n + 1] = Len(chunks) + 1
      BY <3>1, <3>4, <3>12 DEF Coming, NextChunk
    <3>15. Len(audioQueue) = n
      OBVIOUS
    <3> HIDE DEF n
    <3>5. \A i \in 1..n : Coming'[i] = Coming[i + 1]
      <4>1. ASSUME NEW i \in 1..n PROVE Coming'[i] = Coming[i + 1]
        <5>1. CASE i = n
          BY <3>4, <3>12, <3>13, <3>14, <5>1
        <5>2. CASE i \in 1..(n - 1)
          BY <3>4, <3>12, <3>13, <3>14, <5>2
        <5> QED BY <3>12, <5>1, <5>2
      <4> QED BY <4>1
    <3>6. Coming'[n + 1] = Len(chunks) + 1 /\ Coming[n + 1] = Len(chunks)
      BY <3>13, <3>14
    <3>7. ASSUME NEW a \in Nat, NEW b \in Nat, Linked(a, b) PROVE Linked(a, b)'
      BY <3>2, <3>7 DEF Linked
    <3>8. \A i \in 1..(n + 1) : Coming[i] \in Nat
      <4>1. \A i \in 1..n : audioQueue[i] \in Nat
        BY <3>15, ElementOfSeq DEF RecTypes
      <4>2. ASSUME NEW i \in 1..(n + 1) PROVE Coming[i] \in Nat
        <5>1. i = n + 1 \/ i \in 1..n
          BY <3>12
        <5> QED BY <3>12, <3>13, <4>1, <5>1
      <4> QED BY <4>2
    <3>9. ASSUME NEW i \in 1..n PROVE Linked(Coming[i], Coming[i + 1])'
      <4>1. CASE i = n
        <5>1. Coming'[i] = Len(chunks) /\ Coming'[i + 1] = Len(chunks) + 1
          BY <3>5, <3>6, <3>12, <4>1
        <5> QED BY <3>12, <5>1 DEF Linked
      <4>2. CASE i \in 1..(n - 1)
        <5> DEFINE j == i + 1
        <5>1. j \in 1..n /\ i \in 1..n
          BY <3>12, <4>2
        <5> HIDE DEF j
        <5>2. Linked(Coming[j], Coming[j + 1])
          BY <3>15, <5>1
        <5>3. Coming'[i] = Coming[j] /\ Coming'[i + 1] = Coming[j + 1]
          BY <3>5, <5>1 DEF j
        <5> QED BY <3>2, <5>2, <5>3 DEF Linked
      <4> QED BY <3>12, <4>1, <4>2
    <3>10. ASSUME rec.preRoll # <<>>
           PROVE  Linked(rec.preRoll[Len(rec.preRoll)], Coming[1])'
      <4>1. Linked(rec.preRoll[Len(rec.preRoll)], audioQueue[1]) /\ Linked(audioQueue[1], Coming[2])
        <5>1. 1 \in 1..n /\ 1 + 1 = 2
          BY <3>12
        <5>2. Linked(Coming[1], Coming[2]) /\ Coming[1] = audioQueue[1]
          BY <3>13, <3>15, <5>1
        <5> QED BY <3>10, <5>2
      <4>2. Coming'[1] = Coming[2] /\ rec' = rec
        BY <3>1, <3>5, <3>12
      <4>3. {rec.preRoll[Len(rec.preRoll)], audioQueue[1], Coming[2]} \subseteq Nat
        <5>1. \A s \in Seq(Nat) : \A i \in 1..Len(s) : s[i] \in Nat
          BY ElementOfSeq
        <5>2. 1 \in 1..Len(audioQueue) /\ Len(rec.preRoll) \in 1..Len(rec.preRoll) /\ 2 \in 1..(n + 1)
          BY <1>0, <3>10, <3>12, <3>15
        <5>3. audioQueue \in Seq(Nat) /\ rec.preRoll \in Seq(Nat)
          BY DEF RecTypes
        <5> QED BY <3>8, <5>1, <5>2, <5>3
      <4> QED BY <3>2, <4>1, <4>2, <4>3 DEF Linked
    <3>11. Chain(rec.preRoll)' /\ Chain(rec.recorded)'
      BY <3>1, <3>2 DEF Linked
    <3> QED BY <3>1, <3>4, <3>9, <3>10, <3>11
  <2> QED BY <2>1, <2>2
<1>7. CASE ShieldUp \/ ShieldDown \/ TakeTimeout \/ Replay \/ ObserveWindow
  <2>1. UNCHANGED <<micVars, rec.preRoll, rec.recorded>>
    BY <1>7 DEF ShieldUp, ShieldDown, TakeTimeout, Replay, ObserveWindow, RecTypes
  <2> QED BY <1>1, <2>1
<1>8. ASSUME NEW kind \in {"command", "wake"}, BeginCapture(kind) PROVE ChainInv'
  <2>1. rec'.preRoll = <<>> /\ rec'.recorded = <<>>
    BY <1>8, IdleType, NoUtteranceType DEF BeginCapture
  <2> QED BY <1>2, <1>8, <2>1 DEF BeginCapture
<1>9. CASE Flush
  BY <1>2, <1>9 DEF Flush, RecTypes
<1>10. CASE Look
  <2>1. CASE rec' = NoUtterance(rec.kind)
    BY <1>2, <1>10, <2>1, NoUtteranceType DEF Look
  <2>2. CASE rec' = [rec EXCEPT !.pc = "take"] /\ UNCHANGED audioQueue
    BY <1>1, <1>10, <2>2 DEF Look, RecTypes
  <2> QED BY <1>10, <2>1, <2>2 DEF Look
<1>11. CASE Take
  <2> DEFINE p == Len(rec.preRoll)
             n == Len(audioQueue)
  <2>1. PICK k \in 0..p, chunk \in Nat :
           /\ n \in Nat \ {0} /\ chunk = audioQueue[1]
           /\ Len(audioQueue') = n - 1
           /\ \A i \in 1..(n - 1) : audioQueue'[i] = audioQueue[i + 1]
           /\ Len(rec'.preRoll) = p + 1 - k
           /\ rec'.preRoll[p + 1 - k] = chunk
           /\ \A i \in 1..(p - k) : rec'.preRoll[i] = rec.preRoll[k + i]
           /\ \/ rec.recorded # <<>> /\ rec'.recorded = Append(rec.recorded, chunk)
              \/ rec'.recorded = rec'.preRoll
              \/ rec'.recorded = <<>>
    BY <1>11, TakeEffect
  <2>2. UNCHANGED <<chunks, callback, overflowed>>
    BY <1>11 DEF Take
  <2>3. \A i \in 1..n : Coming'[i] = Coming[i + 1]
    BY <2>1, <2>2 DEF Coming, NextChunk
  <2>13. n \in Nat \ {0} /\ p \in Nat /\ k \in 0..p /\ Len(audioQueue) = n /\ Len(rec.preRoll) = p
    BY <1>0, <2>1
  <2>14. /\ Len(rec'.preRoll) = p + 1 - k
         /\ rec'.preRoll[p + 1 - k] = chunk
         /\ \A i \in 1..(p - k) : rec'.preRoll[i] = rec.preRoll[k + i]
    BY <2>1
  <2> HIDE DEF n, p
  <2>4. ASSUME NEW i \in 1..(n - 1) PROVE Linked(Coming[i], Coming[i + 1])'
    <3> DEFINE j == i + 1
    <3>1. j \in 1..n /\ i \in 1..n
      BY <2>13
    <3> HIDE DEF j
    <3>2. Linked(Coming[j], Coming[j + 1])
      BY <2>13, <3>1
    <3>3. Coming'[i] = Coming[j] /\ Coming'[i + 1] = Coming[j + 1]
      BY <2>3, <3>1 DEF j
    <3> QED BY <2>2, <3>2, <3>3 DEF Linked
  <2>5. Coming[1] = chunk /\ Linked(chunk, Coming'[1])
    <3>1. 1 \in 1..n /\ 1 + 1 = 2
      BY <2>13
    <3>2. Coming[1] = chunk
      BY <2>1, <2>13 DEF Coming
    <3>3. Linked(Coming[1], Coming[2]) /\ Coming'[1] = Coming[2]
      BY <2>3, <2>13, <3>1
    <3> QED BY <3>2, <3>3
  <2>6. p # 0 => rec.preRoll # <<>> /\ Linked(rec.preRoll[p], chunk)
    <3>1. p # 0 => rec.preRoll # <<>>
      BY <2>13, EmptySeq
    <3> QED BY <2>5, <2>13, <3>1
  <2>7. ASSUME NEW i \in 1..(p - k) PROVE Linked(rec'.preRoll[i], rec'.preRoll[i + 1])
    <3>1. CASE i = p - k
      <4>1. rec'.preRoll[i] = rec.preRoll[p] /\ rec'.preRoll[i + 1] = chunk
        <5>1. k + i = p /\ i + 1 = p + 1 - k /\ i \in 1..(p - k)
          BY <2>13, <3>1
        <5> QED BY <2>14, <5>1
      <4>2. p # 0
        BY <2>13, <3>1
      <4> QED BY <2>6, <4>1, <4>2
    <3>2. CASE i \in 1..(p - k - 1)
      <4>1. rec'.preRoll[i] = rec.preRoll[k + i] /\ rec'.preRoll[i + 1] = rec.preRoll[k + i + 1]
        BY <2>13, <2>14, <3>2
      <4>2. k + i \in 1..(p - 1)
        BY <2>13, <3>2
      <4> QED BY <2>13, <4>1, <4>2
    <3> QED BY <2>13, <3>1, <3>2
  <2>8. Chain(rec.preRoll)' /\ rec'.preRoll[Len(rec'.preRoll)] = chunk
    <3>1. Len(rec'.preRoll) - 1 = p - k
      BY <2>13, <2>14
    <3> QED BY <2>2, <2>7, <2>14, <3>1 DEF Linked
  <2>9. rec'.preRoll # <<>>
    <3>1. Len(rec'.preRoll) # 0
      BY <2>13, <2>14
    <3> QED BY <3>1, EmptySeq
  <2>10. CASE rec.recorded # <<>> /\ rec'.recorded = Append(rec.recorded, chunk)
    <3> DEFINE m == Len(rec.recorded)
    <3>1. /\ Len(rec'.recorded) = m + 1 /\ m \in Nat \ {0}
          /\ \A i \in 1..m : rec'.recorded[i] = rec.recorded[i]
          /\ rec'.recorded[m + 1] = chunk
      BY <1>0, <2>10, AppendProperties DEF RecTypes
    <3>2. rec.recorded[m] = rec.preRoll[p] /\ Linked(rec.preRoll[p], chunk)
      BY <2>5, <2>10, <2>13
    <3>3. ASSUME NEW i \in 1..m PROVE Linked(rec'.recorded[i], rec'.recorded[i + 1])
      <4>1. CASE i = m
        BY <3>1, <3>2, <4>1
      <4>2. CASE i \in 1..(m - 1)
        <5>1. rec'.recorded[i] = rec.recorded[i] /\ rec'.recorded[i + 1] = rec.recorded[i + 1]
          BY <3>1, <4>2
        <5> QED BY <4>2, <5>1
      <4> QED BY <3>1, <4>1, <4>2
    <3>4. Chain(rec.recorded)' /\ rec'.recorded[Len(rec'.recorded)] = chunk
      <4>1. Len(rec'.recorded) - 1 = m
        BY <3>1
      <4> QED BY <2>2, <3>1, <3>3, <4>1 DEF Linked
    <3> QED BY <2>1, <2>2, <2>4, <2>5, <2>8, <2>9, <3>4 DEF Linked
  <2>11. CASE rec'.recorded = rec'.preRoll
    BY <2>1, <2>2, <2>4, <2>5, <2>8, <2>9, <2>11 DEF Linked
  <2>12. CASE rec'.recorded = <<>>
    <3>1. Chain(rec.recorded)'
      BY <2>12, EmptySeq
    <3> QED BY <2>1, <2>2, <2>4, <2>5, <2>8, <2>9, <2>12, <3>1 DEF Linked
  <2> QED BY <2>1, <2>10, <2>11, <2>12
<1>12. CASE Finish
  <2>1. CASE rec' = NoUtterance(rec.kind)
    BY <1>2, <1>12, <2>1, NoUtteranceType DEF Finish
  <2>2. CASE UNCHANGED <<rec.preRoll, rec.recorded>>
    BY <1>1, <1>12, <2>2 DEF Finish
  <2> QED BY <1>12, <2>1, <2>2 DEF Finish, RecTypes
<1>13. CASE ObserveTranscribed \/ CloseStream
  BY <1>2, <1>13, IdleType DEF ObserveTranscribed, CloseStream
<1>14. CASE BeginRelease
  BY <1>2, <1>14, IdleType DEF BeginRelease
<1>15. CASE UNCHANGED vars
  BY <1>1, <1>15 DEF vars
<1> QED
  BY <1>3, <1>5, <1>6, <1>7, <1>8, <1>9, <1>10, <1>11, <1>12, <1>13, <1>14, <1>15 DEF Next

LEMMA RecAlways == Spec => [](RecTypes /\ ChainInv)
<1>1. Init => RecTypes /\ ChainInv
  BY RecTypesInit, ChainInit
<1>2. RecTypes /\ ChainInv /\ [Next]_vars => (RecTypes /\ ChainInv)'
  BY RecTypesNext, ChainNext
<1> QED BY <1>1, <1>2, PTL DEF Spec

\* A recording has no holes but the chunks dropped from the full queue, for any
\* queue, any pre-roll and any number of chunks (run VoiceCapture).
THEOREM RecordsWithoutHoles == Spec => []CaptureContiguous
<1>1. RecTypes /\ ChainInv => CaptureContiguous
  BY DEF ChainInv, Chain, Linked, CaptureContiguous
<1> QED BY <1>1, RecAlways, PTL

-----------------------------------------------------------------------------
(* Whose voice is recorded.                                                  *)

Recorded(s) == \A i \in 1..Len(s) : s[i] \in 1..Len(chunks)
Clean(s) == \A i \in 1..Len(s) : ~chunks[s[i]].selfHeard
CleanBut1(s) == \A i \in 1..(Len(s) - 1) : ~chunks[s[i]].selfHeard

\* Chunks of the assistant's own voice are under way only while the shield is
\* up; a recorder that has looked has none, and the one it takes before it looks
\* again is its last.
HeardInv ==
  /\ Recorded(audioQueue) /\ Recorded(rec.preRoll) /\ Recorded(rec.recorded)
  /\ callback # "idle" /\ ~shield => ~chunks[Len(chunks)].selfHeard
  /\ rec.kind = "command" =>
       /\ CleanBut1(rec.recorded)
       /\ rec.pc \in {"look", "take"} /\ ~shield =>
            Clean(rec.preRoll) /\ Clean(rec.recorded) /\ Clean(audioQueue)
       /\ rec.pc = "take" => Clean(rec.preRoll) /\ Clean(rec.recorded)

LEMMA HeardInit == Init => HeardInv
  BY IdleType, EmptySeq DEF Init, HeardInv, Recorded, Clean, CleanBut1

LEMMA HeardNext == RecTypes /\ HeardInv /\ [Next]_vars => HeardInv'
<1> SUFFICES ASSUME RecTypes, HeardInv, [Next]_vars PROVE HeardInv'
  OBVIOUS
<1> USE DEF micVars
<1>0. /\ Len(chunks) \in Nat /\ Len(audioQueue) \in Nat
      /\ Len(rec.preRoll) \in Nat /\ Len(rec.recorded) \in Nat
      /\ callback # "idle" => Len(chunks) \in 1..Len(chunks)
  <2>1. \A S : \A s \in Seq(S) : Len(s) \in Nat
    BY LenProperties
  <2> QED BY <2>1 DEF RecTypes
\* A recorder that begins anew, whatever it lets go of the queue.
<1>1. ASSUME UNCHANGED <<chunks, callback, shield>>, audioQueue' \in {audioQueue, <<>>},
             rec'.preRoll = <<>>, rec'.recorded = <<>>, rec'.pc \notin {"look", "take"}
      PROVE  HeardInv'
  <2>1. Len(<<>>) = 0
    BY EmptySeq
  <2> QED BY <1>1, <2>1 DEF HeardInv, Recorded, Clean, CleanBut1
\* A recorder that goes on with what it has, not to take the next chunk.
<1>2. ASSUME UNCHANGED <<micVars, shield, rec.preRoll, rec.recorded, rec.kind>>,
             rec'.pc = "look" => rec.pc = "take", rec'.pc # "take"
      PROVE  HeardInv'
  BY <1>2 DEF HeardInv, Recorded, Clean, CleanBut1
<1>3. ASSUME NEW sp \in BOOLEAN, Chunk(sp) PROVE HeardInv'
  <2>1. /\ Len(chunks') = Len(chunks) + 1
        /\ \A i \in 1..Len(chunks) : chunks'[i] = chunks[i]
        /\ chunks'[Len(chunks) + 1] = [speech |-> sp, selfHeard |-> shield]
    BY <1>3, AppendProperties DEF Chunk, RecTypes
  <2>2. UNCHANGED <<audioQueue, shield, rec>>
    BY <1>3 DEF Chunk
  <2>3. \A s : Recorded(s) => Recorded(s)' /\ (Clean(s) => Clean(s)') /\ (CleanBut1(s) => CleanBut1(s)')
    BY <1>0, <2>1 DEF Recorded, Clean, CleanBut1
  <2> QED BY <1>0, <2>1, <2>2, <2>3 DEF HeardInv
<1>4. ASSUME UNCHANGED <<chunks, shield, rec>>, callback # "idle", callback' = "idle",
             NEW q \in Seq(Nat), audioQueue' = Append(q, Len(chunks)),
             Recorded(q), Clean(audioQueue) => Clean(q)
      PROVE  HeardInv'
  <2>1. /\ Len(audioQueue') = Len(q) + 1 /\ Len(q) \in Nat
        /\ \A i \in 1..Len(q) : audioQueue'[i] = q[i]
        /\ audioQueue'[Len(q) + 1] = Len(chunks)
    BY <1>0, <1>4, AppendProperties
  <2>2. Recorded(audioQueue)'
    BY <1>0, <1>4, <2>1 DEF Recorded
  <2>3. ~shield /\ Clean(audioQueue) => Clean(audioQueue)'
    BY <1>4, <2>1 DEF Clean, HeardInv
  <2> QED BY <1>4, <2>2, <2>3 DEF HeardInv, Recorded, Clean, CleanBut1
<1>5. CASE Put
  <2>1. CASE audioQueue' = Append(audioQueue, Len(chunks)) /\ callback' = "idle"
    BY <1>4, <1>5, <2>1 DEF Put, HeardInv, RecTypes
  <2>2. CASE UNCHANGED audioQueue
    BY <1>5, <2>2 DEF Put, HeardInv, Recorded, Clean, CleanBut1
  <2> QED BY <1>5, <2>1, <2>2 DEF Put
<1>6. CASE DropOldest
  <2> DEFINE q == IF audioQueue = <<>> THEN <<>> ELSE Tail(audioQueue)
  <2>1. q \in Seq(Nat) /\ Recorded(q) /\ (Clean(audioQueue) => Clean(q))
    <3>1. CASE audioQueue = <<>>
      BY <3>1, EmptySeq DEF Recorded, Clean
    <3>2. CASE audioQueue # <<>>
      <4>1. /\ Tail(audioQueue) \in Seq(Nat) /\ Len(Tail(audioQueue)) = Len(audioQueue) - 1
            /\ \A i \in 1..(Len(audioQueue) - 1) : Tail(audioQueue)[i] = audioQueue[i + 1]
        BY <3>2, HeadTailProperties DEF RecTypes
      <4> QED BY <1>0, <3>2, <4>1 DEF Recorded, Clean, HeardInv
    <3> QED BY <3>1, <3>2
  <2> HIDE DEF q
  <2>2. audioQueue' = Append(q, Len(chunks))
    BY <1>6 DEF DropOldest, q
  <2> QED BY <1>4, <1>6, <2>1, <2>2 DEF DropOldest
<1>7. CASE ShieldUp \/ ShieldDown
  BY <1>7 DEF ShieldUp, ShieldDown, HeardInv, Recorded, Clean, CleanBut1
<1>8. ASSUME NEW kind \in {"command", "wake"}, BeginCapture(kind) PROVE HeardInv'
  <2>1. rec'.preRoll = <<>> /\ rec'.recorded = <<>> /\ rec'.pc \notin {"look", "take"}
    BY <1>8, IdleType, NoUtteranceType DEF BeginCapture
  <2> QED BY <1>1, <1>8, <2>1 DEF BeginCapture
<1>9. CASE Flush
  <2>1. /\ rec'.preRoll = <<>> /\ rec'.recorded = <<>> /\ rec'.pc = "look" /\ rec'.kind = rec.kind
        /\ audioQueue' \in {audioQueue, <<>>}
        /\ rec.kind = "command" => audioQueue' = <<>>
        /\ UNCHANGED <<chunks, callback, shield>>
    BY <1>9 DEF Flush, RecTypes
  <2>2. Len(<<>>) = 0
    BY EmptySeq
  <2> QED BY <2>1, <2>2 DEF HeardInv, Recorded, Clean, CleanBut1
<1>10. CASE Look
  <2>1. CASE rec' = NoUtterance(rec.kind)
    BY <1>1, <1>10, <2>1, NoUtteranceType DEF Look
  <2>2. CASE ~shield /\ rec' = [rec EXCEPT !.pc = "take"] /\ UNCHANGED audioQueue
    BY <1>10, <2>2 DEF Look, RecTypes, HeardInv, Recorded, Clean, CleanBut1
  <2> QED BY <1>10, <2>1, <2>2 DEF Look
<1>11. CASE Take
  <2> DEFINE p == Len(rec.preRoll)
             m == Len(rec.recorded)
             n == Len(audioQueue)
  <2>1. PICK k \in 0..p, chunk \in Nat :
           /\ n \in Nat \ {0} /\ chunk = audioQueue[1]
           /\ Len(audioQueue') = n - 1
           /\ \A i \in 1..(n - 1) : audioQueue'[i] = audioQueue[i + 1]
           /\ Len(rec'.preRoll) = p + 1 - k
           /\ rec'.preRoll[p + 1 - k] = chunk
           /\ \A i \in 1..(p - k) : rec'.preRoll[i] = rec.preRoll[k + i]
           /\ \/ rec'.recorded = Append(rec.recorded, chunk)
              \/ rec'.recorded = rec'.preRoll
              \/ rec'.recorded = <<>>
           /\ rec'.pc \in {"look", "finish"} /\ rec'.kind = rec.kind
    BY <1>11, TakeEffect
  <2>2. rec.pc = "take" /\ UNCHANGED <<chunks, callback, shield>>
    BY <1>11 DEF Take
  <2>3. /\ n \in Nat \ {0} /\ p \in Nat /\ m \in Nat /\ k \in 0..p
        /\ Len(audioQueue) = n /\ Len(rec.preRoll) = p /\ Len(rec.recorded) = m
    BY <1>0, <2>1
  <2>4. /\ chunk = audioQueue[1] /\ Len(audioQueue') = n - 1
        /\ \A i \in 1..(n - 1) : audioQueue'[i] = audioQueue[i + 1]
    BY <2>1
  <2>5. /\ Len(rec'.preRoll) = p + 1 - k
        /\ rec'.preRoll[p + 1 - k] = chunk
        /\ \A i \in 1..(p - k) : rec'.preRoll[i] = rec.preRoll[k + i]
    BY <2>1
  <2>6. rec'.recorded = Append(rec.recorded, chunk) =>
          /\ Len(rec'.recorded) = m + 1
          /\ \A i \in 1..m : rec'.recorded[i] = rec.recorded[i]
          /\ rec'.recorded[m + 1] = chunk
    BY <2>3, AppendProperties DEF RecTypes
  <2> HIDE DEF p, m, n
  <2>7. /\ Recorded(audioQueue)'
        /\ Clean(audioQueue) => Clean(audioQueue)' /\ ~chunks[chunk].selfHeard
        /\ chunk \in 1..Len(chunks)
    <3>1. \A i \in 1..(n - 1) : i + 1 \in 1..n
      BY <2>3
    <3>2. 1 \in 1..n
      BY <2>3
    <3> QED BY <2>2, <2>3, <2>4, <3>1, <3>2 DEF Recorded, Clean, HeardInv
  <2>8. \A i \in 1..(p - k) : k + i \in 1..p
    BY <2>3
  <2>9. \A i \in 1..(p + 1 - k) : i = p + 1 - k \/ i \in 1..(p - k)
    BY <2>3
  <2>10. /\ Recorded(rec.preRoll)'
         /\ Clean(rec.preRoll) => CleanBut1(rec.preRoll)'
         /\ Clean(rec.preRoll) /\ ~chunks[chunk].selfHeard => Clean(rec.preRoll)'
    <3>1. Len(rec'.preRoll) - 1 = p - k
      BY <2>3, <2>5
    <3>2. Recorded(rec.preRoll)'
      BY <2>2, <2>3, <2>5, <2>7, <2>8, <2>9 DEF Recorded, HeardInv
    <3>3. Clean(rec.preRoll) => CleanBut1(rec.preRoll)'
      BY <2>2, <2>3, <2>5, <2>8, <3>1 DEF Clean, CleanBut1
    <3>4. Clean(rec.preRoll) /\ ~chunks[chunk].selfHeard => Clean(rec.preRoll)'
      BY <2>2, <2>3, <2>5, <2>8, <2>9 DEF Clean
    <3> QED BY <3>2, <3>3, <3>4
  <2>11. /\ Recorded(rec.recorded)'
         /\ Clean(rec.preRoll) /\ Clean(rec.recorded) => CleanBut1(rec.recorded)'
         /\ Clean(rec.preRoll) /\ Clean(rec.recorded) /\ ~chunks[chunk].selfHeard =>
              Clean(rec.recorded)'
    <3>1. CASE rec'.recorded = Append(rec.recorded, chunk)
      <4>1. \A i \in 1..(m + 1) : i = m + 1 \/ i \in 1..m
        BY <2>3
      <4>2. Len(rec'.recorded) - 1 = m
        BY <2>3, <2>6, <3>1
      <4>3. Recorded(rec.recorded)'
        BY <2>2, <2>3, <2>6, <2>7, <3>1, <4>1 DEF Recorded, HeardInv
      <4>4. Clean(rec.recorded) => CleanBut1(rec.recorded)'
        BY <2>2, <2>3, <2>6, <3>1, <4>2 DEF Clean, CleanBut1
      <4>5. Clean(rec.recorded) /\ ~chunks[chunk].selfHeard => Clean(rec.recorded)'
        BY <2>2, <2>3, <2>6, <3>1, <4>1 DEF Clean
      <4> QED BY <4>3, <4>4, <4>5
    <3>2. CASE rec'.recorded = rec'.preRoll
      BY <2>10, <3>2 DEF Recorded, Clean, CleanBut1
    <3>3. CASE rec'.recorded = <<>>
      <4>1. Len(rec'.recorded) = 0
        BY <3>3, EmptySeq
      <4> QED BY <4>1 DEF Recorded, Clean, CleanBut1
    <3> QED BY <2>1, <3>1, <3>2, <3>3
  <2>12. callback' # "idle" /\ ~shield' => ~chunks'[Len(chunks')].selfHeard
    BY <2>2 DEF HeardInv
  <2>13. rec.kind = "command" => Clean(rec.preRoll) /\ Clean(rec.recorded)
    BY <2>2 DEF HeardInv
  <2>14. rec.kind = "command" /\ ~shield => Clean(audioQueue)
    BY <2>2 DEF HeardInv
  <2>15. rec'.pc # "take" /\ rec'.kind = rec.kind /\ shield' = shield
    BY <2>1, <2>2
  <2> QED BY <2>7, <2>10, <2>11, <2>12, <2>13, <2>14, <2>15 DEF HeardInv
<1>12. CASE TakeTimeout \/ Replay \/ ObserveWindow
  <2>1. /\ UNCHANGED <<micVars, shield, rec.preRoll, rec.recorded, rec.kind>>
        /\ rec'.pc = "look" => rec.pc = "take"
        /\ rec'.pc # "take"
    BY <1>12 DEF TakeTimeout, Replay, ObserveWindow, RecTypes
  <2> QED BY <1>2, <2>1
<1>13. CASE Finish
  <2>1. CASE rec' = NoUtterance(rec.kind)
    BY <1>1, <1>13, <2>1, NoUtteranceType DEF Finish
  <2>2. CASE rec'.pc = "replay" /\ UNCHANGED <<rec.preRoll, rec.recorded, rec.kind>>
    BY <1>2, <1>13, <2>2 DEF Finish
  <2> QED BY <1>13, <2>1, <2>2 DEF Finish, RecTypes
<1>14. CASE ObserveTranscribed \/ CloseStream
  BY <1>1, <1>14, IdleType DEF ObserveTranscribed, CloseStream
<1>15. CASE BeginRelease
  <2>1. rec'.preRoll = <<>> /\ rec'.recorded = <<>> /\ rec'.pc = "close"
    BY <1>15, IdleType DEF BeginRelease
  <2> QED BY <1>1, <1>15, <2>1 DEF BeginRelease
<1>16. CASE UNCHANGED vars
  BY <1>16 DEF vars, HeardInv, Recorded, Clean, CleanBut1
<1> QED
  BY <1>3, <1>5, <1>6, <1>7, <1>8, <1>9, <1>10, <1>11, <1>12, <1>13, <1>14, <1>15,
     <1>16 DEF Next

\* Of the assistant's own voice a command holds the last chunk at most, whatever
\* queue and pre-roll are (run VoiceCapture).
THEOREM OwnVoiceKeptOut == Spec => []OnlyLastChunkSelfHeard
<1>1. HeardInv => OnlyLastChunkSelfHeard
  BY DEF HeardInv, CleanBut1, OnlyLastChunkSelfHeard
<1>2. Spec => []RecTypes
  BY RecAlways, PTL
<1> QED BY <1>1, <1>2, HeardInit, HeardNext, PTL DEF Spec

-----------------------------------------------------------------------------
\* What the ring keeps.  Total is a recursive function: that it is the sum it is
\* written as, and what follows for runs of frames, is shown by induction, which
\* is stated of sets, since a least element is all the library has to give.

\* Induction over the naturals, as a fact about sets.
LEMMA NatSetInduction ==
  ASSUME NEW S, 0 \in S, \A n \in Nat : n \in S => n + 1 \in S
  PROVE  \A n \in Nat : n \in S
<1> DEFINE R == OpToRel(<, Nat)
           T == {n \in Nat : n \notin S}
<1>1. SUFFICES ASSUME T # {} PROVE FALSE
  OBVIOUS
<1>2. \A y, x \in Nat : y < x => <<y, x>> \in R
  BY DEF OpToRel
<1>3. IsWellFoundedOn(R, Nat)
  BY NatLessThanWellFounded
<1>4. T \subseteq Nat
  OBVIOUS
<1> HIDE DEF R, T
<1>5. PICK x \in T : \A y \in T : <<y, x>> \notin R
  BY <1>1, <1>3, <1>4, WFMin
<1>6. x # 0 /\ x - 1 \in Nat
  BY <1>4, <1>5 DEF T
<1>7. x - 1 \notin T
  <2>1. <<x - 1, x>> \in R
    BY <1>2, <1>4, <1>5, <1>6
  <2> QED BY <1>5, <2>1
<1> QED BY <1>5, <1>6, <1>7 DEF T

\* Total is the sum it is written as.
IsSum(f, n, sum) == sum = [i \in 0..n |-> IF i = 0 THEN 0 ELSE sum[i - 1] + f[i].samples]

LEMMA SumExists == ASSUME NEW f, NEW n \in Nat PROVE \E sum : IsSum(f, n, sum)
<1> DEFINE S == {m \in Nat : \E sum : IsSum(f, m, sum)}
<1>1. 0 \in S
  <2>1. IsSum(f, 0, [i \in 0..0 |-> 0])
    BY DEF IsSum
  <2> QED BY <2>1
<1>2. ASSUME NEW m \in Nat, m \in S PROVE m + 1 \in S
  <2>1. PICK sum : IsSum(f, m, sum)
    BY <1>2
  <2> DEFINE t == [i \in 0..(m + 1) |->
                     IF i = m + 1 THEN sum[m] + f[m + 1].samples ELSE sum[i]]
  <2>2. ASSUME NEW i \in 0..(m + 1)
        PROVE  t[i] = IF i = 0 THEN 0 ELSE t[i - 1] + f[i].samples
    <3>1. CASE i = m + 1
      BY <3>1
    <3>2. CASE i \in 0..m
      <4>1. sum[i] = IF i = 0 THEN 0 ELSE sum[i - 1] + f[i].samples
        BY <2>1, <3>2 DEF IsSum
      <4>2. t[i] = sum[i] /\ (i # 0 => t[i - 1] = sum[i - 1])
        BY <3>2
      <4> QED BY <4>1, <4>2
    <3> QED BY <3>1, <3>2
  <2>3. t = [i \in 0..(m + 1) |-> t[i]]
    OBVIOUS
  <2> HIDE DEF t
  <2>4. IsSum(f, m + 1, t)
    BY <2>2, <2>3 DEF IsSum
  <2> QED BY <2>4
<1> HIDE DEF S
<1>3. n \in S
  BY <1>1, <1>2, NatSetInduction
<1> QED BY <1>3 DEF S

LEMMA TotalSteps ==
  ASSUME NEW f, Len(f) \in Nat
  PROVE  /\ Total(f, 0) = 0
         /\ \A n \in 1..Len(f) : Total(f, n) = Total(f, n - 1) + f[n].samples
<1> DEFINE sum == CHOOSE s : IsSum(f, Len(f), s)
<1>1. IsSum(f, Len(f), sum)
  BY SumExists
<1>2. \A n : Total(f, n) = sum[n]
  BY DEF Total, IsSum
<1> HIDE DEF sum
<1>3. \A n \in 0..Len(f) : sum[n] = IF n = 0 THEN 0 ELSE sum[n - 1] + f[n].samples
  BY <1>1 DEF IsSum
<1>4. Total(f, 0) = 0
  BY <1>2, <1>3
<1>5. ASSUME NEW n \in 1..Len(f) PROVE Total(f, n) = Total(f, n - 1) + f[n].samples
  <2>1. n \in 0..Len(f) /\ n # 0
    OBVIOUS
  <2> QED BY <1>2, <1>3, <2>1
<1> QED BY <1>4, <1>5

LEMMA FrameSamples == \A x \in Frame : x.samples \in Nat \ {0}
  BY BusAssumption DEF Frame

LEMMA TotalType ==
  ASSUME NEW f \in Seq(Frame)
  PROVE  \A n \in 0..Len(f) : Total(f, n) \in Nat
<1> DEFINE S == {n \in Nat : n <= Len(f) => Total(f, n) \in Nat}
<1>1. Len(f) \in Nat
  OBVIOUS
<1>2. 0 \in S
  BY <1>1, TotalSteps
<1>3. ASSUME NEW n \in Nat, n \in S PROVE n + 1 \in S
  <2>1. SUFFICES ASSUME n + 1 <= Len(f) PROVE Total(f, n + 1) \in Nat
    OBVIOUS
  <2>2. n + 1 \in 1..Len(f)
    BY <1>1, <2>1
  <2>3. f[n + 1].samples \in Nat
    BY <2>2, ElementOfSeq, FrameSamples
  <2>4. Total(f, n + 1) = Total(f, n) + f[n + 1].samples
    <3>1. Total(f, n + 1) = Total(f, (n + 1) - 1) + f[n + 1].samples
      BY <1>1, <2>2, TotalSteps
    <3>2. (n + 1) - 1 = n
      OBVIOUS
    <3> QED BY <3>1, <3>2
  <2> QED BY <1>1, <1>3, <2>1, <2>3, <2>4
<1> HIDE DEF S
<1>4. \A n \in Nat : n \in S
  BY <1>2, <1>3, NatSetInduction
<1> QED BY <1>1, <1>4 DEF S

\* A total never shrinks as frames are added.
LEMMA TotalMonotone ==
  ASSUME NEW f \in Seq(Frame), NEW m \in 0..Len(f)
  PROVE  \A n \in m..Len(f) : Total(f, m) <= Total(f, n)
<1> DEFINE S == {k \in Nat : m + k <= Len(f) => Total(f, m) <= Total(f, m + k)}
<1>1. Len(f) \in Nat /\ m \in Nat /\ Total(f, m) \in Nat
  BY TotalType
<1>2. 0 \in S
  <2>1. m + 0 = m
    BY <1>1
  <2> QED BY <1>1, <2>1
<1>3. ASSUME NEW k \in Nat, k \in S PROVE k + 1 \in S
  <2>1. SUFFICES ASSUME m + k + 1 <= Len(f) PROVE Total(f, m) <= Total(f, m + (k + 1))
    BY <1>1
  <2>2. m + k + 1 \in 1..Len(f) /\ m + k \in 0..Len(f) /\ m + (k + 1) = m + k + 1
    BY <1>1, <2>1
  <2>3. f[m + k + 1].samples \in Nat
    BY <2>2, ElementOfSeq, FrameSamples
  <2>4. Total(f, m + k + 1) = Total(f, m + k) + f[m + k + 1].samples
    <3>1. (m + k + 1) - 1 = m + k
      BY <1>1
    <3> QED BY <1>1, <2>2, <3>1, TotalSteps
  <2>5. Total(f, m + k) \in Nat /\ Total(f, m) <= Total(f, m + k)
    BY <1>1, <1>3, <2>2, TotalType
  <2> QED BY <1>1, <2>2, <2>3, <2>4, <2>5
<1> HIDE DEF S
<1>4. \A k \in Nat : k \in S
  BY <1>2, <1>3, NatSetInduction
<1>5. ASSUME NEW n \in m..Len(f) PROVE Total(f, m) <= Total(f, n)
  <2>1. n - m \in S /\ m + (n - m) = n
    BY <1>1, <1>4
  <2> QED BY <1>1, <2>1 DEF S
<1> QED BY <1>5

\* The total of a run of frames is the difference of two totals.
LEMMA TotalOfRun ==
  ASSUME NEW f \in Seq(Frame), NEW g \in Seq(Frame), NEW k \in Nat,
         k + Len(g) <= Len(f), \A i \in 1..Len(g) : g[i] = f[k + i]
  PROVE  \A n \in 0..Len(g) : Total(g, n) = Total(f, k + n) - Total(f, k)
<1> DEFINE S == {n \in Nat : n <= Len(g) => Total(g, n) = Total(f, k + n) - Total(f, k)}
<1>1. Len(f) \in Nat /\ Len(g) \in Nat /\ Total(f, k) \in Nat
  <2>1. Len(f) \in Nat /\ Len(g) \in Nat
    OBVIOUS
  <2> QED BY <2>1, TotalType
<1>2. 0 \in S
  <2>1. k + 0 = k /\ Total(g, 0) = 0
    BY <1>1, TotalSteps
  <2> QED BY <1>1, <2>1
<1>3. ASSUME NEW n \in Nat, n \in S PROVE n + 1 \in S
  <2>1. SUFFICES ASSUME n + 1 <= Len(g)
                 PROVE  Total(g, n + 1) = Total(f, k + (n + 1)) - Total(f, k)
    OBVIOUS
  <2>2. /\ n + 1 \in 1..Len(g) /\ k + (n + 1) \in 1..Len(f) /\ k + n \in 0..Len(f)
        /\ (n + 1) - 1 = n /\ (k + (n + 1)) - 1 = k + n
    BY <1>1, <2>1
  <2>3. Total(g, n + 1) = Total(g, n) + g[n + 1].samples
    BY <1>1, <2>2, TotalSteps
  <2>4. Total(f, k + (n + 1)) = Total(f, k + n) + f[k + (n + 1)].samples
    BY <1>1, <2>2, TotalSteps
  <2>5. g[n + 1] = f[k + (n + 1)] /\ g[n + 1].samples \in Nat
    BY <2>2, ElementOfSeq, FrameSamples
  <2>6. Total(f, k + n) \in Nat
    BY <2>2, TotalType
  <2>7. Total(g, n) = Total(f, k + n) - Total(f, k)
    BY <1>1, <1>3, <2>1
  <2> QED BY <1>1, <2>3, <2>4, <2>5, <2>6, <2>7
<1> HIDE DEF S
<1>4. \A n \in Nat : n \in S
  BY <1>2, <1>3, NatSetInduction
<1> QED BY <1>1, <1>4 DEF S

\* Publishing keeps the count, and lets go of a frame only when with it the ring
\* would be too full.
LEMMA PublishRetains ==
  ASSUME BusInv, RetentionExact, NEW n \in SampleCounts, NEW sp \in BOOLEAN, Publish(n, sp)
  PROVE  RetentionExact'
<1> DEFINE frame == [sequence |-> nextSeq, samples |-> n, speech |-> sp]
           g == Append(frames, frame)
           count == sampleCount + n
           L == Len(frames)
<1>1. PICK d \in 0..L :
        /\ TrimStops(g, count, d)
        /\ \A e \in 0..(d - 1) : ~TrimStops(g, count, e)
        /\ frames' = SubSeq(g, d + 1, Len(g))
        /\ sampleCount' = count - Total(g, d)
  BY DEF Publish
<1>2. /\ L \in Nat /\ Len(log) \in Nat /\ L <= Len(log)
      /\ log' = Append(log, frame) /\ n \in Nat /\ d \in Nat /\ d <= L
      /\ MaxSampleCount \in Nat
  BY HeldFrames, BusAssumption DEF Publish
<1>3. frame \in Frame /\ frames \in Seq(Frame) /\ log \in Seq(Frame)
  BY DEF Frame, BusInv, BusTypes
<1>4. frame.samples = n
  OBVIOUS
<1> HIDE DEF frame
<1>5. /\ g \in Seq(Frame) /\ Len(g) = L + 1
      /\ \A i \in 1..L : g[i] = frames[i]
      /\ g[L + 1] = frame
  BY <1>3, AppendProperties
<1>6. /\ Len(log') = Len(log) + 1
      /\ \A i \in 1..Len(log) : log'[i] = log[i]
      /\ log'[Len(log) + 1] = frame
  BY <1>2, <1>3, AppendProperties
<1> HIDE DEF g
<1>7. /\ frames' \in Seq(Frame) /\ Len(frames') = L + 1 - d
      /\ \A i \in 1..(L + 1 - d) : frames'[i] = g[d + i]
  <2>1. \A i \in (d + 1)..(L + 1) : g[i] \in Frame
    BY <1>2, <1>5, ElementOfSeq
  <2>2. d + 1 \in Int /\ L + 1 \in Int /\ frames' = SubSeq(g, d + 1, L + 1)
    BY <1>1, <1>2, <1>5
  <2>3. d + 1 <= L + 1 /\ (L + 1) - (d + 1) + 1 = L + 1 - d
        /\ \A i \in Int : (d + 1) + i - 1 = d + i
    BY <1>2
  <2> QED BY <2>1, <2>2, <2>3, SubSeqProperties
<1>8. Total(g, L + 1) = count
  <2>1. Total(g, L + 1) = Total(g, L) + n
    <3>1. L + 1 \in 1..Len(g) /\ (L + 1) - 1 = L
      BY <1>2, <1>5
    <3> QED BY <1>2, <1>4, <1>5, <3>1, TotalSteps
  <2>2. Total(frames, L) = Total(g, L) - Total(g, 0)
    <3>1. 0 + Len(frames) <= Len(g) /\ 0 + L = L /\ L \in 0..Len(frames)
          /\ \A i \in 1..Len(frames) : frames[i] = g[0 + i]
      BY <1>2, <1>5
    <3>2. \A m \in 0..Len(frames) : Total(frames, m) = Total(g, 0 + m) - Total(g, 0)
      BY <1>3, <1>5, <3>1, TotalOfRun
    <3> QED BY <3>1, <3>2
  <2>3. Total(g, 0) = 0 /\ Total(g, L) \in Nat
    BY <1>2, <1>5, TotalSteps, TotalType
  <2> QED BY <2>1, <2>2, <2>3 DEF RetentionExact
<1>9. sampleCount' = Total(frames', Len(frames'))
  <2>1. /\ d + Len(frames') <= Len(g) /\ Len(frames') \in 0..Len(frames')
        /\ d + Len(frames') = L + 1
    BY <1>2, <1>5, <1>7
  <2>2. \A m \in 0..Len(frames') : Total(frames', m) = Total(g, d + m) - Total(g, d)
    BY <1>2, <1>5, <1>7, <2>1, TotalOfRun
  <2>3. Total(frames', Len(frames')) = Total(g, L + 1) - Total(g, d)
    BY <2>1, <2>2
  <2> QED BY <1>1, <1>8, <2>3
<1>10. sampleCount' <= MaxSampleCount \/ Len(frames') = 1
  BY <1>1, <1>2, <1>5, <1>7 DEF TrimStops
<1>11. ASSUME Len(frames') < Len(log')
       PROVE  sampleCount' + log'[Len(log') - Len(frames')].samples > MaxSampleCount
  <2>1. CASE d = 0
    <3>1. Len(log') - Len(frames') = Len(log) - L /\ Len(log) - L \in 1..Len(log)
      BY <1>2, <1>6, <1>7, <1>11, <2>1
    <3>2. sampleCount + log[Len(log) - L].samples > MaxSampleCount
      BY <1>2, <3>1 DEF RetentionExact
    <3>3. sampleCount' = sampleCount + n /\ sampleCount \in Nat
      <4>1. Total(g, 0) = 0
        BY <1>2, <1>5, TotalSteps
      <4>2. sampleCount \in Nat
        BY <1>2, <1>3, TotalType DEF RetentionExact
      <4> QED BY <1>1, <1>2, <2>1, <4>1, <4>2
    <3>4. log[Len(log) - L].samples \in Nat
      BY <1>3, <3>1, ElementOfSeq, FrameSamples
    <3>5. log'[Len(log') - Len(frames')] = log[Len(log) - L]
      BY <1>6, <3>1
    <3> QED BY <1>2, <3>2, <3>3, <3>4, <3>5
  <2>2. CASE d > 0
    <3>1. ~TrimStops(g, count, d - 1)
      BY <1>1, <1>2, <2>2
    <3>2. count - Total(g, d - 1) > MaxSampleCount
      <4>1. Total(g, d - 1) \in Nat /\ count \in Nat
        <5>1. d - 1 \in 0..Len(g) /\ L + 1 \in 0..Len(g)
          BY <1>2, <1>5, <2>2
        <5> QED BY <1>5, <1>8, <5>1, TotalType
      <4> QED BY <1>2, <3>1, <4>1 DEF TrimStops
    <3>3. Total(g, d) = Total(g, d - 1) + g[d].samples
      <4>1. d \in 1..Len(g) /\ Len(g) \in Nat
        BY <1>2, <1>5, <2>2
      <4> QED BY <4>1, TotalSteps
    <3>4. g[d] = log'[Len(log') - Len(frames')]
      <4>1. g[d] = frames[d] /\ frames[d] = log[Len(log) - L + d]
        <5>1. d \in 1..L
          BY <1>2, <2>2
        <5>2. frames[d] = log[Len(log) - L + d]
          BY <5>1 DEF BusInv, Contiguous
        <5> QED BY <1>5, <5>1, <5>2
      <4>2. Len(log') - Len(frames') = Len(log) - L + d
            /\ Len(log) - L + d \in 1..Len(log)
        BY <1>2, <1>6, <1>7, <2>2
      <4> QED BY <1>6, <4>1, <4>2
    <3>5. g[d].samples \in Nat /\ Total(g, d - 1) \in Nat /\ count \in Nat
      <4>1. d - 1 \in 0..Len(g) /\ L + 1 \in 0..Len(g) /\ d \in 1..Len(g)
        BY <1>2, <1>5, <2>2
      <4> QED BY <1>5, <1>8, <4>1, TotalType, ElementOfSeq, FrameSamples
    <3>6. sampleCount' = count - (Total(g, d - 1) + g[d].samples)
      BY <1>1, <3>3
    <3>7. sampleCount' + g[d].samples = count - Total(g, d - 1)
      BY <3>5, <3>6
    <3> QED BY <3>2, <3>4, <3>7
  <2>3. d = 0 \/ d > 0
    BY <1>2
  <2> QED BY <2>1, <2>2, <2>3
<1> QED BY <1>9, <1>10, <1>11 DEF RetentionExact

\* Nothing but publishing touches the ring as the voice capture uses the bus.
LEMMA RetentionNext == BusInv /\ RetentionExact /\ [Next]_vars => RetentionExact'
<1> SUFFICES ASSUME BusInv, RetentionExact, [Next]_vars PROVE RetentionExact'
  OBVIOUS
<1>1. CASE UNCHANGED <<frames, sampleCount, log>>
  BY <1>1 DEF RetentionExact
<1>2. ASSUME NEW n \in SampleCounts, NEW sp \in BOOLEAN, Publish(n, sp)
      PROVE  RetentionExact'
  BY <1>2, PublishRetains
<1>3. ASSUME NEW sp \in BOOLEAN, Chunk(sp) PROVE RetentionExact'
  BY <1>2, <1>3, CaptureAssumption DEF Chunk
<1>4. CASE Replay
  BY <1>2, <1>4 DEF Replay
<1>5. CASE Put \/ DropOldest \/ ShieldUp \/ ShieldDown \/ Flush \/ Look \/ Take
           \/ TakeTimeout \/ Finish \/ BeginRelease \/ CloseStream \/ UNCHANGED vars
  BY <1>1, <1>5 DEF Put, DropOldest, ShieldUp, ShieldDown, Flush, Look, Take,
     TakeTimeout, Finish, BeginRelease, CloseStream, vars, busVars
<1>6. ASSUME NEW kind, BeginCapture(kind) PROVE RetentionExact'
  BY <1>1, <1>6 DEF BeginCapture, Arm, Subscribe, busVars
<1>7. CASE Observe
  BY <1>1, <1>7 DEF Observe, ReadBatch, busVars
<1> QED
  BY <1>3, <1>4, <1>5, <1>6, <1>7 DEF Next, ObserveWindow, ObserveTranscribed

LEMMA RetentionInit == Init => RetentionExact
<1> SUFFICES ASSUME Init PROVE RetentionExact
  OBVIOUS
<1>1. frames = <<>> /\ log = <<>> /\ sampleCount = 0 /\ Len(<<>>) = 0
  BY DEF Init, BusInit
<1>2. Total(<<>>, 0) = 0
  BY <1>1, TotalSteps
<1> QED BY <1>1, <1>2, BusAssumption DEF RetentionExact

LEMMA BusAlways == Spec => []BusInv
<1>1. Init => BusInv
  BY BusInitInv DEF Init
<1>2. BusInv /\ [Next]_vars => BusInv'
  BY CaptureStep, BusStep
<1> QED BY <1>1, <1>2, PTL DEF Spec

\* The ring holds the longest suffix of the log that fits, and the newest frame
\* always; its sample counter is exact, for any ring and frame sizes (run VoiceCapture).
THEOREM RingKeepsWhatFits == Spec => []RetentionExact
BY BusAlways, RetentionInit, RetentionNext, PTL DEF Spec

-----------------------------------------------------------------------------
\* What the endpointing policy knows.  Scoring a batch is a fold, which the library
\* defines by the sets of indices that are done; it is worked out frame by frame.

\* The steps of a fold from the left.
IsFold(p, s, n, iter) ==
  iter = [t \in SUBSET (1..n) |-> IF t = {} THEN p
                                  ELSE Process(iter[t \ {Max(t)}], s[Max(t)])]

LEMMA MaxOfInterval ==
  ASSUME NEW n \in Nat, NEW t \in SUBSET (1..(n + 1)), n + 1 \in t
  PROVE  Max(t) = n + 1
<1>1. \A y \in t : n + 1 >= y
  OBVIOUS
<1>2. \A x \in t : (\A y \in t : x >= y) => x = n + 1
  OBVIOUS
<1> QED BY <1>1, <1>2 DEF Max

LEMMA FoldExists == ASSUME NEW p, NEW s, NEW n \in Nat PROVE \E iter : IsFold(p, s, n, iter)
<1> DEFINE S == {m \in Nat : \E iter : IsFold(p, s, m, iter)}
<1>1. 0 \in S
  <2>1. SUBSET (1..0) = {{}}
    OBVIOUS
  <2>2. IsFold(p, s, 0, [t \in SUBSET (1..0) |-> p])
    BY <2>1 DEF IsFold
  <2> QED BY <2>2
<1>2. ASSUME NEW m \in Nat, m \in S PROVE m + 1 \in S
  <2>1. PICK iter : IsFold(p, s, m, iter)
    BY <1>2
  <2> DEFINE next == [t \in SUBSET (1..(m + 1)) |->
                        IF m + 1 \in t THEN Process(iter[t \ {m + 1}], s[m + 1])
                        ELSE iter[t]]
  <2>2. ASSUME NEW t \in SUBSET (1..(m + 1))
        PROVE  next[t] = IF t = {} THEN p ELSE Process(next[t \ {Max(t)}], s[Max(t)])
    <3>1. CASE m + 1 \in t
      <4>1. Max(t) = m + 1
        BY <3>1, MaxOfInterval
      <4>2. t \ {m + 1} \in SUBSET (1..(m + 1)) /\ m + 1 \notin t \ {m + 1}
        OBVIOUS
      <4>3. next[t \ {m + 1}] = iter[t \ {m + 1}]
        BY <4>2
      <4>4. next[t] = Process(iter[t \ {m + 1}], s[m + 1])
        BY <3>1
      <4> HIDE DEF next
      <4> QED BY <3>1, <4>1, <4>3, <4>4
    <3>2. CASE m + 1 \notin t
      <4>1. t \in SUBSET (1..m)
        BY <3>2
      <4>2. iter[t] = IF t = {} THEN p ELSE Process(iter[t \ {Max(t)}], s[Max(t)])
        BY <2>1, <4>1 DEF IsFold
      <4>3. t \ {Max(t)} \in SUBSET (1..(m + 1)) /\ m + 1 \notin t \ {Max(t)}
        BY <3>2
      <4>4. next[t \ {Max(t)}] = iter[t \ {Max(t)}]
        BY <4>3
      <4>5. next[t] = iter[t]
        BY <3>2
      <4> HIDE DEF next
      <4> QED BY <4>2, <4>4, <4>5
    <3> QED BY <3>1, <3>2
  <2>3. next = [t \in SUBSET (1..(m + 1)) |-> next[t]]
    OBVIOUS
  <2> HIDE DEF next
  <2>4. IsFold(p, s, m + 1, next)
    BY <2>2, <2>3 DEF IsFold
  <2> QED BY <2>4
<1> HIDE DEF S
<1>3. n \in S
  BY <1>1, <1>2, NatSetInduction
<1> QED BY <1>3 DEF S

\* The policy p after the frames s, in one call of the bridge.
ScoreAll(p, s) == FoldLeft(Process, p, s)

\* FoldLeft runs through the policies after every frame.
LEMMA FoldSteps ==
  ASSUME NEW p, NEW s \in Seq(Frame)
  PROVE  \E k : /\ k[0] = p /\ k[Len(s)] = ScoreAll(p, s)
                /\ \A n \in 1..Len(s) : k[n] = Process(k[n - 1], s[n])
<1>1. Len(s) \in Nat /\ DOMAIN s = 1..Len(s)
  BY LenProperties
<1> DEFINE iter == CHOOSE f : IsFold(p, s, Len(s), f)
           k == [n \in 0..Len(s) |-> iter[1..n]]
<1>2. IsFold(p, s, Len(s), iter)
  BY <1>1, FoldExists
<1>3. FoldLeft(Process, p, s) = iter[1..Len(s)]
  <2>1. FoldLeft(Process, p, s) = (CHOOSE f : IsFold(p, s, Len(s), f))[DOMAIN s]
    <3>1. FoldLeft(Process, p, s) =
            (CHOOSE f : f = [t \in SUBSET DOMAIN s |->
                               IF t = {} THEN p ELSE Process(f[t \ {Max(t)}], s[Max(t)])])[DOMAIN s]
      BY DEF FoldLeft, MapThenFoldSet
    <3> QED BY <1>1, <3>1 DEF IsFold
  <2> QED BY <1>1, <2>1
<1> HIDE DEF iter
<1>4. \A t \in SUBSET (1..Len(s)) :
        iter[t] = IF t = {} THEN p ELSE Process(iter[t \ {Max(t)}], s[Max(t)])
  BY <1>2 DEF IsFold
<1>5. k[0] = p
  <2>1. 1..0 = {} /\ {} \in SUBSET (1..Len(s))
    OBVIOUS
  <2>2. k[0] = iter[1..0]
    BY <1>1
  <2> QED BY <1>4, <2>1, <2>2
<1>6. ASSUME NEW n \in 1..Len(s) PROVE k[n] = Process(k[n - 1], s[n])
  <2>1. n - 1 \in Nat /\ n - 1 \in 0..Len(s) /\ n \in 0..Len(s) /\ (n - 1) + 1 = n
    BY <1>1
  <2>2. 1..n \in SUBSET (1..Len(s)) /\ 1..n # {} /\ n \in 1..n /\ (1..n) \ {n} = 1..(n - 1)
    <3>1. \A i \in Int : i \in 1..n <=> i = n \/ i \in 1..(n - 1)
      BY <1>1
    <3>2. 1..(n - 1) \subseteq Int /\ 1..n \subseteq Int /\ n \notin 1..(n - 1)
      BY <1>1
    <3>3. (1..n) \ {n} = 1..(n - 1)
      BY <3>1, <3>2
    <3>4. 1..n \in SUBSET (1..Len(s)) /\ n \in 1..n
      BY <1>1
    <3> QED BY <3>3, <3>4
  <2>3. Max(1..n) = n
    BY <2>1, <2>2, MaxOfInterval
  <2>4. iter[1..n] = Process(iter[1..(n - 1)], s[n])
    BY <1>4, <2>2, <2>3
  <2> QED BY <2>1, <2>4
<1>7. k[Len(s)] = ScoreAll(p, s)
  BY <1>1, <1>3 DEF ScoreAll
<1> HIDE DEF k
<1> QED BY <1>5, <1>6, <1>7

\* The run a..b of s: its sort, how long it lasts.
Voiced(s, a, b, v) == \A i \in a..b : s[i].speech = v
Span(s, a, b) == Total(s, b) - Total(s, a - 1)
LongRun(s, a, b, v, n) == Voiced(s, a, b, v) /\ Span(s, a, b) >= n

\* SpeechStateExact says of inSpeech that it is InSpeech(scored).
SilentAfter(s, b) ==
  \E c, d \in (b + 1)..Len(s) : c <= d /\ LongRun(s, c, d, FALSE, MinSilence)
InSpeech(s) ==
  \E b \in 1..Len(s) : (\E a \in 1..b : LongRun(s, a, b, TRUE, MinSpeech)) /\ ~SilentAfter(s, b)

\* a..Len(s) is the longest run of sort v at the end of s.
EndRun(s, a, v) ==
  /\ a \in 1..(Len(s) + 1)
  /\ Voiced(s, a, Len(s), v)
  /\ a > 1 => s[a - 1].speech = ~v

\* The policy p after the frames s: besides inSpeech it knows how long the run at
\* the end of s has lasted, and that this was not long enough.
Exact(p, s) ==
  /\ p.inSpeech <=> InSpeech(s)
  /\ ~p.inSpeech => \E a : /\ EndRun(s, a, TRUE)
                           /\ p.candidate = Span(s, a, Len(s))
                           /\ p.candidate < MinSpeech
  /\ p.inSpeech => \E c : /\ EndRun(s, c, FALSE)
                          /\ p.silence = Span(s, c, Len(s))
                          /\ p.silence < MinSilence

PolicyType == [inSpeech : BOOLEAN, candidate : Nat, silence : 0..MinSilence]

LEMMA SpanProperties ==
  ASSUME NEW s \in Seq(Frame), NEW a \in 1..(Len(s) + 1), NEW b \in 0..Len(s), a <= b + 1
  PROVE  /\ Span(s, a, b) \in Nat
         /\ \A c \in a..(b + 1) : Span(s, c, b) <= Span(s, a, b)
         /\ a <= b => Total(SubSeq(s, a, b), b - a + 1) = Span(s, a, b)
<1>1. Len(s) \in Nat /\ a - 1 \in 0..Len(s) /\ b \in (a - 1)..Len(s)
  OBVIOUS
<1>2. Total(s, a - 1) \in Nat /\ Total(s, b) \in Nat /\ Total(s, a - 1) <= Total(s, b)
  BY <1>1, TotalType, TotalMonotone
<1>3. Span(s, a, b) \in Nat
  BY <1>2 DEF Span
<1>4. ASSUME NEW c \in a..(b + 1) PROVE Span(s, c, b) <= Span(s, a, b)
  <2>1. c - 1 \in (a - 1)..Len(s) /\ c - 1 \in 0..Len(s)
    BY <1>1
  <2>2. Total(s, c - 1) \in Nat /\ Total(s, a - 1) <= Total(s, c - 1)
    BY <1>1, <2>1, TotalType, TotalMonotone
  <2> QED BY <1>2, <2>2 DEF Span
<1>5. ASSUME a <= b PROVE Total(SubSeq(s, a, b), b - a + 1) = Span(s, a, b)
  <2> DEFINE g == SubSeq(s, a, b)
  <2>1. \A i \in a..b : s[i] \in Frame
    BY <1>1, ElementOfSeq
  <2>2. g \in Seq(Frame) /\ Len(g) = b - a + 1 /\ \A i \in 1..(b - a + 1) : g[i] = s[a + i - 1]
    BY <1>1, <1>5, <2>1, SubSeqProperties
  <2> HIDE DEF g
  <2>3. /\ a - 1 \in Nat /\ (a - 1) + Len(g) <= Len(s) /\ Len(g) \in 0..Len(g)
        /\ (a - 1) + Len(g) = b /\ \A i \in Int : (a - 1) + i = a + i - 1
    BY <1>1, <1>5, <2>2
  <2>4. \A i \in 1..Len(g) : g[i] = s[(a - 1) + i]
    BY <2>2, <2>3
  <2>5. \A n \in 0..Len(g) : Total(g, n) = Total(s, (a - 1) + n) - Total(s, a - 1)
    BY <2>2, <2>3, <2>4, TotalOfRun
  <2>6. Total(g, Len(g)) = Total(s, b) - Total(s, a - 1)
    BY <2>3, <2>5
  <2> QED BY <2>2, <2>6 DEF Span, g
<1> QED BY <1>3, <1>4, <1>5

\* t is s and the frame x.  What was a run of s is one of t, with the same total.
Grown(s, x, t) ==
  /\ t \in Seq(Frame) /\ Len(s) \in Nat /\ Len(t) = Len(s) + 1 /\ t[Len(t)] = x
  /\ \A i \in 1..Len(s) : t[i] = s[i]
  /\ \A a \in 1..(Len(s) + 1), b \in 1..Len(s) : Span(t, a, b) = Span(s, a, b)
  /\ \A a \in 1..(Len(s) + 1) : Span(t, a, Len(t)) = Span(s, a, Len(s)) + x.samples
  /\ Span(t, Len(t) + 1, Len(t)) = 0

LEMMA OneMore ==
  ASSUME NEW s \in Seq(Frame), NEW x \in Frame, NEW t, t = Append(s, x)
  PROVE  Grown(s, x, t)
<1>1. /\ t \in Seq(Frame) /\ Len(s) \in Nat /\ Len(t) = Len(s) + 1 /\ t[Len(t)] = x
      /\ \A i \in 1..Len(s) : t[i] = s[i]
  BY AppendProperties
<1>2. \A n \in 0..Len(s) : Total(t, n) = Total(s, n) /\ Total(s, n) \in Nat
  <2>1. 0 + Len(s) <= Len(t) /\ \A i \in 1..Len(s) : s[i] = t[0 + i]
    BY <1>1
  <2>2. \A n \in 0..Len(s) : Total(s, n) = Total(t, 0 + n) - Total(t, 0)
    BY <1>1, <2>1, TotalOfRun
  <2>3. Total(t, 0) = 0 /\ \A n \in 0..Len(s) : 0 + n = n
    <3>1. Len(t) \in Nat
      BY <1>1
    <3> QED BY <1>1, <3>1, TotalSteps
  <2>4. \A n \in 0..Len(s) : Total(t, n) \in Nat /\ Total(s, n) \in Nat
    <3>1. \A n \in 0..Len(t) : Total(t, n) \in Nat
      BY <1>1, TotalType
    <3>2. \A n \in 0..Len(s) : Total(s, n) \in Nat
      BY TotalType
    <3>3. \A n \in 0..Len(s) : n \in 0..Len(t)
      BY <1>1
    <3> QED BY <3>1, <3>2, <3>3
  <2> QED BY <2>2, <2>3, <2>4
<1>3. Total(t, Len(t)) = Total(s, Len(s)) + x.samples
  <2>1. Len(t) \in 1..Len(t) /\ Len(t) - 1 = Len(s) /\ Len(s) \in 0..Len(s)
    BY <1>1
  <2>2. Total(t, Len(t)) = Total(t, Len(t) - 1) + t[Len(t)].samples
    <3>1. Len(t) \in Nat
      BY <1>1
    <3> QED BY <2>1, <3>1, TotalSteps
  <2> QED BY <1>1, <1>2, <2>1, <2>2
<1>4. x.samples \in Nat
  BY FrameSamples
<1>5. \A a \in 1..(Len(s) + 1), b \in 1..Len(s) : Span(t, a, b) = Span(s, a, b)
  <2>1. \A a \in 1..(Len(s) + 1), b \in 1..Len(s) : a - 1 \in 0..Len(s) /\ b \in 0..Len(s)
    BY <1>1
  <2> QED BY <1>2, <2>1 DEF Span
<1>6. \A a \in 1..(Len(s) + 1) : Span(t, a, Len(t)) = Span(s, a, Len(s)) + x.samples
  <2>1. \A a \in 1..(Len(s) + 1) : a - 1 \in 0..Len(s)
    BY <1>1
  <2>2. Len(s) \in 0..Len(s)
    BY <1>1
  <2> QED BY <1>2, <1>3, <1>4, <2>1, <2>2 DEF Span
<1>7. Span(t, Len(t) + 1, Len(t)) = 0
  <2>1. Total(t, Len(t)) \in Nat /\ (Len(t) + 1) - 1 = Len(t)
    <3>1. Len(t) \in 0..Len(t)
      BY <1>1
    <3>2. Total(t, Len(t)) \in Nat
      BY <1>1, <3>1, TotalType
    <3> QED BY <1>1, <3>2
  <2> QED BY <2>1 DEF Span
<1> QED BY <1>1, <1>5, <1>6, <1>7 DEF Grown

\* No run of that sort ends there and began earlier.
LEMMA EndRunLongest ==
  ASSUME NEW s \in Seq(Frame), NEW v \in BOOLEAN, NEW a, EndRun(s, a, v),
         NEW c \in 1..Len(s), Voiced(s, c, Len(s), v)
  PROVE  Span(s, c, Len(s)) <= Span(s, a, Len(s))
<1>1. Len(s) \in Nat /\ a \in 1..(Len(s) + 1)
  BY DEF EndRun
<1>2. c >= a
  <2>1. SUFFICES ASSUME c < a PROVE FALSE
    BY <1>1
  <2>2. a - 1 \in c..Len(s) /\ a > 1
    BY <1>1, <2>1
  <2>3. s[a - 1].speech = v /\ s[a - 1].speech = ~v
    BY <2>2 DEF EndRun, Voiced
  <2> QED BY <2>3
<1>3. /\ c \in a..(Len(s) + 1) /\ Len(s) \in 0..Len(s) /\ a <= Len(s) + 1
  BY <1>1, <1>2
<1> QED BY <1>1, <1>3, SpanProperties

LEMMA RunsKept ==
  ASSUME NEW s \in Seq(Frame), NEW x \in Frame, NEW t, Grown(s, x, t),
         NEW a \in 1..(Len(s) + 1), NEW b \in 1..Len(s), NEW v \in BOOLEAN, NEW n
  PROVE  LongRun(t, a, b, v, n) <=> LongRun(s, a, b, v, n)
<1>1. \A i \in a..b : i \in 1..Len(s)
  OBVIOUS
<1>2. \A i \in a..b : t[i] = s[i]
  BY <1>1 DEF Grown
<1>3. Span(t, a, b) = Span(s, a, b)
  BY DEF Grown
<1> QED BY <1>2, <1>3 DEF LongRun, Voiced

\* A frame of the same sort lengthens the run at the end; one of the other sort
\* leaves none.
LEMMA EndRunStep ==
  ASSUME NEW s \in Seq(Frame), NEW x \in Frame, NEW t, Grown(s, x, t), NEW v \in BOOLEAN
  PROVE  /\ \A a : EndRun(s, a, v) /\ x.speech = v =>
              EndRun(t, a, v) /\ Span(t, a, Len(t)) = Span(s, a, Len(s)) + x.samples
         /\ x.speech # v => EndRun(t, Len(t) + 1, v) /\ Span(t, Len(t) + 1, Len(t)) = 0
<1>1. /\ Len(s) \in Nat /\ Len(t) = Len(s) + 1 /\ t[Len(t)] = x
      /\ \A i \in 1..Len(s) : t[i] = s[i]
      /\ \A a \in 1..(Len(s) + 1) : Span(t, a, Len(t)) = Span(s, a, Len(s)) + x.samples
      /\ Span(t, Len(t) + 1, Len(t)) = 0
  BY DEF Grown
<1>2. x.speech \in BOOLEAN
  BY DEF Frame
<1>3. ASSUME NEW a, EndRun(s, a, v), x.speech = v
      PROVE  EndRun(t, a, v) /\ Span(t, a, Len(t)) = Span(s, a, Len(s)) + x.samples
  <2>1. a \in 1..(Len(s) + 1) /\ a \in 1..(Len(t) + 1)
    BY <1>1, <1>3 DEF EndRun
  <2>2. ASSUME NEW i \in a..Len(t) PROVE t[i].speech = v
    <3>1. CASE i = Len(t)
      BY <1>1, <1>3, <3>1
    <3>2. CASE i # Len(t)
      <4>1. i \in a..Len(s) /\ i \in 1..Len(s)
        BY <1>1, <2>1, <3>2
      <4> QED BY <1>1, <1>3, <4>1 DEF EndRun, Voiced
    <3> QED BY <3>1, <3>2
  <2>3. ASSUME a > 1 PROVE t[a - 1].speech = ~v
    <3>1. a - 1 \in 1..Len(s)
      BY <1>1, <2>1, <2>3
    <3> QED BY <1>1, <1>3, <2>3, <3>1 DEF EndRun
  <2> QED BY <1>1, <2>1, <2>2, <2>3 DEF EndRun, Voiced
<1>4. ASSUME x.speech # v PROVE EndRun(t, Len(t) + 1, v)
  <2>1. /\ Len(t) + 1 \in 1..(Len(t) + 1) /\ (Len(t) + 1) - 1 = Len(t)
        /\ \A i \in (Len(t) + 1)..Len(t) : FALSE
    BY <1>1
  <2>2. x.speech = ~v
    BY <1>2, <1>4
  <2> QED BY <1>1, <2>1, <2>2 DEF EndRun, Voiced
<1> QED BY <1>1, <1>3, <1>4

\* What one frame does to InSpeech, by where the run at the end stands.
LEMMA SpeechStep ==
  ASSUME NEW s \in Seq(Frame), NEW x \in Frame, NEW t, Grown(s, x, t)
  PROVE  /\ InSpeech(s) /\ x.speech => InSpeech(t)
         /\ ~InSpeech(s) /\ ~x.speech => ~InSpeech(t)
         /\ \A a : x.speech /\ EndRun(t, a, TRUE) /\ ~InSpeech(s) =>
              (InSpeech(t) <=> Span(t, a, Len(t)) >= MinSpeech)
         /\ \A a : ~x.speech /\ EndRun(t, a, FALSE) /\ InSpeech(s) =>
              (InSpeech(t) <=> Span(t, a, Len(t)) < MinSilence)
<1> DEFINE n == Len(t)
<1>1. /\ t \in Seq(Frame) /\ Len(s) \in Nat /\ n = Len(s) + 1 /\ t[n] = x /\ n \in Nat
      /\ \A i \in 1..Len(s) : t[i] = s[i]
  BY DEF Grown
<1>2. x.speech \in BOOLEAN /\ MinSpeech \in Nat /\ MinSilence \in Nat
  BY CaptureAssumption DEF Frame
<1> HIDE DEF n
\* Runs that end at the new frame are of its sort.
<1>3. \A a \in 1..n, v \in BOOLEAN : \A m : LongRun(t, a, n, v, m) => x.speech = v
  <2>1. \A a \in 1..n : n \in a..n
    BY <1>1
  <2> QED BY <1>1, <2>1 DEF LongRun, Voiced
\* Runs that do not are runs of s.
<1>4. \A a, b \in 1..Len(s), v \in BOOLEAN :
        \A m : LongRun(t, a, b, v, m) <=> LongRun(s, a, b, v, m)
  <2> SUFFICES ASSUME NEW a \in 1..Len(s), NEW b \in 1..Len(s), NEW v \in BOOLEAN, NEW m
               PROVE  LongRun(t, a, b, v, m) <=> LongRun(s, a, b, v, m)
    OBVIOUS
  <2>1. a \in 1..(Len(s) + 1)
    BY <1>1
  <2> QED BY <2>1, RunsKept
<1>5. ASSUME NEW b \in 1..Len(s), SilentAfter(s, b) PROVE SilentAfter(t, b)
  <2>1. PICK c \in (b + 1)..Len(s), d \in (b + 1)..Len(s) :
          c <= d /\ LongRun(s, c, d, FALSE, MinSilence)
    BY <1>5 DEF SilentAfter
  <2>2. /\ c \in 1..Len(s) /\ d \in 1..Len(s)
        /\ c \in (b + 1)..n /\ d \in (b + 1)..n
    BY <1>1, <2>1
  <2>3. LongRun(t, c, d, FALSE, MinSilence)
    BY <1>4, <2>1, <2>2
  <2> QED BY <2>1, <2>2, <2>3 DEF SilentAfter, n
\* New silence must end at the new frame.
<1>6. ASSUME NEW b \in 1..Len(s), SilentAfter(t, b), ~SilentAfter(s, b)
      PROVE  ~x.speech /\ \E c \in (b + 1)..n : LongRun(t, c, n, FALSE, MinSilence)
  <2>1. PICK c \in (b + 1)..n, d \in (b + 1)..n :
          c <= d /\ LongRun(t, c, d, FALSE, MinSilence)
    BY <1>6 DEF SilentAfter, n
  <2>2. CASE d = n
    <3>1. c \in 1..n
      BY <1>1, <2>1
    <3> QED BY <1>3, <2>1, <2>2, <3>1
  <2>3. CASE d # n
    <3>1. /\ c \in (b + 1)..Len(s) /\ d \in (b + 1)..Len(s)
          /\ c \in 1..Len(s) /\ d \in 1..Len(s)
      BY <1>1, <2>1, <2>3
    <3>2. LongRun(s, c, d, FALSE, MinSilence)
      BY <1>4, <2>1, <3>1
    <3> QED BY <1>6, <2>1, <3>1, <3>2 DEF SilentAfter
  <2> QED BY <2>2, <2>3
\* New speech, too.
<1>7. ASSUME InSpeech(t), ~InSpeech(s)
      PROVE  x.speech /\ \E a \in 1..n : LongRun(t, a, n, TRUE, MinSpeech)
  <2>1. PICK b \in 1..n :
          (\E a \in 1..b : LongRun(t, a, b, TRUE, MinSpeech)) /\ ~SilentAfter(t, b)
    BY <1>7 DEF InSpeech, n
  <2>2. PICK a \in 1..b : LongRun(t, a, b, TRUE, MinSpeech)
    BY <2>1
  <2>3. CASE b = n
    BY <1>3, <2>2, <2>3
  <2>4. CASE b # n
    <3>1. b \in 1..Len(s) /\ a \in 1..Len(s)
      BY <1>1, <2>4
    <3>2. LongRun(s, a, b, TRUE, MinSpeech) /\ ~SilentAfter(s, b)
      BY <1>4, <1>5, <2>1, <2>2, <3>1
    <3> QED BY <1>7, <3>1, <3>2 DEF InSpeech
  <2> QED BY <2>3, <2>4
\* Speech goes on unless a long silence ends at the new frame.
<1>8. ASSUME InSpeech(s)
      PROVE  \E b \in 1..Len(s) :
               /\ \E a \in 1..b : LongRun(t, a, b, TRUE, MinSpeech)
               /\ b \in 1..n /\ ~SilentAfter(s, b)
  <2>1. PICK b \in 1..Len(s) :
          (\E a \in 1..b : LongRun(s, a, b, TRUE, MinSpeech)) /\ ~SilentAfter(s, b)
    BY <1>8 DEF InSpeech
  <2>2. b \in 1..n /\ \A a \in 1..b : a \in 1..Len(s)
    BY <1>1
  <2> QED BY <1>4, <2>1, <2>2
<1>9. ASSUME InSpeech(s), x.speech PROVE InSpeech(t)
  BY <1>6, <1>8, <1>9 DEF InSpeech, n
<1>10. ASSUME NEW a, x.speech, EndRun(t, a, TRUE), ~InSpeech(s)
       PROVE  InSpeech(t) <=> Span(t, a, n) >= MinSpeech
  <2>1. a \in 1..n
    <3>1. n \in n..n /\ a \in 1..(n + 1)
      BY <1>1, <1>10 DEF EndRun, n
    <3>2. a # n + 1
      <4>1. a = n + 1 => a > 1 /\ a - 1 = n
        BY <1>1
      <4> QED BY <1>1, <1>10, <4>1 DEF EndRun
    <3> QED BY <1>1, <3>1, <3>2
  <2>2. ASSUME Span(t, a, n) >= MinSpeech PROVE InSpeech(t)
    <3>1. LongRun(t, a, n, TRUE, MinSpeech)
      BY <1>10, <2>2 DEF EndRun, LongRun, n
    <3>2. n \in 1..n /\ \A c \in (n + 1)..n : FALSE
      BY <1>1
    <3>3. ~SilentAfter(t, n)
      BY <3>2 DEF SilentAfter, n
    <3> QED BY <2>1, <3>1, <3>2, <3>3 DEF InSpeech, n
  <2>3. ASSUME InSpeech(t) PROVE Span(t, a, n) >= MinSpeech
    <3>1. PICK c \in 1..n : LongRun(t, c, n, TRUE, MinSpeech)
      BY <1>7, <1>10, <2>3
    <3>2. Voiced(t, c, n, TRUE) /\ Span(t, c, n) >= MinSpeech
      BY <3>1 DEF LongRun
    <3>3. Span(t, c, n) <= Span(t, a, n)
      BY <1>1, <1>10, <3>2, EndRunLongest DEF n
    <3>4. Span(t, c, n) \in Nat /\ Span(t, a, n) \in Nat
      <4>1. /\ n \in 0..Len(t) /\ c \in 1..(Len(t) + 1) /\ a \in 1..(Len(t) + 1)
            /\ c <= n + 1 /\ a <= n + 1
        BY <1>1, <2>1 DEF n
      <4> QED BY <1>1, <4>1, SpanProperties
    <3> QED BY <1>2, <3>2, <3>3, <3>4
  <2> QED BY <2>2, <2>3
<1>11. ASSUME NEW a, ~x.speech, EndRun(t, a, FALSE), InSpeech(s)
       PROVE  InSpeech(t) <=> Span(t, a, n) < MinSilence
  <2>1. a \in 1..n
    <3>1. n \in n..n /\ a \in 1..(n + 1)
      BY <1>1, <1>11 DEF EndRun, n
    <3>2. a # n + 1
      <4>1. a = n + 1 => a > 1 /\ a - 1 = n
        BY <1>1
      <4> QED BY <1>1, <1>11, <4>1 DEF EndRun
    <3> QED BY <1>1, <3>1, <3>2
  <2>4. Span(t, a, n) \in Nat
    <3>1. n \in 0..Len(t) /\ a \in 1..(Len(t) + 1) /\ a <= n + 1
      BY <1>1, <2>1 DEF n
    <3> QED BY <1>1, <3>1, SpanProperties
  <2>2. ASSUME Span(t, a, n) >= MinSilence, InSpeech(t) PROVE FALSE
    <3>1. PICK b \in 1..n, e \in 1..n :
            e <= b /\ LongRun(t, e, b, TRUE, MinSpeech) /\ ~SilentAfter(t, b)
      <4>1. PICK b \in 1..n :
              (\E e \in 1..b : LongRun(t, e, b, TRUE, MinSpeech)) /\ ~SilentAfter(t, b)
        BY <2>2 DEF InSpeech, n
      <4>2. \A e \in 1..b : e \in 1..n /\ e <= b
        BY <1>1
      <4> QED BY <4>1, <4>2
    <3>2. t[b].speech = TRUE
      <4>1. b \in e..b
        BY <3>1
      <4> QED BY <3>1, <4>1 DEF LongRun, Voiced
    <3>3. b < a
      <4>1. SUFFICES ASSUME b >= a PROVE FALSE
        BY <2>1
      <4>2. b \in a..n
        BY <2>1, <4>1
      <4>3. t[b].speech = FALSE
        BY <1>11, <4>2 DEF EndRun, Voiced, n
      <4> QED BY <3>2, <4>3
    <3>4. LongRun(t, a, n, FALSE, MinSilence)
      BY <1>11, <2>2 DEF EndRun, LongRun, n
    <3>5. a \in (b + 1)..n /\ n \in (b + 1)..n /\ a <= n
      BY <1>1, <2>1, <3>3
    <3>6. SilentAfter(t, b)
      BY <3>4, <3>5 DEF SilentAfter, n
    <3> QED BY <3>1, <3>6
  <2>3. ASSUME Span(t, a, n) < MinSilence PROVE InSpeech(t)
    <3>1. PICK b \in 1..Len(s) :
            /\ \E e \in 1..b : LongRun(t, e, b, TRUE, MinSpeech)
            /\ b \in 1..n /\ ~SilentAfter(s, b)
      BY <1>8, <1>11
    <3>2. ~SilentAfter(t, b)
      <4>1. SUFFICES ASSUME SilentAfter(t, b) PROVE FALSE
        OBVIOUS
      <4>2. PICK c \in (b + 1)..n : LongRun(t, c, n, FALSE, MinSilence)
        BY <1>6, <3>1, <4>1
      <4>3. Voiced(t, c, n, FALSE) /\ Span(t, c, n) >= MinSilence
        BY <4>2 DEF LongRun
      <4>4. c \in 1..n
        BY <1>1
      <4>5. Span(t, c, n) <= Span(t, a, n)
        BY <1>1, <1>11, <4>3, <4>4, EndRunLongest DEF n
      <4>6. Span(t, c, n) \in Nat
        <5>1. n \in 0..Len(t) /\ c \in 1..(Len(t) + 1) /\ c <= n + 1
          BY <1>1, <4>4 DEF n
        <5> QED BY <1>1, <5>1, SpanProperties
      <4> QED BY <1>2, <2>3, <2>4, <4>3, <4>5, <4>6
    <3> QED BY <3>1, <3>2 DEF InSpeech, n
  <2> QED BY <1>2, <2>2, <2>3, <2>4
<1>12. ASSUME ~InSpeech(s), ~x.speech PROVE ~InSpeech(t)
  BY <1>7, <1>12
<1> QED BY <1>9, <1>10, <1>11, <1>12 DEF n

\* What makes a policy exact, in speech and out of it.
LEMMA ExactCases ==
  ASSUME NEW q, NEW t, NEW a
  PROVE  /\ q.inSpeech /\ InSpeech(t) /\ EndRun(t, a, FALSE)
            /\ q.silence = Span(t, a, Len(t)) /\ q.silence < MinSilence => Exact(q, t)
         /\ ~q.inSpeech /\ ~InSpeech(t) /\ EndRun(t, a, TRUE)
            /\ q.candidate = Span(t, a, Len(t)) /\ q.candidate < MinSpeech => Exact(q, t)
BY Zenon DEF Exact

\* Scoring one frame keeps the policy exact.
LEMMA ExactStep ==
  ASSUME NEW p \in PolicyType, NEW s \in Seq(Frame), NEW x \in Frame, Exact(p, s),
         NEW t, Grown(s, x, t)
  PROVE  Process(p, x) \in PolicyType /\ Exact(Process(p, x), t)
<1> DEFINE q == Process(p, x)
<1>1. /\ p.inSpeech \in BOOLEAN /\ p.candidate \in Nat /\ p.silence \in 0..MinSilence
      /\ x.speech \in BOOLEAN /\ x.samples \in Nat
      /\ MinSpeech \in Nat \ {0} /\ MinSilence \in Nat \ {0}
  BY CaptureAssumption, FrameSamples DEF PolicyType, Frame
<1>2. NewPolicy \in PolicyType /\ NewPolicy.inSpeech = FALSE /\ NewPolicy.candidate = 0
  BY <1>1 DEF NewPolicy, PolicyType
<1>3. x.speech => EndRun(t, Len(t) + 1, FALSE) /\ Span(t, Len(t) + 1, Len(t)) = 0
  BY EndRunStep
<1>4. ~x.speech => EndRun(t, Len(t) + 1, TRUE) /\ Span(t, Len(t) + 1, Len(t)) = 0
  BY <1>1, EndRunStep
<1>0. p.inSpeech <=> InSpeech(s)
  BY DEF Exact
<1>5. CASE x.speech /\ p.inSpeech
  <2>1. q = [p EXCEPT !.silence = 0]
    BY <1>5 DEF Process
  <2> HIDE DEF q
  <2>2. q \in PolicyType /\ q.inSpeech = p.inSpeech /\ q.silence = 0
    BY <1>1, <2>1 DEF PolicyType
  <2>3. InSpeech(t)
    BY <1>0, <1>5, SpeechStep
  <2>4. 0 < MinSilence
    BY <1>1
  <2>5. q.inSpeech
    BY <1>5, <2>2
  <2>6. Exact(q, t)
    BY <1>3, <1>5, <2>2, <2>3, <2>4, <2>5, ExactCases
  <2> QED BY <2>2, <2>6 DEF q
<1>6. CASE x.speech /\ ~p.inSpeech
  <2> DEFINE c == p.candidate + x.samples
  <2>1. q = [inSpeech |-> c >= MinSpeech, candidate |-> c, silence |-> 0]
    BY <1>6 DEF Process
  <2>2. c \in Nat /\ 0 \in 0..MinSilence /\ (c >= MinSpeech) \in BOOLEAN
    BY <1>1
  <2> HIDE DEF q, c
  <2>3. q.silence = 0 /\ q.candidate = c /\ q.inSpeech = (c >= MinSpeech)
    BY <2>1
  <2>4. q \in PolicyType
    <3> DEFINE v == c >= MinSpeech
    <3>1. q = [inSpeech |-> v, candidate |-> c, silence |-> 0] /\ v \in BOOLEAN
      BY <2>1, <2>2
    <3> HIDE DEF v
    <3> QED BY <2>2, <3>1 DEF PolicyType
  <2>5. PICK a : EndRun(s, a, TRUE) /\ p.candidate = Span(s, a, Len(s))
    BY <1>6 DEF Exact
  <2>6. x.speech = TRUE
    BY <1>1, <1>6
  <2>7. EndRun(t, a, TRUE) /\ Span(t, a, Len(t)) = Span(s, a, Len(s)) + x.samples
    <3> DEFINE v == TRUE
    <3>1. v \in BOOLEAN /\ x.speech = v /\ EndRun(s, a, v)
      BY <2>5, <2>6
    <3> HIDE DEF v
    <3>2. EndRun(t, a, v) /\ Span(t, a, Len(t)) = Span(s, a, Len(s)) + x.samples
      BY <3>1, EndRunStep
    <3> QED BY <3>2 DEF v
  <2>8. Span(t, a, Len(t)) = c
    BY <2>5, <2>7 DEF c
  <2>9. InSpeech(t) <=> c >= MinSpeech
    BY <1>0, <1>6, <2>7, <2>8, SpeechStep
  <2>10. 0 < MinSilence /\ (c >= MinSpeech \/ c < MinSpeech)
    BY <1>1, <2>2
  <2>11. CASE c >= MinSpeech
    <3>1. q.inSpeech /\ InSpeech(t)
      BY <2>3, <2>9, <2>11
    <3>2. Exact(q, t)
      BY <1>3, <1>6, <2>3, <2>10, <3>1, ExactCases
    <3> QED BY <2>4, <3>2 DEF q
  <2>12. CASE ~(c >= MinSpeech)
    <3>1. ~q.inSpeech /\ ~InSpeech(t)
      BY <2>3, <2>9, <2>12
    <3>2. Exact(q, t)
      BY <2>3, <2>7, <2>8, <2>10, <2>12, <3>1, ExactCases
    <3> QED BY <2>4, <3>2 DEF q
  <2> QED BY <2>11, <2>12
<1>7. CASE ~x.speech /\ ~p.inSpeech
  <2>1. q = [p EXCEPT !.candidate = 0]
    BY <1>7 DEF Process
  <2> HIDE DEF q
  <2>2. q \in PolicyType /\ q.inSpeech = p.inSpeech /\ q.candidate = 0
    BY <1>1, <2>1 DEF PolicyType
  <2>3. ~InSpeech(t)
    BY <1>0, <1>7, SpeechStep
  <2>4. 0 < MinSpeech
    BY <1>1
  <2>5. ~q.inSpeech
    BY <1>7, <2>2
  <2>6. Exact(q, t)
    BY <1>4, <1>7, <2>2, <2>3, <2>4, <2>5, ExactCases
  <2> QED BY <2>2, <2>6 DEF q
<1>8. CASE ~x.speech /\ p.inSpeech
  <2> DEFINE m == p.silence + x.samples
  <2>1. PICK a : EndRun(s, a, FALSE) /\ p.silence = Span(s, a, Len(s))
    BY <1>8 DEF Exact
  <2>2. x.speech = FALSE
    BY <1>1, <1>8
  <2>3. EndRun(t, a, FALSE) /\ Span(t, a, Len(t)) = Span(s, a, Len(s)) + x.samples
    BY <2>1, <2>2, EndRunStep
  <2>4. m \in Nat
    BY <1>1
  <2>5. q = IF m >= MinSilence THEN NewPolicy ELSE [p EXCEPT !.candidate = 0, !.silence = m]
    BY <1>8 DEF Process
  <2> HIDE DEF q, m
  <2>6. Span(t, a, Len(t)) = m
    BY <2>1, <2>3 DEF m
  <2>7. InSpeech(t) <=> m < MinSilence
    BY <1>0, <1>8, <2>3, <2>6, SpeechStep
  <2>8. CASE m >= MinSilence
    <3>1. q = NewPolicy /\ 0 < MinSpeech /\ ~(m < MinSilence)
      BY <1>1, <2>4, <2>5, <2>8
    <3>2. ~q.inSpeech /\ ~InSpeech(t) /\ q.candidate = 0
      BY <1>2, <2>7, <3>1
    <3>3. Exact(q, t)
      BY <1>4, <1>8, <3>1, <3>2, ExactCases
    <3> QED BY <1>2, <3>1, <3>3 DEF q
  <2>9. CASE m < MinSilence
    <3>1. q = [p EXCEPT !.candidate = 0, !.silence = m] /\ m \in 0..MinSilence
      BY <1>1, <2>4, <2>5, <2>9
    <3>2. q \in PolicyType /\ q.inSpeech = p.inSpeech /\ q.silence = m
      BY <1>1, <3>1 DEF PolicyType
    <3>3. q.inSpeech /\ InSpeech(t)
      BY <1>8, <2>7, <2>9, <3>2
    <3>4. Exact(q, t)
      BY <2>3, <2>6, <2>9, <3>2, <3>3, ExactCases
    <3> QED BY <3>2, <3>4 DEF q
  <2>10. m >= MinSilence \/ m < MinSilence
    BY <1>1, <2>4
  <2> QED BY <2>8, <2>9, <2>10
<1> QED BY <1>5, <1>6, <1>7, <1>8

\* A batch leaves the policy as exact as a frame does.
LEMMA FoldExact ==
  ASSUME NEW p \in PolicyType, NEW s \in Seq(Frame), Exact(p, s), NEW batch \in Seq(Frame)
  PROVE  ScoreAll(p, batch) \in PolicyType /\ Exact(ScoreAll(p, batch), s \o batch)
<1> DEFINE q == ScoreAll(p, batch)
           so(n) == s \o SubSeq(batch, 1, n)
<1>1. PICK k : /\ k[0] = p /\ k[Len(batch)] = q
               /\ \A n \in 1..Len(batch) : k[n] = Process(k[n - 1], batch[n])
  BY FoldSteps
<1> HIDE DEF q
<1>2. Len(batch) \in Nat /\ Len(s) \in Nat
  OBVIOUS
<1>3. ASSUME NEW n \in 0..Len(batch)
      PROVE  /\ SubSeq(batch, 1, n) \in Seq(Frame) /\ Len(SubSeq(batch, 1, n)) = n
             /\ \A i \in 1..n : SubSeq(batch, 1, n)[i] = batch[i]
  <2>1. \A i \in 1..n : batch[i] \in Frame
    BY <1>2, ElementOfSeq
  <2>2. (1 <= n => n - 1 + 1 = n) /\ (~(1 <= n) => n = 0) /\ \A i \in Int : 1 + i - 1 = i
    BY <1>2
  <2>3. /\ SubSeq(batch, 1, n) \in Seq(Frame)
        /\ Len(SubSeq(batch, 1, n)) = IF 1 <= n THEN n - 1 + 1 ELSE 0
        /\ \A i \in 1..(n - 1 + 1) : SubSeq(batch, 1, n)[i] = batch[1 + i - 1]
    BY <1>2, <2>1, SubSeqProperties
  <2> QED BY <1>2, <2>2, <2>3
<1>4. ASSUME NEW n \in 0..Len(batch)
      PROVE  /\ so(n) \in Seq(Frame) /\ Len(so(n)) = Len(s) + n
             /\ \A i \in 1..(Len(s) + n) :
                  so(n)[i] = IF i <= Len(s) THEN s[i] ELSE batch[i - Len(s)]
  <2>1. /\ so(n) \in Seq(Frame) /\ Len(so(n)) = Len(s) + Len(SubSeq(batch, 1, n))
        /\ \A i \in 1..(Len(s) + Len(SubSeq(batch, 1, n))) :
             so(n)[i] = IF i <= Len(s) THEN s[i] ELSE SubSeq(batch, 1, n)[i - Len(s)]
    BY <1>3, ConcatProperties
  <2>2. \A i \in 1..(Len(s) + n) : i <= Len(s) \/ i - Len(s) \in 1..n
    BY <1>2
  <2> QED BY <1>3, <2>1, <2>2
<1>5. ASSUME NEW n \in 1..Len(batch) PROVE so(n) = Append(so(n - 1), batch[n])
  <2>1. n - 1 \in 0..Len(batch) /\ n \in 0..Len(batch) /\ batch[n] \in Frame
    BY <1>2, ElementOfSeq
  <2> DEFINE t == Append(so(n - 1), batch[n])
  <2>3. /\ so(n - 1) \in Seq(Frame) /\ Len(so(n - 1)) = Len(s) + (n - 1)
        /\ \A i \in 1..(Len(s) + (n - 1)) :
             so(n - 1)[i] = IF i <= Len(s) THEN s[i] ELSE batch[i - Len(s)]
    BY <1>4, <2>1
  <2>4. /\ so(n) \in Seq(Frame) /\ Len(so(n)) = Len(s) + n
        /\ \A i \in 1..(Len(s) + n) :
             so(n)[i] = IF i <= Len(s) THEN s[i] ELSE batch[i - Len(s)]
    BY <1>4, <2>1
  <2> HIDE DEF so
  <2>5. /\ t \in Seq(Frame) /\ Len(t) = Len(s) + n
        /\ \A i \in 1..(Len(s) + (n - 1)) : t[i] = so(n - 1)[i]
        /\ t[Len(s) + n] = batch[n]
    <3>1. /\ t \in Seq(Frame) /\ Len(t) = Len(so(n - 1)) + 1
          /\ \A i \in 1..Len(so(n - 1)) : t[i] = so(n - 1)[i]
          /\ t[Len(so(n - 1)) + 1] = batch[n]
      BY <2>1, <2>3, AppendProperties
    <3>2. Len(so(n - 1)) + 1 = Len(s) + n
      BY <1>2, <2>1, <2>3
    <3> QED BY <2>3, <3>1, <3>2
  <2> HIDE DEF t
  <2>6. ASSUME NEW i \in 1..(Len(s) + n) PROVE so(n)[i] = t[i]
    <3>1. CASE i = Len(s) + n
      <4>1. ~(i <= Len(s)) /\ i - Len(s) = n
        BY <1>2, <2>1, <3>1
      <4> QED BY <2>4, <2>5, <3>1, <4>1
    <3>2. CASE i # Len(s) + n
      <4>1. i \in 1..(Len(s) + (n - 1))
        BY <1>2, <2>1, <3>2
      <4> QED BY <2>3, <2>4, <2>5, <4>1
    <3> QED BY <3>1, <3>2
  <2>7. so(n) = t
    BY <2>4, <2>5, <2>6, SeqEqual
  <2> QED BY <2>7 DEF t
<1>6. so(0) = s /\ so(Len(batch)) = s \o batch
  <2>1. SubSeq(batch, 1, 0) = <<>>
    BY SubSeqEmpty
  <2>2. SubSeq(batch, 1, Len(batch)) = batch
    BY SubSeqFull
  <2> QED BY <2>1, <2>2, ConcatEmptySeq
<1> DEFINE S == {n \in Nat : n <= Len(batch) => k[n] \in PolicyType /\ Exact(k[n], so(n))}
<1>7. 0 \in S
  BY <1>1, <1>6
<1>8. ASSUME NEW n \in Nat, n \in S PROVE n + 1 \in S
  <2> HIDE DEF so
  <2> SUFFICES ASSUME n + 1 <= Len(batch)
               PROVE  k[n + 1] \in PolicyType /\ Exact(k[n + 1], so(n + 1))
    OBVIOUS
  <2>1. n + 1 \in 1..Len(batch) /\ (n + 1) - 1 = n /\ n \in 0..Len(batch) /\ n <= Len(batch)
    BY <1>2
  <2>2. k[n] \in PolicyType /\ Exact(k[n], so(n))
    BY <1>8, <2>1
  <2>3. k[n + 1] = Process(k[n], batch[n + 1])
    BY <1>1, <2>1
  <2>4. so(n + 1) = Append(so(n), batch[n + 1])
    BY <1>5, <2>1
  <2>5. so(n) \in Seq(Frame) /\ batch[n + 1] \in Frame
    BY <1>4, <2>1, ElementOfSeq
  <2>6. Grown(so(n), batch[n + 1], so(n + 1))
    BY <2>4, <2>5, OneMore
  <2> QED BY <2>2, <2>3, <2>5, <2>6, ExactStep
<1> HIDE DEF S, so
<1>9. Len(batch) \in S
  BY <1>2, <1>7, <1>8, NatSetInduction
<1>10. q \in PolicyType /\ Exact(q, s \o batch)
  <2>1. Len(batch) <= Len(batch)
    BY <1>2
  <2>2. k[Len(batch)] \in PolicyType /\ Exact(k[Len(batch)], so(Len(batch)))
    BY <1>9, <2>1 DEF S
  <2> QED BY <1>1, <1>6, <2>2
<1> QED BY <1>10 DEF q

LEMMA ExactNew == NewPolicy \in PolicyType /\ Exact(NewPolicy, <<>>) /\ <<>> \in Seq(Frame)
<1>1. <<>> \in Seq(Frame) /\ Len(<<>>) = 0
  BY EmptySeq
<1>2. /\ NewPolicy \in PolicyType /\ ~NewPolicy.inSpeech /\ NewPolicy.candidate = 0
      /\ 0 < MinSpeech
  BY CaptureAssumption DEF NewPolicy, PolicyType
<1>3. ~InSpeech(<<>>)
  BY <1>1 DEF InSpeech
<1>4. EndRun(<<>>, 1, TRUE)
  BY <1>1 DEF EndRun, Voiced
<1>5. Span(<<>>, 1, Len(<<>>)) = 0
  <2>1. Total(<<>>, 0) = 0
    BY <1>1, TotalSteps
  <2> QED BY <1>1, <2>1 DEF Span
<1> QED BY <1>1, <1>2, <1>3, <1>4, <1>5, ExactCases

\* The policy is exact for the frames scored since it was reset.
ScoreInv == scored \in Seq(Frame) /\ policy \in PolicyType /\ Exact(policy, scored)

LEMMA ScoreNext == BusInv /\ ScoreInv /\ [Next]_vars => ScoreInv'
<1> SUFFICES ASSUME BusInv, ScoreInv, [Next]_vars PROVE ScoreInv'
  OBVIOUS
<1>1. CASE UNCHANGED vadVars
  BY <1>1 DEF vadVars, ScoreInv
<1>2. CASE Arm
  BY <1>2, ExactNew DEF Arm, ScoreInv
<1>3. ASSUME NEW first \in 1..Len(frames), NEW last \in 1..Len(frames), NEW ok \in 0..MaxFrames,
             ok <= last - first + 1,
             policy' = FoldLeft(Process, policy, SubSeq(frames, first, first + ok - 1)),
             scored' = scored \o SubSeq(frames, first, first + ok - 1)
      PROVE  ScoreInv'
  <2> DEFINE batch == SubSeq(frames, first, first + ok - 1)
  <2>1. batch \in Seq(Frame)
    <3>1. Len(frames) \in Nat /\ MaxFrames \in Nat /\ frames \in Seq(Frame)
      BY HeldFrames, BusAssumption DEF BusInv, BusTypes
    <3>2. first \in Int /\ first + ok - 1 \in Int
          /\ \A i \in first..(first + ok - 1) : i \in 1..Len(frames)
      BY <1>3, <3>1
    <3>3. \A i \in first..(first + ok - 1) : frames[i] \in Frame
      BY <3>1, <3>2, ElementOfSeq
    <3> QED BY <3>2, <3>3, SubSeqProperties
  <2>2. policy' = ScoreAll(policy, batch) /\ scored' = scored \o batch
    BY <1>3 DEF ScoreAll
  <2> HIDE DEF batch
  <2>3. ScoreAll(policy, batch) \in PolicyType /\ Exact(ScoreAll(policy, batch), scored \o batch)
    BY <2>1, FoldExact DEF ScoreInv
  <2>4. scored \o batch \in Seq(Frame)
    BY <2>1, ConcatProperties DEF ScoreInv
  <2> QED BY <2>2, <2>3, <2>4 DEF ScoreInv
<1>4. CASE Observe
  BY <1>1, <1>3, <1>4 DEF Observe
<1>5. ASSUME NEW kind, BeginCapture(kind) PROVE ScoreInv'
  BY <1>1, <1>2, <1>5 DEF BeginCapture
<1>6. CASE \/ \E sp \in BOOLEAN : Chunk(sp)
           \/ Put \/ DropOldest \/ ShieldUp \/ ShieldDown \/ Flush \/ Look \/ Take
           \/ TakeTimeout \/ Finish \/ Replay \/ BeginRelease \/ CloseStream
           \/ UNCHANGED vars
  BY <1>1, <1>6 DEF Chunk, Put, DropOldest, ShieldUp, ShieldDown, Flush, Look, Take,
     TakeTimeout, Finish, Replay, BeginRelease, CloseStream, vars
<1> QED
  BY <1>4, <1>5, <1>6 DEF Next, ObserveWindow, ObserveTranscribed

LEMMA ScoreAlways == Spec => []ScoreInv
<1>1. Init => ScoreInv
  BY ExactNew DEF Init, ScoreInv
<1> QED BY <1>1, BusAlways, ScoreNext, PTL DEF Spec

\* The policy of the bridge says "in speech" when the frames scored since it was
\* armed do, for any durations and any frame sizes (run VoiceCapture).
THEOREM SpeechStateIsExact == Spec => []SpeechStateExact
<1>1. ScoreInv => SpeechStateExact
  <2> SUFFICES ASSUME ScoreInv PROVE SpeechStateExact
    OBVIOUS
  <2>1. Len(scored) \in Nat /\ scored \in Seq(Frame)
    BY DEF ScoreInv
  <2>2. ASSUME NEW a \in 1..Len(scored), NEW b \in a..Len(scored), NEW v \in BOOLEAN, NEW n
        PROVE  Run(a, b, v, n) <=> LongRun(scored, a, b, v, n)
    <3>1. a \in 1..(Len(scored) + 1) /\ b \in 0..Len(scored) /\ a <= b + 1 /\ a <= b
      BY <2>1
    <3>2. Total(SubSeq(scored, a, b), b - a + 1) = Span(scored, a, b)
      BY <2>1, <3>1, SpanProperties
    <3> QED BY <3>2 DEF Run, LongRun, Voiced
  <2>3. ASSUME NEW b \in 1..Len(scored)
        PROVE  (\E a \in 1..b : Run(a, b, TRUE, MinSpeech)) <=>
                 \E a \in 1..b : LongRun(scored, a, b, TRUE, MinSpeech)
    <3>1. \A a \in 1..b : a \in 1..Len(scored) /\ b \in a..Len(scored)
      BY <2>1
    <3> QED BY <2>2, <3>1
  <2>4. ASSUME NEW b \in 1..Len(scored)
        PROVE  (\E c, d \in (b + 1)..Len(scored) : c <= d /\ Run(c, d, FALSE, MinSilence)) <=>
                 SilentAfter(scored, b)
    <3>1. \A c, d \in (b + 1)..Len(scored) :
            c <= d => c \in 1..Len(scored) /\ d \in c..Len(scored)
      BY <2>1
    <3> QED BY <2>2, <3>1 DEF SilentAfter
  <2>5. policy.inSpeech <=> InSpeech(scored)
    BY DEF ScoreInv, Exact
  <2> QED BY <2>3, <2>4, <2>5 DEF SpeechStateExact, InSpeech
<1> QED BY <1>1, ScoreAlways, PTL

-----------------------------------------------------------------------------
\* The types, and the bounds of queue and window.

\* What TypeOK says beside the types proved so far: the queue keeps its bound, and
\* the window holds recorded chunks.
BoundInv ==
  /\ Len(audioQueue) <= QueueSize
  /\ stream \in BOOLEAN
  /\ Recorded(rec.window)

LEMMA BoundInit == Init => BoundInv
<1>1. Len(<<>>) = 0 /\ QueueSize \in Nat
  BY EmptySeq, CaptureAssumption
<1> SUFFICES ASSUME Init PROVE BoundInv
  OBVIOUS
<1>2. Len(audioQueue) <= QueueSize
  BY <1>1 DEF Init
<1>3. stream \in BOOLEAN
  BY DEF Init
<1>4. rec.window = <<>>
  BY DEF Init, Idle
<1>5. Recorded(rec.window)
  BY <1>1, <1>4 DEF Recorded
<1> QED BY <1>2, <1>3, <1>5 DEF BoundInv

LEMMA BoundNext == RecTypes /\ HeardInv /\ BoundInv /\ [Next]_vars => BoundInv'
<1> SUFFICES ASSUME RecTypes, HeardInv, BoundInv, [Next]_vars PROVE BoundInv'
  OBVIOUS
<1> USE DEF BoundInv, micVars
<1>0. /\ Len(chunks) \in Nat /\ audioQueue \in Seq(Nat) /\ Len(audioQueue) \in Nat
      /\ QueueSize \in Nat \ {0} /\ Len(<<>>) = 0
  BY CaptureAssumption, EmptySeq DEF RecTypes
<1>1. ASSUME UNCHANGED <<chunks, rec.window>> PROVE Recorded(rec.window)'
  BY <1>1 DEF Recorded
<1>2. ASSUME rec'.window = <<>> PROVE Recorded(rec.window)'
  BY <1>0, <1>2 DEF Recorded
<1>3. \A kind : NoUtterance(kind).window = <<>> /\ Idle.window = <<>>
  BY DEF NoUtterance, Idle
<1>4. ASSUME NEW sp \in BOOLEAN, Chunk(sp) PROVE BoundInv'
  <2>1. Len(chunks') = Len(chunks) + 1 /\ UNCHANGED <<audioQueue, stream, rec>>
    BY <1>4, AppendProperties DEF Chunk, RecTypes
  <2>2. Recorded(rec.window)'
    BY <1>0, <2>1 DEF Recorded
  <2> QED BY <2>1, <2>2
<1>5. CASE Put
  <2>1. Len(Append(audioQueue, Len(chunks))) = Len(audioQueue) + 1
    BY <1>0, AppendProperties
  <2> QED BY <1>0, <1>1, <1>5, <2>1 DEF Put
<1>6. CASE DropOldest
  <2>1. CASE audioQueue = <<>>
    <3>1. Len(audioQueue') = 1
      BY <1>0, <1>6, <2>1, EmptySeq, AppendProperties DEF DropOldest
    <3> QED BY <1>0, <1>1, <1>6, <3>1 DEF DropOldest
  <2>2. CASE audioQueue # <<>>
    <3>1. /\ Tail(audioQueue) \in Seq(Nat) /\ Len(Tail(audioQueue)) = Len(audioQueue) - 1
      BY <1>0, <2>2, HeadTailProperties
    <3>2. Len(Append(Tail(audioQueue), Len(chunks))) = Len(audioQueue)
      BY <1>0, <3>1, AppendProperties
    <3> QED BY <1>1, <1>6, <2>2, <3>2 DEF DropOldest
  <2> QED BY <2>1, <2>2
<1>7. ASSUME NEW kind \in {"command", "wake"}, BeginCapture(kind) PROVE BoundInv'
  <2>1. Len(audioQueue') <= QueueSize /\ stream' \in BOOLEAN
    <3>1. audioQueue' \in {audioQueue, <<>>} /\ stream' \in {stream, TRUE}
      BY <1>7 DEF BeginCapture
    <3>2. stream' \in BOOLEAN
      BY <3>1, Zenon
    <3>3. Len(audioQueue') <= QueueSize
      BY <1>0, <3>1
    <3> QED BY <3>2, <3>3
  <2>2. rec'.window = <<>>
    BY <1>3, <1>7 DEF BeginCapture, Idle
  <2> QED BY <1>2, <2>1, <2>2
<1>8. CASE Flush
  BY <1>0, <1>1, <1>8 DEF Flush, RecTypes
<1>9. CASE Look
  <2>1. rec'.window \in {<<>>, rec.window} /\ UNCHANGED <<chunks, stream>>
    BY <1>3, <1>9 DEF Look, RecTypes
  <2> QED BY <1>0, <1>1, <1>2, <1>9, <2>1 DEF Look
<1>10. CASE Take
  BY <1>0, <1>1, <1>10, TakeEffect DEF Take
<1>11. CASE TakeTimeout \/ ShieldUp \/ ShieldDown \/ ObserveWindow \/ BeginRelease
            \/ ObserveTranscribed \/ CloseStream
  <2>1. rec'.window \in {<<>>, rec.window} /\ UNCHANGED chunks /\ stream' \in BOOLEAN
    BY <1>3, <1>11 DEF TakeTimeout, ShieldUp, ShieldDown, ObserveWindow, BeginRelease,
       ObserveTranscribed, CloseStream, RecTypes, Idle
  <2>2. Len(audioQueue') <= QueueSize
    BY <1>0, <1>11 DEF TakeTimeout, ShieldUp, ShieldDown, ObserveWindow, BeginRelease,
       ObserveTranscribed, CloseStream
  <2> QED BY <1>1, <1>2, <2>1, <2>2
<1>12. CASE Finish
  <2>1. UNCHANGED <<chunks, audioQueue, stream>>
    BY <1>12 DEF Finish
  <2>2. CASE rec' = NoUtterance(rec.kind)
    BY <1>2, <1>3, <2>1, <2>2
  <2>3. ASSUME NEW a \in 1..Len(rec.recorded), NEW b \in 1..Len(rec.recorded),
               rec' = [rec EXCEPT !.pc = "replay", !.window = SubSeq(rec.recorded, a, b)]
        PROVE  BoundInv'
    <3>1. rec.recorded \in Seq(Nat) /\ Len(rec.recorded) \in Nat
      BY DEF RecTypes
    <3>2. \A i \in a..b : i \in 1..Len(rec.recorded) /\ rec.recorded[i] \in Nat
      BY <3>1, ElementOfSeq
    <3> DEFINE w == SubSeq(rec.recorded, a, b)
    <3>3. /\ Len(w) = IF a <= b THEN b - a + 1 ELSE 0
          /\ \A i \in 1..(b - a + 1) : w[i] = rec.recorded[a + i - 1]
      BY <3>1, <3>2, SubSeqProperties
    <3>4. rec'.window = w
      BY <2>3 DEF RecTypes
    <3> HIDE DEF w
    <3>5. ASSUME NEW i \in 1..Len(w) PROVE w[i] \in 1..Len(chunks)
      <4>1. i \in 1..(b - a + 1) /\ a + i - 1 \in 1..Len(rec.recorded)
        BY <3>1, <3>3
      <4> QED BY <3>3, <4>1 DEF HeardInv, Recorded
    <3> QED BY <2>1, <3>4, <3>5 DEF Recorded
  <2> QED BY <1>12, <2>2, <2>3 DEF Finish
<1>13. CASE Replay
  <2>1. rec.window \in Seq(Nat) /\ rec.window # <<>> /\ UNCHANGED <<chunks, audioQueue, stream>>
    BY <1>13 DEF Replay, RecTypes
  <2>2. rec'.window = Tail(rec.window)
    BY <1>13 DEF Replay, RecTypes
  <2>3. /\ Len(rec.window) \in Nat /\ Len(Tail(rec.window)) = Len(rec.window) - 1
        /\ \A i \in 1..Len(Tail(rec.window)) : Tail(rec.window)[i] = rec.window[i + 1]
    BY <2>1, HeadTailProperties
  <2>4. \A i \in 1..(Len(rec.window) - 1) : i + 1 \in 1..Len(rec.window)
    BY <2>3
  <2> QED BY <2>1, <2>2, <2>3, <2>4 DEF Recorded
<1>14. CASE UNCHANGED vars
  BY <1>1, <1>14 DEF vars
<1> QED
  BY <1>4, <1>5, <1>6, <1>7, <1>8, <1>9, <1>10, <1>11, <1>12, <1>13, <1>14 DEF Next

\* A sequence of naturals that are all chunks is a sequence of chunks.
LEMMA ChunkSeq ==
  ASSUME NEW s \in Seq(Nat), Recorded(s) PROVE s \in Seq(1..Len(chunks))
<1>1. s \in [1..Len(s) -> 1..Len(chunks)] /\ Len(s) \in Nat
  BY LenProperties DEF Recorded
<1> QED BY <1>1, SeqDef

\* The variables keep their types, the queue its bound, whatever sizes are chosen
\* (run VoiceCapture).
THEOREM TypesKept == Spec => []TypeOK
<1>1. /\ BusInv /\ RetentionExact /\ RecTypes /\ HeardInv /\ BoundInv /\ ScoreInv => TypeOK
  <2> SUFFICES ASSUME BusInv, RetentionExact, RecTypes, HeardInv, BoundInv, ScoreInv
               PROVE  TypeOK
    OBVIOUS
  <2>1. BusTypeOK
    <3>1. Len(frames) \in 0..Len(frames) /\ frames \in Seq(Frame)
      BY HeldFrames DEF BusInv, BusTypes
    <3>2. sampleCount \in Nat
      BY <3>1, TotalType DEF RetentionExact
    <3> QED BY <3>2 DEF BusInv, BusTypes, BusTypeOK
  <2>2. audioQueue \in Seq(1..Len(chunks))
    BY ChunkSeq DEF RecTypes, HeardInv
  <2>3. {rec.preRoll, rec.recorded, rec.window} \subseteq Seq(1..Len(chunks))
    <3>1. rec.preRoll \in Seq(Nat) /\ rec.recorded \in Seq(Nat) /\ rec.window \in Seq(Nat)
      BY DEF RecTypes
    <3> QED BY <3>1, ChunkSeq DEF HeardInv, BoundInv
  <2>4. rec.pc \in RecPCs
    BY DEF RecTypes
  <2> QED BY <2>1, <2>2, <2>3, <2>4 DEF TypeOK, RecTypes, BoundInv, ScoreInv, PolicyType
<1>2. Spec => [](RecTypes /\ HeardInv)
  BY RecAlways, HeardInit, HeardNext, PTL DEF Spec
<1>3. Spec => []BoundInv
  BY <1>2, BoundInit, BoundNext, PTL DEF Spec
<1> QED
  BY <1>1, <1>2, <1>3, BusAlways, ScoreAlways, RingKeepsWhatFits, PTL

=================================================================================
