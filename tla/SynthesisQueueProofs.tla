------------------------- MODULE SynthesisQueueProofs -------------------------
(***************************************************************************)
(* The queue of SynthesisQueue, for any number of texts, jobs and threads  *)
(* that queue.  Files, the stop flag and the speaker's progress play no    *)
(* part: only the steps that touch a job, the table of pending jobs, the   *)
(* queue or the worker can disturb the invariant.                          *)
(***************************************************************************)
EXTENDS SynthesisQueue, TLAPS

CreatedHaveKeys == \A j \in created : jobs[j].key \in Keys

\* _pending_jobs maps a key to a job of that key.
PendingPointsBack ==
  \A k \in Keys : pending[k] # NoJob => pending[k] \in created /\ jobs[pending[k]].key = k

EntriesAreCreated ==
  /\ \A e \in queue : e.job \in created
  /\ worker.pc # "idle" => worker.entry.job \in created

\* The worker pops a job from the table only after it has set the event.
FinalizesFinished == worker.pc = "finalize" => jobs[worker.entry.job].event

QueueInv ==
  /\ CreatedHaveKeys
  /\ PendingPointsBack
  /\ EntriesAreCreated
  /\ FinalizesFinished
  /\ UnfinishedIsPending
  /\ OnlyStopLosesAJob

queueView == <<jobs, created, pending, queue, worker, dropped>>

-----------------------------------------------------------------------------
(* Types.                                                                  *)

\* The three operations on files keep their types.
FileTypes ==
  /\ file \in [Keys -> {"none", "partial", "whole"}]
  /\ writers \in [Keys -> SUBSET {"worker", "speaker"}]

LEMMA FileOperations ==
  ASSUME FileTypes, NEW k \in Keys, NEW who \in {"worker", "speaker"},
         OpenForWriting(k, who) \/ CloseWritten(k, who) \/ Unlink(k)
  PROVE  FileTypes'
<1>1. CASE OpenForWriting(k, who)
  BY <1>1 DEF FileTypes, OpenForWriting
<1>2. CASE CloseWritten(k, who)
  BY <1>2 DEF FileTypes, CloseWritten
<1>3. CASE Unlink(k)
  BY <1>3 DEF FileTypes, Unlink
<1>4. QED BY <1>1, <1>2, <1>3

QueueTypes ==
  /\ jobs \in [Jobs -> JobRecord]
  /\ created \subseteq Jobs
  /\ pending \in [Keys -> Jobs \union {NoJob}]
  /\ queue \subseteq Entry
  /\ sequence \in Nat

LEMMA EnqueueTypes ==
  ASSUME QueueTypes, NEW k \in Keys, NEW p \in Priorities, NEW j \in Jobs,
         EnqueueSynthesis(k, p, j)
  PROVE  QueueTypes'
<1>1. CASE JoinPending(k, p, j)
  <2>1. CASE ~jobs[j].event /\ p < jobs[j].priority
    <3>1. jobs[j].version + 1 \in Nat
      BY DEF QueueTypes, JobRecord
    <3>2. jobs' = [jobs EXCEPT ![j].priority = p, ![j].version = @ + 1]
      BY <1>1, <2>1 DEF JoinPending
    <3>3. jobs' \in [Jobs -> JobRecord]
      BY <3>1, <3>2 DEF QueueTypes, JobRecord
    <3>4. [job |-> j, priority |-> p, version |-> jobs[j].version + 1,
           sequence |-> sequence] \in Entry
      BY <3>1 DEF QueueTypes, Entry
    <3>5. queue' \subseteq Entry /\ sequence' \in Nat
      BY <1>1, <2>1, <3>4 DEF JoinPending, PutEntry, QueueTypes
    <3>6. QED BY <1>1, <3>3, <3>5 DEF JoinPending, QueueTypes
  <2>2. CASE ~(~jobs[j].event /\ p < jobs[j].priority)
    BY <1>1, <2>2 DEF JoinPending, QueueTypes
  <2>3. QED BY <2>1, <2>2
<1>2. CASE NewJob(k, p, j)
  <2>1. NewJobRecord(k, p) \in JobRecord
    BY DEF NewJobRecord, JobRecord
  <2>2. [job |-> j, priority |-> p, version |-> 0, sequence |-> sequence] \in Entry
    BY DEF QueueTypes, Entry
  <2>3. queue' \subseteq Entry /\ sequence' \in Nat
    BY <1>2, <2>2 DEF NewJob, PutEntry, QueueTypes
  <2>4. QED BY <1>2, <2>1, <2>3 DEF NewJob, QueueTypes
<1>3. QED BY <1>1, <1>2 DEF EnqueueSynthesis

LEMMA WorkerTypes ==
  ASSUME TypeOK, WorkerStep
  PROVE  TypeOK'
<1> USE DEF queueVars, fileVars
<1>1. CASE WorkerGet
  BY <1>1 DEF WorkerGet, TypeOK
<1>2. CASE WorkerDrop
  BY <1>2, NoJobAssumption DEF WorkerDrop, TypeOK, IdleWorker, Entry
<1>3. CASE WorkerExamine
  <2>1. worker' \in {IdleWorker} \union
                    [pc: {"got", "open", "write", "finalize"}, entry: Entry]
    BY <1>3 DEF WorkerExamine, TypeOK, IdleWorker
  <2>2. jobs' \in [Jobs -> JobRecord]
    BY <1>3 DEF WorkerExamine, TypeOK, IdleWorker, JobRecord, Entry
  <2>3. QED BY <1>3, <2>1, <2>2 DEF WorkerExamine, TypeOK
<1>4. CASE WorkerOpen
  <2>1. worker.entry \in Entry
    BY <1>4 DEF WorkerOpen, TypeOK, IdleWorker
  <2>2. FileTypes'
    BY <1>4 DEF WorkerOpen, OpenForWriting, FileTypes, TypeOK
  <2>3. QED BY <1>4, <2>1, <2>2 DEF WorkerOpen, TypeOK, FileTypes, IdleWorker
<1>5. CASE WorkerSynthesized
  <2>1. worker.entry \in Entry
    BY <1>5 DEF WorkerSynthesized, TypeOK, IdleWorker
  <2> DEFINE j == worker.entry.job
             k == jobs[j].key
  <2>2. FileTypes'
    <3>1. CASE CloseWritten(k, "worker")
      BY <3>1 DEF CloseWritten, FileTypes, TypeOK
    <3>2. CASE Unlink(k)
      BY <3>2 DEF Unlink, FileTypes, TypeOK
    <3>3. QED BY <1>5, <3>1, <3>2 DEF WorkerSynthesized
  <2>3. jobs' \in [Jobs -> JobRecord]
    <3>1. j \in Jobs
      BY <2>1 DEF Entry
    <3>2. PICK b \in BOOLEAN :
            jobs' = [jobs EXCEPT ![j].success = b, ![j].event = TRUE]
      BY <1>5 DEF WorkerSynthesized
    <3>3. QED BY <3>1, <3>2 DEF TypeOK, JobRecord
  <2>4. worker' \in [pc: {"got", "open", "write", "finalize"}, entry: Entry]
    BY <1>5, <2>1 DEF WorkerSynthesized, TypeOK, IdleWorker
  <2>5. QED BY <1>5, <2>2, <2>3, <2>4 DEF WorkerSynthesized, TypeOK, FileTypes
<1>6. CASE WorkerFinalize
  BY <1>6 DEF WorkerFinalize, TypeOK
<1>7. QED BY <1>1, <1>2, <1>3, <1>4, <1>5, <1>6 DEF WorkerStep

LEMMA RequesterTypes ==
  ASSUME TypeOK, NEW r \in Requesters, RequestCheck(r) \/ RequestEnqueue(r)
  PROVE  TypeOK'
<1> USE DEF queueVars, fileVars
<1>1. CASE RequestCheck(r)
  BY <1>1 DEF RequestCheck, TypeOK
<1>2. CASE RequestEnqueue(r)
  <2>1. /\ requester[r].key \in Keys
        /\ requester[r].priority \in Priorities
    BY <1>2 DEF RequestEnqueue, TypeOK, IdleRequester, Priorities
  <2>2. QueueTypes'
    BY <1>2, <2>1, EnqueueTypes DEF RequestEnqueue, TypeOK, QueueTypes
  <2>3. QED BY <1>2, <2>2 DEF RequestEnqueue, TypeOK, QueueTypes
<1>3. QED BY <1>1, <1>2

SpeakerTypes ==
  speaker \in {IdleSpeaker} \union
              [pc: SpeakerPCs \ {"idle"}, key: Keys, job: Jobs \union {NoJob},
               retry: BOOLEAN]

\* A speaker that is not idle knows its key, and any change of its pc keeps its
\* type.
LEMMA ActiveSpeaker ==
  ASSUME TypeOK, speaker.pc # "idle"
  PROVE  /\ speaker.key \in Keys
         /\ speaker \in [pc: SpeakerPCs \ {"idle"}, key: Keys,
                         job: Jobs \union {NoJob}, retry: BOOLEAN]
  BY DEF TypeOK, IdleSpeaker

LEMMA SpeakerStepTypes ==
  ASSUME TypeOK, SpeakStart \/ SpeakStep
  PROVE  TypeOK'
<1> USE DEF queueVars, fileVars
<1>1. CASE SpeakStart
  <2>1. SpeakerTypes'
    BY <1>1 DEF SpeakStart, SpeakerTypes, SpeakerPCs
  <2>2. QED BY <1>1, <2>1 DEF SpeakStart, TypeOK, SpeakerTypes
<1>2. CASE SpeakStep
  <2>1. speaker.pc # "idle"
    BY <1>2 DEF SpeakStep, SpeakLook, SpeakOwnFile, SpeakOpen, SpeakWritten,
                SpeakEnqueue, SpeakQueue, SpeakWait, SpeakPlay, SpeakPlayed, SpeakUnlink
  <2>2. /\ speaker.key \in Keys
        /\ speaker \in [pc: SpeakerPCs \ {"idle"}, key: Keys,
                        job: Jobs \union {NoJob}, retry: BOOLEAN]
    BY <2>1, ActiveSpeaker
  <2>3. SpeakerTypes'
    <3> USE DEF SpeakerTypes, SpeakerPCs
    <3>1. CASE SpeakLook
      BY <2>2, <3>1 DEF SpeakLook
    <3>2. CASE SpeakOwnFile
      BY <2>2, <3>2 DEF SpeakOwnFile
    <3>3. CASE SpeakOpen \/ SpeakWritten
      BY <2>2, <3>3 DEF SpeakOpen, SpeakWritten
    <3>4. CASE SpeakEnqueue
      BY <2>2, <3>4 DEF SpeakEnqueue
    <3>5. CASE SpeakQueue
      BY <2>2, <3>5 DEF SpeakQueue
    <3>6. CASE SpeakWait
      BY <2>2, <3>6 DEF SpeakWait, AfterWait
    <3>7. CASE SpeakPlay \/ SpeakPlayed
      BY <2>2, <3>7 DEF SpeakPlay, SpeakPlayed, PlayFailed
    <3>8. CASE SpeakUnlink
      BY <2>2, <3>8 DEF SpeakUnlink
    <3>9. QED BY <1>2, <3>1, <3>2, <3>3, <3>4, <3>5, <3>6, <3>7, <3>8 DEF SpeakStep
  <2>4. FileTypes'
    <3> USE DEF FileTypes, TypeOK
    <3>1. CASE SpeakOwnFile
      BY <2>2, <3>1 DEF SpeakOwnFile
    <3>2. CASE SpeakOpen
      BY <2>2, <3>2 DEF SpeakOpen, OpenForWriting
    <3>3. CASE SpeakWritten
      BY <2>2, <3>3 DEF SpeakWritten, CloseWritten, Unlink
    <3>4. CASE SpeakUnlink
      BY <2>2, <3>4 DEF SpeakUnlink, Unlink
    <3>5. CASE SpeakLook \/ SpeakEnqueue \/ SpeakQueue \/ SpeakWait \/ SpeakPlay \/ SpeakPlayed
      BY <3>5 DEF SpeakLook, SpeakEnqueue, SpeakQueue, SpeakWait, SpeakPlay, SpeakPlayed
    <3>6. QED BY <1>2, <3>1, <3>2, <3>3, <3>4, <3>5 DEF SpeakStep
  <2>5. QueueTypes'
    <3>1. CASE SpeakQueue
      <4>1. QueueTypes /\ CURRENT \in Priorities
        BY DEF TypeOK, QueueTypes, Priorities
      <4>2. QED BY <2>2, <3>1, <4>1, EnqueueTypes DEF SpeakQueue
    <3>2. CASE ~SpeakQueue
      BY <1>2, <3>2 DEF SpeakStep, SpeakLook, SpeakOwnFile, SpeakOpen, SpeakWritten,
                SpeakEnqueue, SpeakWait, SpeakPlay, SpeakPlayed, SpeakUnlink,
                TypeOK, QueueTypes
    <3>3. QED BY <3>1, <3>2
  <2>6. UNCHANGED <<stop, worker, requester, dropped>>
    BY <1>2 DEF SpeakStep, SpeakLook, SpeakOwnFile, SpeakOpen, SpeakWritten, SpeakEnqueue,
                SpeakQueue, SpeakWait, SpeakPlay, SpeakPlayed, SpeakUnlink
  <2>7. QED BY <2>3, <2>4, <2>5, <2>6 DEF TypeOK, SpeakerTypes, FileTypes, QueueTypes
<1>3. QED BY <1>1, <1>2

LEMMA InitTypes == Init => TypeOK
<1> SUFFICES ASSUME Init PROVE TypeOK
  OBVIOUS
<1>1. NewJobRecord(NoKey, WARMUP) \in JobRecord
  BY DEF NewJobRecord, JobRecord, Priorities
<1>2. QED BY <1>1 DEF Init, TypeOK

LEMMA NextTypes == TypeOK /\ [Next]_vars => TypeOK'
<1> SUFFICES ASSUME TypeOK, [Next]_vars PROVE TypeOK'
  OBVIOUS
<1>1. CASE StopPlayback
  BY <1>1 DEF StopPlayback, TypeOK, queueVars, fileVars
<1>2. CASE UNCHANGED vars
  BY <1>2 DEF vars, TypeOK
<1>3. QED BY <1>1, <1>2, WorkerTypes, RequesterTypes, SpeakerStepTypes DEF Next

\* TypeOK holds in every reachable state, for any number of texts, jobs and
\* threads that queue.
THEOREM TypeCorrect == Spec => []TypeOK
  BY InitTypes, NextTypes, PTL DEF Spec

-----------------------------------------------------------------------------
(* The queue.                                                              *)

LEMMA JoinPreserves ==
  ASSUME TypeOK, QueueInv, NEW k \in Keys, NEW p \in Priorities, NEW j \in Jobs,
         JoinPending(k, p, j), UNCHANGED <<worker, dropped>>
  PROVE  QueueInv'
<1>1. CASE ~(~jobs[j].event /\ p < jobs[j].priority)
  <2>1. UNCHANGED queueView
    BY <1>1 DEF JoinPending, queueView
  <2>2. QED BY <2>1
            DEF queueView, QueueInv, CreatedHaveKeys, PendingPointsBack, EntriesAreCreated,
                FinalizesFinished, UnfinishedIsPending, OnlyStopLosesAJob, Unfinished,
                HasLiveEntry, InWorker, Stale
<1>2. CASE ~jobs[j].event /\ p < jobs[j].priority
  <2> DEFINE v == jobs[j].version + 1
             e == [job |-> j, priority |-> p, version |-> v, sequence |-> sequence]
  <2>1. /\ jobs' = [jobs EXCEPT ![j].priority = p, ![j].version = v]
        /\ queue' = queue \union {e}
        /\ UNCHANGED <<created, pending, worker, dropped>>
        /\ j = pending[k]
    BY <1>2 DEF JoinPending, PutEntry
  <2>2. j \in created /\ NoJob \notin Jobs
    BY <2>1, NoJobAssumption DEF QueueInv, PendingPointsBack
  <2>3. /\ \A i \in Jobs : jobs'[i].key = jobs[i].key /\ jobs'[i].event = jobs[i].event
        /\ \A i \in Jobs \ {j} : jobs'[i] = jobs[i]
        /\ jobs'[j].priority = p /\ jobs'[j].version = v
    BY <2>1 DEF TypeOK, JobRecord
  <2> HIDE DEF v
  <2>4. CreatedHaveKeys' /\ PendingPointsBack'
    BY <2>1, <2>3 DEF QueueInv, CreatedHaveKeys, PendingPointsBack, TypeOK
  <2>5. EntriesAreCreated' /\ FinalizesFinished'
    BY <2>1, <2>2, <2>3
       DEF QueueInv, EntriesAreCreated, FinalizesFinished, TypeOK
  <2>6. UnfinishedIsPending'
    BY <2>1, <2>3 DEF QueueInv, UnfinishedIsPending, Unfinished
  <2>7. OnlyStopLosesAJob'
    <3> SUFFICES ASSUME NEW i \in Jobs, Unfinished(i)', ~(i \in dropped)'
                 PROVE  HasLiveEntry(i)' \/ InWorker(i)'
      BY DEF OnlyStopLosesAJob
    <3>1. CASE i = j
      <4>1. e \in queue' /\ e.job = j /\ e.priority = p /\ e.version = v
        BY <2>1
      <4>2. \E x \in queue' : x.job = j /\ x.priority = jobs'[j].priority
                                       /\ x.version = jobs'[j].version
        BY <2>3, <4>1
      <4>3. QED BY <3>1, <4>2 DEF HasLiveEntry, Stale
    <3>2. CASE i # j
      <4>1. HasLiveEntry(i) \/ InWorker(i)
        BY <2>1, <2>3 DEF QueueInv, OnlyStopLosesAJob, Unfinished
      <4>2. HasLiveEntry(i) => HasLiveEntry(i)'
        BY <2>1, <2>3, <3>2 DEF HasLiveEntry, Stale
      <4>3. InWorker(i) => InWorker(i)'
        BY <2>1, <2>3, <3>2 DEF InWorker, Stale
      <4>4. QED BY <4>1, <4>2, <4>3
    <3>3. QED BY <3>1, <3>2
  <2>8. QED BY <2>4, <2>5, <2>6, <2>7 DEF QueueInv
<1>3. QED BY <1>1, <1>2

LEMMA NewJobPreserves ==
  ASSUME TypeOK, QueueInv, NEW k \in Keys, NEW p \in Priorities, NEW j \in Jobs,
         NewJob(k, p, j), UNCHANGED <<worker, dropped>>
  PROVE  QueueInv'
<1> DEFINE e == [job |-> j, priority |-> p, version |-> 0, sequence |-> sequence]
<1>1. /\ jobs' = [jobs EXCEPT ![j] = NewJobRecord(k, p)]
      /\ created' = created \union {j}
      /\ pending' = [pending EXCEPT ![k] = j]
      /\ queue' = queue \union {e}
      /\ UNCHANGED <<worker, dropped>>
      /\ j \notin created
      /\ ~Joinable(k)
  BY DEF NewJob, PutEntry
<1>2. /\ jobs'[j] = NewJobRecord(k, p)
      /\ \A i \in created : i # j /\ i \in Jobs /\ jobs'[i] = jobs[i]
  BY <1>1 DEF TypeOK
<1>3. /\ jobs'[j].key = k /\ jobs'[j].priority = p /\ jobs'[j].version = 0
      /\ jobs'[j].event = FALSE
  BY <1>2 DEF NewJobRecord
<1>4. CreatedHaveKeys'
  BY <1>1, <1>2, <1>3 DEF QueueInv, CreatedHaveKeys
<1>5. PendingPointsBack'
  BY <1>1, <1>2, <1>3 DEF QueueInv, PendingPointsBack, TypeOK
<1>6. EntriesAreCreated'
  BY <1>1 DEF QueueInv, EntriesAreCreated
<1>7. FinalizesFinished'
  BY <1>1, <1>2 DEF QueueInv, FinalizesFinished, EntriesAreCreated
<1>8. UnfinishedIsPending'
  <2> SUFFICES ASSUME NEW i \in Jobs, Unfinished(i)'
               PROVE  pending'[jobs'[i].key] = i
    BY DEF UnfinishedIsPending
  <2>1. CASE i = j
    BY <1>1, <1>3, <2>1 DEF TypeOK
  <2>2. CASE i # j
    <3>1. Unfinished(i) /\ jobs'[i] = jobs[i]
      BY <1>1, <1>2, <2>2 DEF Unfinished
    <3>2. pending[jobs[i].key] = i
      BY <3>1 DEF QueueInv, UnfinishedIsPending
    <3>3. jobs[i].key # k
      BY <1>1, <3>1, <3>2, NoJobAssumption DEF Joinable, Unfinished
    <3>4. QED BY <1>1, <3>1, <3>2, <3>3 DEF TypeOK, QueueInv, CreatedHaveKeys, Unfinished
  <2>3. QED BY <2>1, <2>2
<1>9. OnlyStopLosesAJob'
  <2> SUFFICES ASSUME NEW i \in Jobs, Unfinished(i)', ~(i \in dropped)'
               PROVE  HasLiveEntry(i)' \/ InWorker(i)'
    BY DEF OnlyStopLosesAJob
  <2>1. CASE i = j
    <3>1. e \in queue' /\ e.job = j /\ e.priority = p /\ e.version = 0
      BY <1>1
    <3>2. \E x \in queue' : x.job = j /\ x.priority = jobs'[j].priority
                                     /\ x.version = jobs'[j].version
      BY <1>3, <3>1
    <3>3. QED BY <2>1, <3>2 DEF HasLiveEntry, Stale
  <2>2. CASE i # j
    <3>1. Unfinished(i) /\ jobs'[i] = jobs[i]
      BY <1>1, <1>2, <2>2 DEF Unfinished
    <3>2. HasLiveEntry(i) \/ InWorker(i)
      BY <1>1, <3>1 DEF QueueInv, OnlyStopLosesAJob
    <3>3. HasLiveEntry(i) => HasLiveEntry(i)'
      BY <1>1, <3>1 DEF HasLiveEntry, Stale
    <3>4. InWorker(i) => InWorker(i)'
      BY <1>1, <3>1 DEF InWorker, Stale
    <3>5. QED BY <3>2, <3>3, <3>4
  <2>3. QED BY <2>1, <2>2
<1>10. QED BY <1>4, <1>5, <1>6, <1>7, <1>8, <1>9 DEF QueueInv

LEMMA EnqueuePreserves ==
  ASSUME TypeOK, QueueInv, NEW k \in Keys, NEW p \in Priorities, NEW j \in Jobs,
         EnqueueSynthesis(k, p, j), UNCHANGED <<worker, dropped>>
  PROVE  QueueInv'
  BY JoinPreserves, NewJobPreserves DEF EnqueueSynthesis

\* A worker step other than Get and Synthesized leaves the queue alone.
LEMMA GetPreserves == ASSUME TypeOK, QueueInv, WorkerGet PROVE QueueInv'
<1>1. PICK e \in queue : queue' = queue \ {e} /\ worker' = [pc |-> "got", entry |-> e]
  BY DEF WorkerGet
<1>2. worker.pc = "idle" /\ UNCHANGED <<jobs, created, pending, dropped>>
  BY DEF WorkerGet
<1>3. CreatedHaveKeys' /\ PendingPointsBack' /\ UnfinishedIsPending'
  BY <1>2 DEF QueueInv, CreatedHaveKeys, PendingPointsBack, UnfinishedIsPending, Unfinished
<1>4. EntriesAreCreated' /\ FinalizesFinished'
  BY <1>1, <1>2 DEF QueueInv, EntriesAreCreated, FinalizesFinished
<1>5. OnlyStopLosesAJob'
  <2> SUFFICES ASSUME NEW i \in Jobs, Unfinished(i)', ~(i \in dropped)'
               PROVE  HasLiveEntry(i)' \/ InWorker(i)'
    BY DEF OnlyStopLosesAJob
  <2>1. PICK f \in queue : f.job = i /\ ~Stale(f)
    BY <1>2 DEF QueueInv, OnlyStopLosesAJob, Unfinished, HasLiveEntry, InWorker
  <2>2. CASE f = e
    BY <1>1, <1>2, <2>1, <2>2 DEF InWorker, Stale
  <2>3. CASE f # e
    BY <1>1, <1>2, <2>1, <2>3 DEF HasLiveEntry, Stale
  <2>4. QED BY <2>2, <2>3
<1>6. QED BY <1>3, <1>4, <1>5 DEF QueueInv

LEMMA DropPreserves == ASSUME TypeOK, QueueInv, WorkerDrop PROVE QueueInv'
<1> DEFINE e == worker.entry
<1>1. /\ worker.pc = "got"
      /\ worker' = IdleWorker
      /\ dropped' = IF Stale(e) THEN dropped ELSE dropped \union {e.job}
      /\ UNCHANGED <<jobs, created, pending, queue>>
  BY DEF WorkerDrop, queueVars
<1>2. CreatedHaveKeys' /\ PendingPointsBack' /\ UnfinishedIsPending'
  BY <1>1 DEF QueueInv, CreatedHaveKeys, PendingPointsBack, UnfinishedIsPending, Unfinished
<1>3. EntriesAreCreated' /\ FinalizesFinished'
  BY <1>1 DEF QueueInv, EntriesAreCreated, FinalizesFinished, IdleWorker
<1>4. OnlyStopLosesAJob'
  <2> SUFFICES ASSUME NEW i \in Jobs, Unfinished(i)', ~(i \in dropped)'
               PROVE  HasLiveEntry(i)' \/ InWorker(i)'
    BY DEF OnlyStopLosesAJob
  <2>1. HasLiveEntry(i) \/ InWorker(i)
    BY <1>1 DEF QueueInv, OnlyStopLosesAJob, Unfinished
  <2>2. ~InWorker(i)
    BY <1>1 DEF InWorker
  <2>3. QED BY <1>1, <2>1, <2>2 DEF HasLiveEntry, Stale
<1>5. QED BY <1>2, <1>3, <1>4 DEF QueueInv

\* Setting the event of the job in hand, or moving on with it, or letting go of
\* a stale entry.
LEMMA ExaminePreserves ==
  ASSUME TypeOK, QueueInv, WorkerExamine \/ WorkerOpen \/ WorkerSynthesized
  PROVE  QueueInv'
<1> DEFINE j == worker.entry.job
<1> USE DEF queueVars, fileVars
<1>1. /\ UNCHANGED <<created, pending, queue, dropped>>
      /\ worker.pc # "idle"
      /\ j \in created /\ j \in Jobs
  BY DEF WorkerExamine, WorkerOpen, WorkerSynthesized, QueueInv, EntriesAreCreated, TypeOK
<1>2. /\ \A i \in Jobs : /\ jobs'[i].key = jobs[i].key
                         /\ jobs'[i].priority = jobs[i].priority
                         /\ jobs'[i].version = jobs[i].version
                         /\ jobs[i].event => jobs'[i].event
      /\ \A i \in Jobs \ {j} : jobs'[i] = jobs[i]
  <2>1. \/ jobs' = jobs
        \/ \E b \in BOOLEAN : jobs' = [jobs EXCEPT ![j].success = b, ![j].event = TRUE]
    BY DEF WorkerExamine, WorkerOpen, WorkerSynthesized
  <2>2. CASE jobs' = jobs
    BY <2>2
  <2>3. CASE \E b \in BOOLEAN : jobs' = [jobs EXCEPT ![j].success = b, ![j].event = TRUE]
    <3>1. PICK b \in BOOLEAN : jobs' = [jobs EXCEPT ![j].success = b, ![j].event = TRUE]
      BY <2>3
    <3>2. /\ jobs'[j] = [jobs[j] EXCEPT !.success = b, !.event = TRUE]
          /\ \A i \in Jobs \ {j} : jobs'[i] = jobs[i]
      BY <1>1, <3>1 DEF TypeOK
    <3>3. jobs[j] \in JobRecord
      BY <1>1 DEF TypeOK
    <3>4. /\ jobs'[j].key = jobs[j].key
          /\ jobs'[j].priority = jobs[j].priority
          /\ jobs'[j].version = jobs[j].version
          /\ jobs'[j].event
      BY <3>2, <3>3 DEF JobRecord
    <3>5. QED BY <3>2, <3>4
  <2>4. QED BY <2>1, <2>2, <2>3
<1>3. \/ /\ worker.pc = "got" /\ Stale(worker.entry)
         /\ worker' = IdleWorker /\ jobs' = jobs
      \/ worker' = [worker EXCEPT !.pc = "finalize"] /\ jobs'[j].event
      \/ \E pc \in {"open", "write"} : worker' = [worker EXCEPT !.pc = pc] /\ jobs' = jobs
  <2>1. CASE WorkerSynthesized
    <3>1. PICK b \in BOOLEAN : jobs' = [jobs EXCEPT ![j].success = b, ![j].event = TRUE]
      BY <2>1 DEF WorkerSynthesized
    <3>2. jobs[j] \in JobRecord /\ jobs'[j] = [jobs[j] EXCEPT !.success = b, !.event = TRUE]
      BY <1>1, <3>1 DEF TypeOK
    <3>3. jobs'[j].event
      BY <3>2 DEF JobRecord
    <3>4. QED BY <2>1, <3>3 DEF WorkerSynthesized
  <2>2. CASE WorkerExamine
    <3>1. jobs[j] \in JobRecord
      BY <1>1 DEF TypeOK
    <3>2. ASSUME jobs' = [jobs EXCEPT ![j].success = TRUE, ![j].event = TRUE]
          PROVE  jobs'[j].event
      <4>1. jobs'[j] = [jobs[j] EXCEPT !.success = TRUE, !.event = TRUE]
        BY <1>1, <3>2 DEF TypeOK
      <4>2. QED BY <3>1, <4>1 DEF JobRecord
    <3>3. QED BY <1>1, <2>2, <3>2 DEF WorkerExamine
  <2>3. CASE WorkerOpen
    BY <2>3 DEF WorkerOpen
  <2>4. QED BY <2>1, <2>2, <2>3
<1>4. CreatedHaveKeys' /\ PendingPointsBack' /\ UnfinishedIsPending'
  BY <1>1, <1>2
     DEF QueueInv, CreatedHaveKeys, PendingPointsBack, UnfinishedIsPending, Unfinished, TypeOK
<1>5. worker' = IdleWorker \/ (worker'.entry = worker.entry /\ worker'.pc \in {"open", "write", "finalize"})
  BY <1>1, <1>3 DEF TypeOK, IdleWorker
<1>6. EntriesAreCreated'
  BY <1>1, <1>5 DEF QueueInv, EntriesAreCreated, IdleWorker
<1>7. FinalizesFinished'
  BY <1>1, <1>3, <1>5 DEF FinalizesFinished, IdleWorker, TypeOK
<1>8. OnlyStopLosesAJob'
  <2> SUFFICES ASSUME NEW i \in Jobs, Unfinished(i)', ~(i \in dropped)'
               PROVE  HasLiveEntry(i)' \/ InWorker(i)'
    BY DEF OnlyStopLosesAJob
  <2>1. HasLiveEntry(i) \/ InWorker(i)
    BY <1>1, <1>2 DEF QueueInv, OnlyStopLosesAJob, Unfinished
  <2>2. HasLiveEntry(i) => HasLiveEntry(i)'
    BY <1>1, <1>2 DEF HasLiveEntry, Stale
  <2>3. ASSUME InWorker(i) PROVE InWorker(i)'
    <3>1. i = j /\ ~(worker.pc = "got" /\ Stale(worker.entry))
      BY <2>3 DEF InWorker
    <3>2. worker'.entry = worker.entry /\ worker'.pc \in {"open", "write", "finalize"}
      BY <1>1, <1>3, <3>1 DEF TypeOK, IdleWorker
    <3>3. QED BY <3>1, <3>2 DEF InWorker
  <2>4. QED BY <2>1, <2>2, <2>3
<1>9. QED BY <1>4, <1>6, <1>7, <1>8 DEF QueueInv

LEMMA FinalizePreserves == ASSUME TypeOK, QueueInv, WorkerFinalize PROVE QueueInv'
<1> DEFINE j == worker.entry.job
           k == jobs[j].key
<1>1. /\ worker.pc = "finalize" /\ worker' = IdleWorker
      /\ pending' = IF pending[k] = j THEN [pending EXCEPT ![k] = NoJob] ELSE pending
      /\ UNCHANGED <<jobs, created, queue, dropped>>
  BY DEF WorkerFinalize
<1>2. jobs[j].event /\ j \in created /\ k \in Keys
  BY <1>1 DEF QueueInv, FinalizesFinished, EntriesAreCreated, CreatedHaveKeys
<1>3. CreatedHaveKeys' /\ PendingPointsBack'
  BY <1>1, <1>2 DEF QueueInv, CreatedHaveKeys, PendingPointsBack, TypeOK
<1>4. EntriesAreCreated' /\ FinalizesFinished'
  BY <1>1 DEF QueueInv, EntriesAreCreated, FinalizesFinished, IdleWorker
<1>5. UnfinishedIsPending'
  BY <1>1, <1>2 DEF QueueInv, UnfinishedIsPending, Unfinished, CreatedHaveKeys, TypeOK
<1>6. OnlyStopLosesAJob'
  BY <1>1, <1>2 DEF QueueInv, OnlyStopLosesAJob, Unfinished, HasLiveEntry, InWorker, Stale
<1>7. QED BY <1>3, <1>4, <1>5, <1>6 DEF QueueInv

LEMMA InitQueue == Init => QueueInv
  BY DEF Init, QueueInv, CreatedHaveKeys, PendingPointsBack, EntriesAreCreated, IdleWorker,
         FinalizesFinished, UnfinishedIsPending, OnlyStopLosesAJob, Unfinished

LEMMA NextQueue == TypeOK /\ QueueInv /\ [Next]_vars => QueueInv'
<1> SUFFICES ASSUME TypeOK, QueueInv, [Next]_vars PROVE QueueInv'
  OBVIOUS
<1>1. ASSUME UNCHANGED queueView PROVE QueueInv'
  BY <1>1 DEF queueView, QueueInv, CreatedHaveKeys, PendingPointsBack, EntriesAreCreated,
              FinalizesFinished, UnfinishedIsPending, OnlyStopLosesAJob, Unfinished,
              HasLiveEntry, InWorker, Stale
<1>2. CASE WorkerStep
  BY <1>2, GetPreserves, DropPreserves, ExaminePreserves, FinalizePreserves DEF WorkerStep
<1>3. ASSUME NEW r \in Requesters, RequestCheck(r) PROVE QueueInv'
  BY <1>1, <1>3 DEF RequestCheck, queueView, queueVars
<1>4. ASSUME NEW r \in Requesters, RequestEnqueue(r) PROVE QueueInv'
  <2>1. /\ requester[r].key \in Keys
        /\ requester[r].priority \in Priorities
        /\ UNCHANGED <<worker, dropped>>
    BY <1>4 DEF RequestEnqueue, TypeOK, IdleRequester, Priorities
  <2>2. QED BY <1>4, <2>1, EnqueuePreserves DEF RequestEnqueue
<1>5. CASE SpeakQueue
  <2>1. speaker.key \in Keys /\ CURRENT \in Priorities /\ UNCHANGED <<worker, dropped>>
    BY <1>5, ActiveSpeaker DEF SpeakQueue, Priorities
  <2>2. QED BY <1>5, <2>1, EnqueuePreserves DEF SpeakQueue
<1>6. CASE \/ StopPlayback \/ SpeakStart \/ SpeakLook \/ SpeakOwnFile \/ SpeakOpen
           \/ SpeakWritten \/ SpeakEnqueue \/ SpeakWait \/ SpeakPlay \/ SpeakPlayed
           \/ SpeakUnlink \/ UNCHANGED vars
  <2>1. UNCHANGED queueView
    BY <1>6 DEF StopPlayback, SpeakStart, SpeakLook, SpeakOwnFile, SpeakOpen, SpeakWritten,
                SpeakEnqueue, SpeakWait, SpeakPlay, SpeakPlayed, SpeakUnlink,
                vars, queueView, queueVars
  <2>2. QED BY <1>1, <2>1
<1>7. QED BY <1>2, <1>3, <1>4, <1>5, <1>6 DEF Next, SpeakStep

\* The inductive invariant of the queue.
THEOREM QueueInvariant == Spec => []QueueInv
<1>1. TypeOK /\ QueueInv /\ [Next]_vars => (TypeOK /\ QueueInv)'
  BY NextTypes, NextQueue
<1>2. QED BY <1>1, InitTypes, InitQueue, PTL DEF Spec

\* "deduplicate identical requests": _pending_jobs always leads to the unfinished
\* job of a text, however enqueueing, finishing and cleaning up interleave.
THEOREM RequestsAreDeduplicated == Spec => []UnfinishedIsPending
<1>1. QueueInv => UnfinishedIsPending
  BY DEF QueueInv
<1>2. QED BY <1>1, QueueInvariant, PTL

\* Promotion by re-queueing loses no job: an unfinished job without a current
\* entry is one that _synthesis_worker_loop threw away while a stop was requested.
THEOREM OnlyAStopLosesJobs == Spec => []OnlyStopLosesAJob
<1>1. QueueInv => OnlyStopLosesAJob
  BY DEF QueueInv
<1>2. QED BY <1>1, QueueInvariant, PTL

\* No text has two unfinished jobs: two requests for one text never queue two
\* syntheses.
THEOREM OneUnfinishedJobPerText ==
  Spec => [](\A i, j \in Jobs : Unfinished(i) /\ Unfinished(j) /\ jobs[i].key = jobs[j].key
                                => i = j)
<1>1. UnfinishedIsPending =>
        \A i, j \in Jobs : Unfinished(i) /\ Unfinished(j) /\ jobs[i].key = jobs[j].key
                           => i = j
  BY DEF UnfinishedIsPending
<1>2. QED BY <1>1, RequestsAreDeduplicated, PTL
=============================================================================
