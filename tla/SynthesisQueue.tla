---------------------------- MODULE SynthesisQueue ----------------------------
(***************************************************************************)
(* modules/devices/audio/output/tts_pipeline: how a text becomes a cached  *)
(* WAV.  cache_queue_mixin.py keeps one _SynthesisJob per key in           *)
(* _pending_jobs and a PriorityQueue of (priority, sequence, version, job) *)
(* for one worker thread; synthesis_mixin.py is the thread inside speak(), *)
(* which reuses a pending job, writes the file itself, or queues a job and *)
(* waits for it.  The warm-up and prefetch threads only queue.             *)
(*                                                                         *)
(* A step of a thread is a region under _prefetch_lock, or a file or event *)
(* operation between two such regions.  Writing a WAV takes two steps: the *)
(* file exists, partial, from open to close.  The daemon's per-language    *)
(* lock orders two writers, the subprocess runner does not; both ways of   *)
(* writing are allowed here.                                               *)
(***************************************************************************)
EXTENDS Naturals

CONSTANTS
  Keys,        \* (language, digest of the text)
  Jobs,        \* pool of _SynthesisJob objects; bounds how many are created
  Requesters,  \* threads that only queue: prefetch (NEXT), warm-up (WARMUP)
  NoKey, NoJob

ASSUME NoKeyAssumption == NoKey \notin Keys
ASSUME NoJobAssumption == NoJob \notin Jobs

CURRENT == 0
NEXTUP  == 10
WARMUP  == 20
Priorities == {CURRENT, NEXTUP, WARMUP}

VARIABLES
  stop,       \* _stop_requested
  jobs,       \* the job objects: key, priority, version, event, success
  created,    \* the jobs constructed so far
  pending,    \* _pending_jobs: key -> job
  queue,      \* _job_queue, a set of entries
  sequence,   \* _job_sequence
  worker,     \* the worker thread: pc and the entry it took
  file,       \* per key, the cached WAV: "none", "partial" or "whole"
  writers,    \* per key, who has the current file open for writing
  requester,  \* per requester: pc, key and priority
  speaker,    \* the thread in speak(): pc, key, job it waits for, retry
  dropped     \* history: jobs whose live entry the worker threw away

fileVars == <<file, writers>>
queueVars == <<jobs, created, pending, queue, sequence>>
vars == <<stop, jobs, created, pending, queue, sequence, worker, file, writers,
          requester, speaker, dropped>>

JobRecord == [key: Keys \union {NoKey}, priority: Priorities, version: Nat,
              event: BOOLEAN, success: BOOLEAN]
Entry == [job: Jobs, priority: Priorities, version: Nat, sequence: Nat]
SpeakerPCs == {"idle", "look", "promote", "bypass", "runtime", "enqueue", "queue",
               "wait", "open", "write", "play", "playing", "unlink"}

NewJobRecord(k, p) == [key |-> k, priority |-> p, version |-> 0, event |-> FALSE,
                       success |-> FALSE]
IdleWorker == [pc |-> "idle", entry |-> [job |-> NoJob, priority |-> WARMUP,
                                         version |-> 0, sequence |-> 0]]
IdleRequester == [pc |-> "idle", key |-> NoKey, priority |-> WARMUP]
IdleSpeaker == [pc |-> "idle", key |-> NoKey, job |-> NoJob, retry |-> FALSE]

TypeOK ==
  /\ stop \in BOOLEAN
  /\ jobs \in [Jobs -> JobRecord]
  /\ created \subseteq Jobs
  /\ pending \in [Keys -> Jobs \union {NoJob}]
  /\ queue \subseteq Entry
  /\ sequence \in Nat
  /\ worker \in {IdleWorker} \union
                [pc: {"got", "open", "write", "finalize"}, entry: Entry]
  /\ file \in [Keys -> {"none", "partial", "whole"}]
  /\ writers \in [Keys -> SUBSET {"worker", "speaker"}]
  /\ requester \in [Requesters -> {IdleRequester} \union
                      [pc: {"enqueue"}, key: Keys, priority: {NEXTUP, WARMUP}]]
  /\ speaker \in {IdleSpeaker} \union
                 [pc: SpeakerPCs \ {"idle"}, key: Keys, job: Jobs \union {NoJob},
                  retry: BOOLEAN]
  /\ dropped \subseteq Jobs

Init ==
  /\ stop = FALSE
  /\ jobs = [j \in Jobs |-> NewJobRecord(NoKey, WARMUP)]
  /\ worker = IdleWorker
  /\ requester = [r \in Requesters |-> IdleRequester]
  /\ speaker = IdleSpeaker
  /\ created = {}
  /\ pending = [k \in Keys |-> NoJob]
  /\ queue = {}
  /\ sequence = 0
  /\ file = [k \in Keys |-> "none"]
  /\ writers = [k \in Keys |-> {}]
  /\ dropped = {}

-----------------------------------------------------------------------------
(* Files.  open(path, "wb") truncates; unlink and rename leave a writer    *)
(* with a file that nobody else sees.                                      *)

OpenForWriting(k, who) ==
  /\ file' = [file EXCEPT ![k] = "partial"]
  /\ writers' = [writers EXCEPT ![k] = @ \union {who}]

\* The last writer of the visible file completes it.
CloseWritten(k, who) ==
  /\ file' = [file EXCEPT ![k] = IF writers[k] = {who} THEN "whole" ELSE @]
  /\ writers' = [writers EXCEPT ![k] = @ \ {who}]

Unlink(k) ==
  /\ file' = [file EXCEPT ![k] = "none"]
  /\ writers' = [writers EXCEPT ![k] = {}]

-----------------------------------------------------------------------------
(* _enqueue_synthesis under _prefetch_lock.                                *)

\* The job a second request for key k joins; a finished job is joined only when
\* its file is still there.
Joinable(k) ==
  LET j == pending[k]
  IN  j # NoJob /\ (~jobs[j].event \/ (jobs[j].success /\ file[k] # "none"))

PutEntry(j, priority, version) ==
  /\ queue' = queue \union {[job |-> j, priority |-> priority,
                             version |-> version, sequence |-> sequence]}
  /\ sequence' = sequence + 1

\* A plausible bug: a promotion marks the job but forgets to queue it again.
JoinPendingNoPut(k, priority, j) ==
  /\ Joinable(k)
  /\ j = pending[k]
  /\ IF ~jobs[j].event /\ priority < jobs[j].priority
       THEN /\ jobs' = [jobs EXCEPT ![j].priority = priority,
                                    ![j].version = @ + 1]
            /\ UNCHANGED <<queue, sequence>>
       ELSE UNCHANGED <<jobs, queue, sequence>>
  /\ UNCHANGED <<created, pending>>

\* A more urgent request re-queues the same job under a new version.
JoinPending(k, priority, j) ==
  /\ Joinable(k)
  /\ j = pending[k]
  /\ IF ~jobs[j].event /\ priority < jobs[j].priority
       THEN /\ jobs' = [jobs EXCEPT ![j].priority = priority,
                                    ![j].version = @ + 1]
            /\ PutEntry(j, priority, jobs[j].version + 1)
       ELSE UNCHANGED <<jobs, queue, sequence>>
  /\ UNCHANGED <<created, pending>>

NewJob(k, priority, j) ==
  /\ ~Joinable(k)
  /\ j \in Jobs \ created
  /\ created' = created \union {j}
  /\ jobs' = [jobs EXCEPT ![j] = NewJobRecord(k, priority)]
  /\ pending' = [pending EXCEPT ![k] = j]
  /\ PutEntry(j, priority, 0)

EnqueueSynthesis(k, priority, j) ==
  JoinPending(k, priority, j) \/ NewJob(k, priority, j)

-----------------------------------------------------------------------------
(* _start_prefetch and _warm_common_cache: look at the file, and a prefetch *)
(* at the pending job, then queue.                                         *)

\* _get_pending_job under the lock.
PendingJob(k) ==
  IF pending[k] # NoJob /\ jobs[pending[k]].event /\ file[k] = "none"
    THEN NoJob
    ELSE pending[k]

IsPending(k) == PendingJob(k) # NoJob /\ ~jobs[PendingJob(k)].event

RequestCheck(r) ==
  /\ requester[r].pc = "idle"
  /\ \E k \in Keys, p \in {NEXTUP, WARMUP} :
       /\ file[k] = "none"
       /\ p = NEXTUP => ~IsPending(k)
       /\ requester' = [requester EXCEPT ![r] = [pc |-> "enqueue", key |-> k,
                                                 priority |-> p]]
  /\ UNCHANGED <<stop, queueVars, worker, fileVars, speaker, dropped>>

RequestEnqueue(r) ==
  /\ requester[r].pc = "enqueue"
  /\ \E j \in Jobs : EnqueueSynthesis(requester[r].key, requester[r].priority, j)
  /\ requester' = [requester EXCEPT ![r] = IdleRequester]
  /\ UNCHANGED <<stop, worker, fileVars, speaker, dropped>>

-----------------------------------------------------------------------------
(* _synthesis_worker_loop.                                                 *)

Precedes(e, f) ==
  \/ e.priority < f.priority
  \/ e.priority = f.priority /\ e.sequence < f.sequence

WorkerGet ==
  /\ worker.pc = "idle"
  /\ \E e \in queue :
       /\ \A f \in queue \ {e} : Precedes(e, f)
       /\ queue' = queue \ {e}
       /\ worker' = [pc |-> "got", entry |-> e]
  /\ UNCHANGED <<stop, jobs, created, pending, sequence, fileVars, requester,
                 speaker, dropped>>

Stale(e) == e.priority # jobs[e.job].priority \/ e.version # jobs[e.job].version

\* "if self._stop_requested.is_set(): continue": the entry is gone.
WorkerDrop ==
  /\ worker.pc = "got"
  /\ stop
  /\ worker' = IdleWorker
  /\ dropped' = IF Stale(worker.entry) THEN dropped
                ELSE dropped \union {worker.entry.job}
  /\ UNCHANGED <<stop, queueVars, fileVars, requester, speaker>>

WorkerExamine ==
  LET j == worker.entry.job IN
  /\ worker.pc = "got"
  /\ ~stop
  /\ \/ /\ jobs[j].event
        /\ worker' = [worker EXCEPT !.pc = "finalize"]
        /\ UNCHANGED jobs
     \/ /\ ~jobs[j].event
        /\ Stale(worker.entry)
        /\ worker' = IdleWorker
        /\ UNCHANGED jobs
     \/ /\ ~jobs[j].event
        /\ ~Stale(worker.entry)
        /\ file[jobs[j].key] # "none"
        /\ jobs' = [jobs EXCEPT ![j].success = TRUE, ![j].event = TRUE]
        /\ worker' = [worker EXCEPT !.pc = "finalize"]
     \/ /\ ~jobs[j].event
        /\ ~Stale(worker.entry)
        /\ file[jobs[j].key] = "none"
        /\ worker' = [worker EXCEPT !.pc = "open"]
        /\ UNCHANGED jobs
  /\ UNCHANGED <<stop, created, pending, queue, sequence, fileVars, requester,
                 speaker, dropped>>

WorkerOpen ==
  /\ worker.pc = "open"
  /\ OpenForWriting(jobs[worker.entry.job].key, "worker")
  /\ worker' = [worker EXCEPT !.pc = "write"]
  /\ UNCHANGED <<stop, queueVars, requester, speaker, dropped>>

\* Synthesis ends: the file is there, or it failed (or was stopped) and the
\* worker unlinks what it finds.
WorkerSynthesized ==
  LET j == worker.entry.job
      k == jobs[j].key
  IN
  /\ worker.pc = "write"
  /\ worker' = [worker EXCEPT !.pc = "finalize"]
  /\ \/ /\ file[k] # "none"
        /\ CloseWritten(k, "worker")
        /\ jobs' = [jobs EXCEPT ![j].success = TRUE, ![j].event = TRUE]
     \/ /\ Unlink(k)
        /\ jobs' = [jobs EXCEPT ![j].success = FALSE, ![j].event = TRUE]
  /\ UNCHANGED <<stop, created, pending, queue, sequence, requester, speaker,
                 dropped>>

\* A plausible bug: the key is popped whichever job it maps to by now.
FinalizeAnyJob ==
  /\ worker.pc = "finalize"
  /\ pending' = [pending EXCEPT ![jobs[worker.entry.job].key] = NoJob]
  /\ worker' = IdleWorker
  /\ UNCHANGED <<stop, jobs, created, queue, sequence, fileVars, requester,
                 speaker, dropped>>

\* _finalize_job_cleanup: pops the key only while it still maps to this job.
WorkerFinalize ==
  LET j == worker.entry.job
      k == jobs[j].key
  IN
  /\ worker.pc = "finalize"
  /\ pending' = IF pending[k] = j THEN [pending EXCEPT ![k] = NoJob] ELSE pending
  /\ worker' = IdleWorker
  /\ UNCHANGED <<stop, jobs, created, queue, sequence, fileVars, requester,
                 speaker, dropped>>

WorkerStep ==
  \/ WorkerGet
  \/ WorkerDrop
  \/ WorkerExamine
  \/ WorkerOpen
  \/ WorkerSynthesized
  \/ WorkerFinalize

-----------------------------------------------------------------------------
(* speak() -> _speak_with_piper -> _ensure_current_wav_ready.  _speak_lock *)
(* admits one thread at a time.                                            *)

\* clear_stop_request(), then the look at the cache.
SpeakStart ==
  /\ speaker.pc = "idle"
  /\ \E k \in Keys :
       speaker' = [pc |-> IF file[k] # "none" THEN "play" ELSE "look",
                   key |-> k, job |-> NoJob, retry |-> FALSE]
  /\ stop' = FALSE
  /\ UNCHANGED <<queueVars, worker, fileVars, requester, dropped>>

\* _ensure_current_wav_ready decides: an action_fast reply does not wait behind a
\* less urgent job; a pending job is promoted; a short text without one is written
\* here, into the cache path or (action_fast) a runtime file; the rest is queued.
SpeakLook ==
  LET j == PendingJob(speaker.key) IN
  /\ \/ /\ speaker.pc = "look"
        /\ j # NoJob /\ ~jobs[j].event /\ jobs[j].priority > CURRENT /\ ~stop
        /\ speaker' = [speaker EXCEPT !.pc = "bypass"]
     \/ /\ speaker.pc \in {"look", "promote"}
        /\ j = NoJob /\ ~stop
        /\ speaker' \in {[speaker EXCEPT !.pc = "open"], [speaker EXCEPT !.pc = "runtime"]}
     \/ /\ speaker.pc \in {"look", "promote"}
        /\ speaker' = [speaker EXCEPT !.pc = "enqueue"]
  /\ UNCHANGED <<stop, queueVars, worker, fileVars, requester, dropped>>

\* A file of the speaker's own.  Played or not, _cleanup_runtime_wav_path renames
\* a copy into the cache unless a cached file is there; a play that failed then
\* unlinks the cached file and retries.  A failed bypass falls through.
SpeakOwnFile ==
  LET k == speaker.key IN
  /\ speaker.pc \in {"bypass", "runtime"}
  /\ \/ /\ speaker' \in {IdleSpeaker, [speaker EXCEPT !.pc = "unlink"]}
        /\ \/ UNCHANGED fileVars
           \/ /\ file[k] = "none"
              /\ file' = [file EXCEPT ![k] = "whole"]
              /\ writers' = [writers EXCEPT ![k] = {}]
     \/ /\ speaker.pc = "bypass"
        /\ speaker' = [speaker EXCEPT !.pc = "promote"]
        /\ UNCHANGED fileVars
  /\ UNCHANGED <<stop, queueVars, worker, requester, dropped>>

\* The direct path: _synthesize_piper_to_wav into the cache path itself.
SpeakOpen ==
  /\ speaker.pc = "open"
  /\ OpenForWriting(speaker.key, "speaker")
  /\ speaker' = [speaker EXCEPT !.pc = "write"]
  /\ UNCHANGED <<stop, queueVars, worker, requester, dropped>>

\* It fails without a clean-up of its own: a half-written file may stay.
SpeakWritten ==
  LET k == speaker.key IN
  /\ speaker.pc = "write"
  /\ \/ /\ file[k] # "none"
        /\ CloseWritten(k, "speaker")
        /\ speaker' = [speaker EXCEPT !.pc = "play"]
     \/ /\ \/ Unlink(k)
           \/ /\ writers' = [writers EXCEPT ![k] = @ \ {"speaker"}]
              /\ UNCHANGED file
        /\ speaker' = IdleSpeaker
  /\ UNCHANGED <<stop, queueVars, worker, requester, dropped>>

\* _promote_pending_job or _enqueue_synthesis with _PRIORITY_CURRENT; a file that
\* is cached by now stands for a finished job nobody else knows (NoJob).
SpeakEnqueue ==
  /\ speaker.pc = "enqueue"
  /\ speaker' = [speaker EXCEPT !.pc = IF file[speaker.key] # "none" THEN "wait"
                                      ELSE "queue"]
  /\ UNCHANGED <<stop, queueVars, worker, fileVars, requester, dropped>>

SpeakQueue ==
  /\ speaker.pc = "queue"
  /\ \E j \in Jobs :
       /\ EnqueueSynthesis(speaker.key, CURRENT, j)
       /\ speaker' = [speaker EXCEPT !.pc = "wait", !.job = j]
  /\ UNCHANGED <<stop, worker, fileVars, requester, dropped>>

JobEvent(j) == IF j = NoJob THEN TRUE ELSE jobs[j].event
JobReady(j) == (IF j = NoJob THEN TRUE ELSE jobs[j].success) /\ file[speaker.key] # "none"

\* The first play that fails unlinks the cached file and retries by the queue.
PlayFailed == IF speaker.retry THEN IdleSpeaker ELSE [speaker EXCEPT !.pc = "unlink"]

AfterWait ==
  IF JobReady(speaker.job) THEN [speaker EXCEPT !.pc = "play"] ELSE IdleSpeaker

\* A plausible bug: the wait has no deadline and does not look at the stop flag.
WaitForEventOnly ==
  /\ speaker.pc = "wait"
  /\ JobEvent(speaker.job)
  /\ speaker' = AfterWait
  /\ UNCHANGED <<stop, queueVars, worker, fileVars, requester, dropped>>

\* _wait_for_job: a stop gives up before the event does; the event or the
\* deadline, which may pass at any time, looks at the job's success and the file.
SpeakWait ==
  /\ speaker.pc = "wait"
  /\ \/ /\ stop /\ ~JobEvent(speaker.job)
        /\ speaker' = IdleSpeaker
     \/ speaker' = AfterWait
  /\ UNCHANGED <<stop, queueVars, worker, fileVars, requester, dropped>>

\* _play_wav opens the file if there is one; the player reads it until the end.
SpeakPlay ==
  /\ speaker.pc = "play"
  /\ speaker' = IF file[speaker.key] # "none" THEN [speaker EXCEPT !.pc = "playing"]
                ELSE PlayFailed
  /\ UNCHANGED <<stop, queueVars, worker, fileVars, requester, dropped>>

SpeakPlayed ==
  /\ speaker.pc = "playing"
  /\ speaker' \in {IdleSpeaker, PlayFailed}
  /\ UNCHANGED <<stop, queueVars, worker, fileVars, requester, dropped>>

SpeakUnlink ==
  /\ speaker.pc = "unlink"
  /\ Unlink(speaker.key)
  /\ speaker' = [speaker EXCEPT !.pc = "enqueue", !.retry = TRUE,
                                 !.job = NoJob]
  /\ UNCHANGED <<stop, queueVars, worker, requester, dropped>>

SpeakStep ==
  \/ SpeakLook
  \/ SpeakOwnFile
  \/ SpeakOpen
  \/ SpeakWritten
  \/ SpeakEnqueue
  \/ SpeakQueue
  \/ SpeakWait
  \/ SpeakPlay
  \/ SpeakPlayed
  \/ SpeakUnlink

\* stop_playback() from a barge-in or the main loop.
StopPlayback ==
  /\ stop' = TRUE
  /\ UNCHANGED <<queueVars, worker, fileVars, requester, speaker, dropped>>

Next ==
  \/ StopPlayback
  \/ \E r \in Requesters : RequestCheck(r) \/ RequestEnqueue(r)
  \/ WorkerStep
  \/ SpeakStart
  \/ SpeakStep

Spec == Init /\ [][Next]_vars

\* The worker and a thread inside speak() keep running; nobody has to speak,
\* prefetch or stop.
FairSpec == Spec /\ WF_vars(WorkerStep) /\ WF_vars(SpeakStep)

-----------------------------------------------------------------------------
Unfinished(j) == j \in created /\ ~jobs[j].event
HasLiveEntry(j) == \E e \in queue : e.job = j /\ ~Stale(e)
InWorker(j) ==
  /\ worker.pc # "idle"
  /\ worker.entry.job = j
  /\ worker.pc = "got" => ~Stale(worker.entry)

\* "deduplicate identical requests": an unfinished job is the one its key maps to
\* in _pending_jobs, so a second request for the text always finds it and no text
\* has two unfinished jobs, although jobs are popped outside the region that
\* finished them.
UnfinishedIsPending ==
  \A j \in Jobs : Unfinished(j) => pending[jobs[j].key] = j

\* Promotion never loses a job: every unfinished job has an entry under its
\* current version in the queue or in the worker's hands, except a job whose
\* entry the worker threw away while a stop was requested.
OnlyStopLosesAJob ==
  \A j \in Jobs :
    Unfinished(j) => HasLiveEntry(j) \/ InWorker(j) \/ j \in dropped

\* Every queued text is eventually synthesised, or fails, or is lost to a stop.
EveryJobFinishes ==
  \A j \in Jobs : Unfinished(j) ~> (j \in created /\ jobs[j].event) \/ j \in dropped

\* speak() always returns, even if it waits for a job that nobody works on.  (The
\* run ends where the pool of jobs does.)
SpeakReturns ==
  speaker.pc # "idle" ~> \/ speaker.pc = "idle"
                         \/ speaker.pc = "queue" /\ created = Jobs

\* The class comment's "clean up stale finished/failed jobs" and "keep current
\* speech responsive": an unfinished job is one the worker will come to.
NoStrandedJob ==
  \A j \in Jobs : Unfinished(j) => HasLiveEntry(j) \/ InWorker(j)

\* piper_daemon.py:116, "Drop a half-written file so downstream playback does not
\* pick it up": while speak() plays a cached file, the file is complete.
OnlyWholeFilesPlayed == speaker.pc = "playing" => file[speaker.key] # "partial"
=============================================================================
