------------------------------- MODULE JsonStore -------------------------------
(***************************************************************************)
(* modules/shared/persistence/json_store.py: a JSON file and the threads   *)
(* that share its store, with ensure_valid of base_json_repository.py.  A  *)
(* call holds _lock for its whole body.  Reading is one step, since under  *)
(* the lock nobody replaces the file; a write is the steps of the code:    *)
(* open and empty the temporary file, dump, fsync, rename.  Any of them    *)
(* may raise, the process may end between any two, the power may fail.     *)
(***************************************************************************)
CONSTANTS
  Callers,   \* the threads
  Payloads,  \* what may be stored
  Default,   \* make_default()
  Updates,   \* what update() may be asked for
  NoFile,    \* a path without a file
  Damaged    \* content that is no payload: not JSON, half of it, another type

ASSUME PayloadAssumption ==
  /\ Default \in Payloads
  /\ Updates \subseteq [Payloads -> Payloads]
  /\ {NoFile, Damaged, "none", "failed", "done"} \intersect Payloads = {}
  /\ NoFile # Damaged

CONSTANT Nobody
ASSUME NobodyAssumption == Nobody \notin Callers

VARIABLES
  file,    \* what the path names
  temp,    \* what the path of the temporary file names
  synced,  \* fsync has returned for the temporary file
  recent,  \* what the path may name after a power cut
  lock,    \* the holder of _lock
  call     \* per caller: the operation, where in it, the payload to write, the answer

storeVars == <<file, temp, synced, recent, lock, call>>

Operations == {"read", "write", "update", "ensure_exists", "ensure_valid", "delete"}
Contents == Payloads \union {NoFile, Damaged}
NoCall == [op |-> "none", pc |-> "idle", payload |-> Default, answer |-> "none"]

StoreTypeOK ==
  /\ file \in Contents
  /\ temp \in Contents
  /\ synced \in BOOLEAN
  /\ recent \subseteq Contents
  /\ lock \in Callers \union {Nobody}
  /\ call \in [Callers ->
       [op : Operations \union {"none", "repair"},
        pc : {"idle", "wait", "read", "open", "dump", "fsync", "rename", "finally",
              "unlink", "return"},
        payload : Payloads,
        answer : Payloads \union {"none", "failed", "done"}]]

StoreInit ==
  /\ file \in Contents
  /\ temp \in {NoFile, Damaged}
  /\ synced = FALSE
  /\ recent = {file}
  /\ lock = Nobody
  /\ call = [t \in Callers |-> NoCall]

-----------------------------------------------------------------------------
At(t, pc) == call[t].pc = pc
Goto(t, pc) == call' = [call EXCEPT ![t].pc = pc]
Answer(t, a) == call' = [call EXCEPT ![t].pc = "return", ![t].answer = a]
Replace(content) == file' = content /\ recent' = recent \union {content}

\* reset() is a write of the default.
Call(t, op) ==
  /\ call[t].pc = "idle"
  /\ call' = [call EXCEPT ![t] = [NoCall EXCEPT !.op = op, !.pc = "wait"]]
  /\ UNCHANGED <<file, temp, synced, recent, lock>>

\* A plausible bug: a call does not wait for the lock.
EnterUnlocked(t) ==
  /\ At(t, "wait")
  /\ lock' = t
  /\ \/ /\ call[t].op \in {"read", "update", "ensure_exists", "ensure_valid"}
        /\ Goto(t, "read")
     \/ /\ call[t].op = "write"
        /\ \E p \in Payloads :
             call' = [call EXCEPT ![t].pc = "open", ![t].payload = p]
     \/ /\ call[t].op = "repair"
        /\ Goto(t, "open")
     \/ /\ call[t].op = "delete"
        /\ Goto(t, "unlink")
  /\ UNCHANGED <<file, temp, synced, recent>>

\* write() copies the caller's data when it has the lock: who shares the data may
\* have changed it while the call was waiting.
Enter(t) ==
  /\ At(t, "wait")
  /\ lock = Nobody
  /\ lock' = t
  /\ \/ /\ call[t].op \in {"read", "update", "ensure_exists", "ensure_valid"}
        /\ Goto(t, "read")
     \/ /\ call[t].op = "write"
        /\ \E p \in Payloads :
             call' = [call EXCEPT ![t].pc = "open", ![t].payload = p]
     \/ /\ call[t].op = "repair"
        /\ Goto(t, "open")
     \/ /\ call[t].op = "delete"
        /\ Goto(t, "unlink")
  /\ UNCHANGED <<file, temp, synced, recent>>

-----------------------------------------------------------------------------
(* read_result and what its callers make of it.                             *)

\* The payload of the file; the default when there is none, when the file cannot be
\* read or parsed, or holds another type than the default.
Readable(p) == p \in Payloads /\ p \in {file, Default}

ReadFile(t) ==
  /\ At(t, "read")
  /\ \/ /\ call[t].op = "read"
        /\ \E p \in Payloads : Readable(p) /\ Answer(t, p)
        /\ UNCHANGED lock
     \/ /\ call[t].op = "update"
        /\ \E p \in Payloads, u \in Updates :
             /\ Readable(p)
             /\ call' = [call EXCEPT ![t].pc = "open", ![t].payload = u[p]]
        /\ UNCHANGED lock
     \/ /\ call[t].op = "ensure_exists" /\ file = NoFile
        /\ call' = [call EXCEPT ![t].pc = "open", ![t].payload = Default]
        /\ UNCHANGED lock
     \/ /\ call[t].op = "ensure_exists" /\ file # NoFile
        /\ \E p \in Payloads : Readable(p) /\ Answer(t, p)
        /\ UNCHANGED lock
     \/ /\ call[t].op = "ensure_valid" /\ file \in Payloads
        /\ Answer(t, file)
        /\ UNCHANGED lock
     \* ensure_valid: read_result has returned, write is another call
     \/ /\ call[t].op = "ensure_valid"
        /\ call' = [call EXCEPT ![t].op = "repair", ![t].pc = "wait", ![t].payload = Default]
        /\ lock' = Nobody
  /\ UNCHANGED <<file, temp, synced, recent>>

-----------------------------------------------------------------------------
(* write                                                                    *)

\* open("w") empties what an earlier process left there.
Open(t) ==
  /\ At(t, "open")
  /\ temp' = Damaged
  /\ synced' = FALSE
  /\ Goto(t, "dump")
  /\ UNCHANGED <<file, recent, lock>>

Dump(t) ==
  /\ At(t, "dump")
  /\ temp' = call[t].payload
  /\ Goto(t, "fsync")
  /\ UNCHANGED <<file, synced, recent, lock>>

\* A plausible bug: flush() without fsync().
FlushOnly(t) ==
  /\ At(t, "fsync")
  /\ Goto(t, "rename")
  /\ UNCHANGED <<file, temp, synced, recent, lock>>

Fsync(t) ==
  /\ At(t, "fsync")
  /\ synced' = TRUE
  /\ Goto(t, "rename")
  /\ UNCHANGED <<file, temp, recent, lock>>

\* What a power cut leaves of data that was not synced may be anything.
Rename(t) ==
  /\ At(t, "rename")
  /\ temp # NoFile
  /\ file' = temp
  /\ recent' = recent \union {IF synced THEN temp ELSE Damaged}
  /\ temp' = NoFile
  /\ Answer(t, call[t].payload)
  /\ UNCHANGED <<synced, lock>>

\* Any step of the write raises; the temporary file is unlinked if that is possible.
WriteFails(t) ==
  /\ call[t].pc \in {"open", "dump", "fsync", "rename"}
  /\ Goto(t, "finally")
  /\ UNCHANGED <<file, temp, synced, recent, lock>>

\* A plausible bug: an exception passes the release of the lock.
CleanUpKeepsLock(t) ==
  /\ At(t, "finally")
  /\ temp' \in {temp, NoFile}
  /\ call' = [call EXCEPT ![t] = NoCall]
  /\ UNCHANGED <<file, synced, recent, lock>>

CleanUp(t) ==
  /\ At(t, "finally")
  /\ temp' \in {temp, NoFile}
  /\ Answer(t, "failed")
  /\ UNCHANGED <<file, synced, recent, lock>>

\* delete_file returns False when there is none or unlink raises.
Unlink(t) ==
  /\ At(t, "unlink")
  /\ \/ file # NoFile /\ Replace(NoFile) /\ Answer(t, "done")
     \/ Answer(t, "failed") /\ UNCHANGED <<file, recent>>
  /\ UNCHANGED <<temp, synced, lock>>

Return(t) ==
  /\ At(t, "return")
  /\ lock' = Nobody
  /\ call' = [call EXCEPT ![t] = NoCall]
  /\ UNCHANGED <<file, temp, synced, recent>>

-----------------------------------------------------------------------------
(* The process and the disk.                                                *)

\* The process ends, whatever its threads were doing, and is started again.
StoreExit ==
  /\ lock' = Nobody
  /\ call' = [t \in Callers |-> NoCall]
  /\ UNCHANGED <<file, temp, synced, recent>>

\* Renames that have not reached the disk may be undone, and the temporary file
\* may be in any state.
PowerCut ==
  /\ file' \in recent
  /\ recent' = {file'}
  /\ temp' \in {temp, Damaged, NoFile}
  /\ synced' = FALSE
  /\ lock' = Nobody
  /\ call' = [t \in Callers |-> NoCall]

Settle ==
  /\ recent # {file}
  /\ recent' = {file}
  /\ UNCHANGED <<file, temp, synced, lock, call>>

StoreStep(t) ==
  \/ Enter(t)
  \/ ReadFile(t)
  \/ Open(t)
  \/ Dump(t)
  \/ Fsync(t)
  \/ Rename(t)
  \/ WriteFails(t)
  \/ CleanUp(t)
  \/ Unlink(t)
  \/ Return(t)

StoreNext ==
  \/ \E t \in Callers :
       \/ \E op \in Operations : Call(t, op)
       \/ StoreStep(t)
  \/ StoreExit
  \/ PowerCut
  \/ Settle

StoreSpec == StoreInit /\ [][StoreNext]_storeVars

\* A thread that holds the lock gets on with its call.
FairStoreSpec ==
  StoreSpec /\ \A t \in Callers : WF_storeVars(StoreStep(t) /\ ~Enter(t))

-----------------------------------------------------------------------------
\* json_store.py:42, "atomic writes": whatever fails, ends or crosses, neither a call
\* nor a power cut leaves half a payload, unless the file was damaged when the
\* program found it.
NeverDamaged == [][(Damaged \notin recent) => (Damaged \notin recent' \union {file'})]_storeVars

\* json_store.py:46, "thread-safe in-process access": every call takes effect at one
\* moment, update() included, or not at all; only what could not be read is replaced
\* by the default.
File == INSTANCE AtomicFile WITH
  value  <- file,
  asked  <- [t \in Callers |-> call[t].op],
  answer <- [t \in Callers |-> call[t].answer]
ImplementsAtomicFile == File!Spec

\* No failure leaves the lock with a thread: _lock is always given back.
LockGivenBack == \A t \in Callers : lock = t ~> lock # t
=================================================================================
