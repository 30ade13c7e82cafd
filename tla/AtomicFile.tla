------------------------------- MODULE AtomicFile -------------------------------
(***************************************************************************)
(* What a JsonStore promises those who share it: a file that holds one     *)
(* payload at a time and is read, written and changed as if at once, each  *)
(* call taking effect at one moment or, when it fails, not at all.  What a *)
(* reader cannot read counts as the default; this is the only way in which *)
(* a payload is replaced by something not derived from it or asked for.    *)
(* An end of the process leaves the file as it is, a power cut may bring   *)
(* back what it held recently.                                             *)
(***************************************************************************)
CONSTANTS Callers, Payloads, Default, Updates, NoFile, Damaged

VARIABLES
  value,   \* what the file holds: a payload, nothing (NoFile), or Damaged
  recent,  \* what it may hold after a power cut
  asked,   \* per caller, its call under way
  answer   \* per caller, the answer of that call: "none" until it took effect

fileVars == <<value, recent, asked, answer>>

\* A reader gets the payload of the file, or the default.
Readable(p) == p \in Payloads /\ p \in {value, Default}

Waiting(t, op) == asked[t] = op /\ answer[t] = "none"

Answer(t, a) == answer' = [answer EXCEPT ![t] = a] /\ UNCHANGED asked

Replace(p) == value' = p /\ recent' = recent \union {p}

Init ==
  /\ value \in Payloads \union {NoFile, Damaged}
  /\ recent = {value}
  /\ asked = [t \in Callers |-> "none"]
  /\ answer = [t \in Callers |-> "none"]

\* What t asks for now; "none" when it has got its answer.
Ask(t, op) ==
  /\ asked' = [asked EXCEPT ![t] = op]
  /\ answer' = [answer EXCEPT ![t] = "none"]
  /\ UNCHANGED <<value, recent>>

Get(t) ==
  /\ asked[t] \in {"read", "ensure_exists", "ensure_valid"}
  /\ answer[t] = "none"
  /\ asked[t] = "ensure_exists" => value # NoFile
  /\ asked[t] = "ensure_valid" => value \in Payloads
  /\ \E p \in Payloads : Readable(p) /\ Answer(t, p)
  /\ UNCHANGED <<value, recent>>

Put(t) ==
  /\ Waiting(t, "write")
  /\ \E p \in Payloads : Replace(p) /\ Answer(t, p)

\* Nobody comes between the payload an update starts from and the one it leaves.
Change(t) ==
  /\ Waiting(t, "update")
  /\ \E p \in Payloads, u \in Updates :
       Readable(p) /\ Replace(u[p]) /\ Answer(t, u[p])

Create(t) ==
  /\ Waiting(t, "ensure_exists")
  /\ value = NoFile
  /\ Replace(Default) /\ Answer(t, Default)

\* What could not be read is replaced by the default, in a second call.
Doubt(t) ==
  /\ Waiting(t, "ensure_valid")
  /\ Ask(t, "repair")

Repair(t) ==
  /\ Waiting(t, "repair")
  /\ Replace(Default) /\ Answer(t, Default)

Delete(t) ==
  /\ Waiting(t, "delete")
  /\ value # NoFile
  /\ Replace(NoFile) /\ Answer(t, "done")

\* The call raises, or delete finds nothing: without effect.
Fail(t) ==
  /\ asked[t] # "none" /\ answer[t] = "none"
  /\ Answer(t, "failed")
  /\ UNCHANGED <<value, recent>>

\* The process ends; or the power fails; or what was written reaches the disk.
Exit ==
  /\ asked' = [t \in Callers |-> "none"]
  /\ answer' = [t \in Callers |-> "none"]
  /\ UNCHANGED <<value, recent>>

PowerCut ==
  /\ value' \in recent
  /\ recent' = {value'}
  /\ asked' = [t \in Callers |-> "none"]
  /\ answer' = [t \in Callers |-> "none"]

Settle ==
  /\ recent' = {value}
  /\ UNCHANGED <<value, asked, answer>>

Next ==
  \/ \E t \in Callers :
       \/ \E op \in {"read", "write", "update", "ensure_exists", "ensure_valid", "delete"} :
            asked[t] = "none" /\ Ask(t, op)
       \/ answer[t] # "none" /\ Ask(t, "none")
       \/ Get(t) \/ Put(t) \/ Change(t) \/ Create(t) \/ Doubt(t) \/ Repair(t) \/ Delete(t)
       \/ Fail(t)
  \/ Exit
  \/ PowerCut
  \/ Settle

Spec == Init /\ [][Next]_fileVars
=================================================================================
