--------------------------- MODULE PersistenceProofs ---------------------------
(* Proofs about the files the program keeps.                                   *)
(*                                                                             *)
(* Reminders, for any number of reminders.  Until the two windows between load *)
(* and save cross, the list a thread holds is the file, so a save changes the  *)
(* one reminder it is about.                                                   *)
(*                                                                             *)
(* JsonStore, for any threads, payloads and updates.  A thread inside a call   *)
(* holds the lock, so the file is as the call found it until its own rename,   *)
(* and before the rename the temporary file holds the payload, on the disk.    *)
EXTENDS Reminders, JsonStore, TLAPS

-----------------------------------------------------------------------------
\* The reminders whose add has ended, one way or the other.
Old == {r \in Ids : r <= created /\ ~(main.pc = "add" /\ main.target = r)}

\* A thread between load and save holds what is in the file.
ListsAreCurrent ==
  /\ main # Idle => main.book = store
  /\ loop.pc = "save" => loop.book = store /\ store[loop.target] = "pending"

\* A reminder the user was not told of is in no file; none spoken is pending; one
\* about to be spoken is not and was not.
Ledger ==
  /\ kept = {r \in Ids : store[r] # "absent"}
  /\ kept \subseteq Old
  /\ delivered \subseteq Old
  /\ \A r \in delivered : store[r] # "pending"
  /\ loop # Idle => loop.target \in Old
  /\ loop.pc = "deliver" => /\ loop.target \notin delivered
                            /\ store[loop.target] # "pending"
  /\ repeated = {}

\* An adding thread is about the reminder made last.
AddsTheLast == main.pc = "add" => main.target = created

IInv == TypeOK /\ AddsTheLast /\ (~exposed => ListsAreCurrent /\ Ledger)

\* The initial state satisfies the invariant.
LEMMA InitIInv == Init => IInv
<1> SUFFICES ASSUME Init PROVE IInv
  OBVIOUS
<1>1. EmptyBook \in Book
  BY DEF EmptyBook, Book
<1>2. TypeOK /\ AddsTheLast
  <2>1. Idle.pc = "idle"
    BY DEF Idle
  <2>2. 0 \in 0 .. MaxReminders
    BY MaxRemindersAssumption
  <2> QED
    BY <1>1, <2>1, <2>2 DEF Init, TypeOK, AddsTheLast
<1>3. ListsAreCurrent
  BY DEF Init, ListsAreCurrent, Idle
<1>4. kept = {r \in Ids : store[r] # "absent"}
  BY DEF Init, EmptyBook
<1>5. Ledger
  BY <1>4 DEF Init, Ledger, Idle
<1> QED
  BY <1>2, <1>3, <1>5 DEF IInv

\* What the types say of the two threads' fields.
LEMMA ThreadFields ==
  ASSUME TypeOK
  PROVE  /\ main.pc \in {"idle", "add", "delete", "clear"}
         /\ main.book \in Book
         /\ main.pc = "idle" <=> main = Idle
         /\ loop.pc \in {"idle", "save", "deliver"}
         /\ loop.book \in Book
         /\ loop.pc = "idle" <=> loop = Idle
         /\ loop.pc # "idle" => loop \in Busy({"save", "deliver"}) /\ loop.target \in Ids
<1>1. EmptyBook \in Book
  BY DEF EmptyBook, Book
<1> QED
  BY <1>1 DEF TypeOK, Busy, Idle

\* Every step preserves the types and AddsTheLast.
LEMMA TypeStep == TypeOK /\ AddsTheLast /\ [Next]_vars => TypeOK' /\ AddsTheLast'
<1> SUFFICES ASSUME TypeOK, AddsTheLast, [Next]_vars PROVE TypeOK' /\ AddsTheLast'
  OBVIOUS
<1> USE MaxRemindersAssumption, ThreadFields DEF TypeOK, AddsTheLast, Book, Ids, commandHistory
<1>e. EmptyBook \in Book
  BY DEF EmptyBook
<1>1. CASE CommandLoad
  <2>1. /\ created \in 0 .. MaxReminders
        /\ UNCHANGED <<running, store, due, loop, kept, delivered, repeated>>
    BY <1>1 DEF CommandLoad
  <2>2. PICK book \in {store, EmptyBook} :
          /\ Read(book)
          /\ \/ /\ created < MaxReminders
                /\ created' = created + 1
                /\ main' = [pc |-> "add", target |-> created + 1, book |-> book]
             \/ /\ \E r \in Ids :
                     /\ book[r] # "absent"
                     /\ main' = [pc |-> "delete", target |-> r, book |-> book]
                /\ UNCHANGED created
             \/ /\ main' = [pc |-> "clear", target |-> 0, book |-> book]
                /\ UNCHANGED created
    BY <1>1 DEF CommandLoad
  <2>3. book \in Book /\ exposed' \in BOOLEAN
    BY <1>e, <2>2 DEF Read
  <2>4. /\ created' \in 0 .. MaxReminders
        /\ main' \in Busy({"add", "delete", "clear"})
        /\ main'.pc \in {"add", "delete"} => main'.target \in Ids
        /\ main'.pc = "add" => main'.target = created'
    <3>1. CASE created < MaxReminders /\ created' = created + 1
               /\ main' = [pc |-> "add", target |-> created + 1, book |-> book]
      BY <2>1, <2>3, <3>1 DEF Busy
    <3>2. ASSUME NEW r \in Ids, UNCHANGED created,
                 main' = [pc |-> "delete", target |-> r, book |-> book]
          PROVE  /\ created' \in 0 .. MaxReminders
                 /\ main' \in Busy({"add", "delete", "clear"})
                 /\ main'.target \in Ids
                 /\ main'.pc # "add"
      BY <2>1, <2>3, <3>2 DEF Busy
    <3>3. CASE UNCHANGED created
               /\ main' = [pc |-> "clear", target |-> 0, book |-> book]
      BY <2>1, <2>3, <3>3 DEF Busy
    <3> QED
      BY <2>2, <3>1, <3>2, <3>3
  <2> QED
    BY <2>1, <2>3, <2>4
<1>2. CASE CommandSave
  BY <1>2, <1>e DEF CommandSave, Write, Idle
<1>3. CASE CommandFails
  BY <1>3 DEF CommandFails, Idle
<1>4. CASE LoopLoad
  <2>1. PICK r \in DueIn(store) : loop' = [pc |-> "save", target |-> r, book |-> store]
    BY <1>4 DEF LoopLoad
  <2>2. r \in Ids /\ loop' \in Busy({"save"})
    BY <2>1 DEF DueIn, Busy
  <2> QED
    BY <1>4, <2>1, <2>2 DEF LoopLoad, Busy
<1>5. CASE LoopSave
  BY <1>5, <1>e DEF LoopSave, Write, Busy
<1>6. CASE LoopSaveFails
  BY <1>6 DEF LoopSaveFails, Idle
<1>7. CASE LoopDeliver
  BY <1>7 DEF LoopDeliver, Idle
<1>8. CASE \E r \in Ids : Expire(r)
  BY <1>8 DEF Expire
<1>9. CASE Exit
  BY <1>9 DEF Exit, Idle
<1>10. CASE Restart
  BY <1>10, <1>e DEF Restart, Read
<1>11. CASE UNCHANGED vars
  BY <1>11 DEF vars
<1> QED
  BY <1>1, <1>2, <1>3, <1>4, <1>5, <1>6, <1>7, <1>8, <1>9, <1>10, <1>11 DEF Next

\* Every step preserves the invariant.
LEMMA Step == IInv /\ [Next]_vars => IInv'
<1> SUFFICES ASSUME IInv, [Next]_vars, ~exposed' PROVE ListsAreCurrent' /\ Ledger'
  BY TypeStep DEF IInv
<1>t. TypeOK /\ AddsTheLast /\ TypeOK' /\ AddsTheLast'
  BY TypeStep DEF IInv
<1> USE <1>t, ThreadFields DEF commandHistory
<1>a. ~exposed
  BY DEF Next, CommandLoad, CommandSave, CommandFails, LoopLoad, LoopSave, LoopSaveFails,
         LoopDeliver, Expire, Exit, Restart, Read, Write, vars, TypeOK
<1>b. ListsAreCurrent /\ Ledger
  BY <1>a DEF IInv
<1>1. CASE CommandLoad
  <2>1. UNCHANGED <<store, loop, kept, delivered, repeated>>
    BY <1>1 DEF CommandLoad
  <2>2. main'.book = store /\ main = Idle
    BY <1>1, <1>a DEF CommandLoad, Read
  <2>3. Old \subseteq Old'
    BY <1>1, <2>2 DEF CommandLoad, Old, Idle, TypeOK, Ids
  <2> QED
    BY <1>b, <2>1, <2>2, <2>3 DEF ListsAreCurrent, Ledger
<1>2. CASE CommandSave
  <2>1. loop.pc # "save" /\ main # Idle /\ main.book = store /\ main' = Idle
    BY <1>2, <1>a, <1>b DEF CommandSave, Write, Idle, ListsAreCurrent
  <2>2. UNCHANGED <<loop, created, delivered, repeated>>
    BY <1>2 DEF CommandSave
  <2>3. Old' = Old \union {r \in Ids : main.pc = "add" /\ r = main.target}
    BY <2>1, <2>2, MaxRemindersAssumption DEF Old, Idle, TypeOK, AddsTheLast, Ids
  <2>4. CASE main.pc = "add"
    <3>1. /\ store' = [store EXCEPT ![main.target] = "pending"]
          /\ kept' = kept \union {main.target}
          /\ main.target \in Ids \ Old
      BY <1>2, <2>1, <2>4 DEF CommandSave, Write, TypeOK, Old
    <3> QED
      BY <1>b, <2>1, <2>2, <2>3, <2>4, <3>1 DEF ListsAreCurrent, Ledger, TypeOK, Book
  <2>5. CASE main.pc = "delete"
    <3>1. /\ store' = [store EXCEPT ![main.target] = "absent"]
          /\ kept' = kept \ {main.target}
          /\ main.target \in Ids
      BY <1>2, <2>1, <2>5 DEF CommandSave, Write, TypeOK
    <3> QED
      BY <1>b, <2>1, <2>2, <2>3, <2>5, <3>1 DEF ListsAreCurrent, Ledger, TypeOK, Book
  <2>6. CASE main.pc = "clear"
    <3>1. store' = EmptyBook /\ kept' = {}
      BY <1>2, <2>6 DEF CommandSave, Write
    <3>2. \A r \in Ids : store'[r] = "absent"
      BY <3>1 DEF EmptyBook
    <3> QED
      BY <1>b, <2>1, <2>2, <2>3, <2>6, <3>1, <3>2 DEF ListsAreCurrent, Ledger, TypeOK
  <2> QED
    BY <1>2, <2>4, <2>5, <2>6 DEF CommandSave
<1>3. CASE CommandFails
  <2>1. Old \subseteq Old'
    BY <1>3 DEF CommandFails, Old, Idle
  <2> QED
    BY <1>3, <1>b, <2>1 DEF CommandFails, ListsAreCurrent, Ledger
<1>4. CASE LoopLoad
  <2>1. PICK r \in DueIn(store) : loop' = [pc |-> "save", target |-> r, book |-> store]
    BY <1>4 DEF LoopLoad
  <2>2. store[r] = "pending" /\ r \in Ids
    BY <2>1 DEF DueIn, TypeOK
  <2>3. r \in Old
    BY <2>2, <1>b DEF Ledger
  <2>4. Old' = Old /\ UNCHANGED <<store, main, kept, delivered, repeated>>
    BY <1>4 DEF LoopLoad, Old
  <2> QED
    BY <1>b, <2>1, <2>2, <2>3, <2>4 DEF ListsAreCurrent, Ledger
<1>5. CASE LoopSave
  <2>1. main = Idle /\ loop.pc = "save" /\ loop.book = store /\ store[loop.target] = "pending"
    BY <1>5, <1>a, <1>b DEF LoopSave, Write, ListsAreCurrent
  <2>2. /\ store' = [store EXCEPT ![loop.target] = "done"]
        /\ loop'.pc = "deliver" /\ loop'.target = loop.target
        /\ UNCHANGED <<main, kept, delivered, repeated>>
        /\ loop.target \in Ids
    BY <1>5, <2>1 DEF LoopSave, Write, Busy
  <2>3. Old' = Old
    BY <1>5 DEF LoopSave, Old
  <2>4. loop.target \in Old /\ loop.target \notin delivered
    BY <1>b, <2>1, <2>2 DEF Ledger, Idle
  <2> QED
    BY <1>b, <2>1, <2>2, <2>3, <2>4 DEF ListsAreCurrent, Ledger, TypeOK, Book
<1>6. CASE LoopSaveFails
  <2>1. Old' = Old /\ loop' = Idle /\ Idle.pc = "idle"
    BY <1>6 DEF LoopSaveFails, Old, Idle
  <2> QED
    BY <1>6, <1>b, <2>1 DEF LoopSaveFails, ListsAreCurrent, Ledger
<1>7. CASE LoopDeliver
  <2>1. Old' = Old /\ loop' = Idle /\ Idle.pc = "idle"
    BY <1>7 DEF LoopDeliver, Old, Idle
  <2>2. /\ loop.target \in Old /\ loop.target \notin delivered
        /\ store[loop.target] # "pending"
    BY <1>7, <1>b DEF LoopDeliver, Ledger, Idle
  <2> QED
    BY <1>7, <1>b, <2>1, <2>2 DEF LoopDeliver, ListsAreCurrent, Ledger
<1>8. CASE \E r \in Ids : Expire(r)
  <2>1. Old' = Old
    BY <1>8 DEF Expire, Old
  <2> QED
    BY <1>8, <1>b, <2>1 DEF Expire, ListsAreCurrent, Ledger
<1>9. CASE Exit
  <2>1. Old \subseteq Old' /\ Idle.pc = "idle"
    BY <1>9 DEF Exit, Old, Idle
  <2> QED
    BY <1>9, <1>b, <2>1 DEF Exit, ListsAreCurrent, Ledger
<1>10. CASE Restart
  <2>1. Old' = Old /\ store' = store
    BY <1>10, <1>a DEF Restart, Read, Old
  <2> QED
    BY <1>10, <1>b, <2>1 DEF Restart, ListsAreCurrent, Ledger
<1>11. CASE UNCHANGED vars
  <2>1. Old' = Old
    BY <1>11 DEF vars, Old
  <2> QED
    BY <1>11, <1>b, <2>1 DEF vars, ListsAreCurrent, Ledger
<1> QED
  BY <1>1, <1>2, <1>3, <1>4, <1>5, <1>6, <1>7, <1>8, <1>9, <1>10, <1>11 DEF Next

-----------------------------------------------------------------------------
\* The invariant holds in every behaviour; the fairness of Spec is not needed.
THEOREM Invariant == Spec => []IInv
BY InitIInv, Step, PTL DEF Spec

\* The state keeps its types, and a thread between two operations keeps no list.
THEOREM TypeCorrect == Spec => []TypeOK
<1>1. IInv => TypeOK
  BY DEF IInv
<1> QED
  BY <1>1, Invariant, PTL

\* For any number of reminders, none is spoken twice unless the load-to-save
\* windows of the two threads crossed or a read failed.
THEOREM RemindersAreSpokenOnce == Spec => []SpokenAtMostOnce
<1>1. IInv => SpokenAtMostOnce
  BY DEF IInv, Ledger, SpokenAtMostOnce
<1> QED
  BY <1>1, Invariant, PTL

\* For any number of reminders, under the same condition, the file holds exactly
\* the reminders the commands left, through failed saves, exits and restarts.
THEOREM FileMatchesCommands == Spec => []StoreMatchesCommands
<1>1. IInv => StoreMatchesCommands
  BY DEF IInv, Ledger, StoreMatchesCommands
<1> QED
  BY <1>1, Invariant, PTL

-----------------------------------------------------------------------------
(* JsonStore.                                                              *)

\* Where a call is when its thread holds the lock.
Inside == {"read", "open", "dump", "fsync", "rename", "finally", "unlink", "return"}
CallType ==
  [op : Operations \union {"none", "repair"},
   pc : Inside \union {"idle", "wait"},
   payload : Payloads,
   answer : Payloads \union {"none", "failed", "done"}]

\* What a write is about to put into the file is what its call is for.  For the
\* calls that looked at the file before, it still is as they found it.
Intended(c, f) ==
  \/ c.op = "write"
  \/ c.op = "update" /\ \E p \in Payloads, u \in Updates : p \in {f, Default} /\ c.payload = u[p]
  \/ c.op = "ensure_exists" /\ f = NoFile /\ c.payload = Default
  \/ c.op = "repair" /\ c.payload = Default

\* A call by where it is; and what the temporary file is to it.
CallInv(c, f, tmp, onDisk) ==
  /\ c.pc = "idle" <=> c.op = "none"
  /\ c.pc = "return" <=> c.answer # "none"
  /\ c.pc = "wait" /\ c.op = "repair" => c.payload = Default
  /\ c.pc = "read" => c.op \in {"read", "update", "ensure_exists", "ensure_valid"}
  /\ c.pc = "unlink" => c.op = "delete"
  /\ c.pc \in {"open", "dump", "fsync", "rename"} => Intended(c, f)
  /\ c.pc \in {"fsync", "rename"} => tmp = c.payload
  /\ c.pc = "rename" => onDisk

StoreInv ==
  /\ StoreTypeOK
  /\ file \in recent
  /\ \A t \in Callers : call[t].pc \in Inside <=> lock = t
  /\ \A t \in Callers : CallInv(call[t], file, temp, synced)

\* The type invariant with the type of a call named.
LEMMA CallTypes ==
  StoreTypeOK <=> /\ {file, temp} \subseteq Contents /\ synced \in BOOLEAN
                  /\ recent \subseteq Contents /\ lock \in Callers \union {Nobody}
                  /\ call \in [Callers -> CallType]
BY DEF StoreTypeOK, CallType, Inside

\* A thread outside any call, whatever the files hold.
LEMMA NoCallInv ==
  NoCall \in CallType /\ NoCall.pc = "idle" /\ \A f, tmp, s : CallInv(NoCall, f, tmp, s)
BY PayloadAssumption DEF NoCall, CallType, CallInv

\* A step of one thread with the lock leaves the calls of the others as they are;
\* none of them is inside, so file and temporary file are nothing to them.
LEMMA OneCaller ==
  ASSUME StoreInv, NEW t \in Callers, lock \in {t, Nobody}, lock' \in {t, Nobody},
         {file', temp'} \subseteq Contents, synced' \in BOOLEAN,
         recent' \subseteq Contents, file' \in recent',
         NEW c \in CallType, call' = [call EXCEPT ![t] = c],
         c.pc \in Inside <=> lock' = t, CallInv(c, file', temp', synced')
  PROVE  StoreInv'
<1>1. call \in [Callers -> CallType] /\ \A s \in Callers : call[s] \in CallType
  BY CallTypes DEF StoreInv
<1>2. call' \in [Callers -> CallType] /\ call'[t] = c
      /\ \A s \in Callers \ {t} : call'[s] = call[s]
  BY <1>1
<1>3. StoreTypeOK'
  BY <1>2 DEF StoreTypeOK, CallType, Inside
<1>4. ASSUME NEW s \in Callers \ {t}
      PROVE  (call'[s].pc \in Inside <=> lock' = s) /\ CallInv(call'[s], file', temp', synced')
  <2>1. call[s].pc \notin Inside /\ lock' # s /\ CallInv(call[s], file, temp, synced) /\ call'[s] = call[s]
    BY <1>2, NobodyAssumption DEF StoreInv
  <2>2. call'[s].pc \notin {"read", "open", "dump", "fsync", "rename", "unlink", "return"}
    BY <2>1 DEF Inside
  <2> QED BY <2>1, <2>2 DEF CallInv
<1> QED BY <1>2, <1>3, <1>4 DEF StoreInv

\* The steps of a call keep the invariant; each is t's, so OneCaller applies.
LEMMA StoreStepInv ==
  ASSUME StoreInv, NEW t \in Callers, StoreStep(t)
  PROVE  StoreInv'
<1> DEFINE c == call[t]
<1>1. /\ {file, temp} \subseteq Contents /\ synced \in BOOLEAN
      /\ recent \subseteq Contents /\ lock \in Callers \union {Nobody}
      /\ call \in [Callers -> CallType] /\ c \in CallType
      /\ file \in recent /\ (c.pc \in Inside <=> lock = t) /\ CallInv(c, file, temp, synced)
  BY CallTypes DEF StoreInv
<1>2. Payloads \subseteq Contents /\ NoFile \in Contents /\ Damaged \in Contents
  BY DEF Contents
<1>3. t # Nobody
  BY NobodyAssumption
<1>4. ASSUME NEW pc, Goto(t, pc) PROVE call' = [call EXCEPT ![t] = [c EXCEPT !.pc = pc]]
  BY <1>4 DEF Goto
<1>5. ASSUME NEW a, Answer(t, a)
      PROVE  call' = [call EXCEPT ![t] = [c EXCEPT !.pc = "return", !.answer = a]]
  BY <1>5 DEF Answer
<1>6. CASE Enter(t)
  <2>1. c.pc = "wait" /\ lock = Nobody /\ lock' = t
        /\ UNCHANGED <<file, temp, synced, recent>>
    BY <1>6 DEF Enter, At
  <2>2. CASE c.op \in {"read", "update", "ensure_exists", "ensure_valid"} /\ Goto(t, "read")
    <3> DEFINE d == [c EXCEPT !.pc = "read"]
    <3>1. d \in CallType /\ d.pc \in Inside /\ CallInv(d, file', temp', synced')
      BY <1>1, <2>1, <2>2 DEF CallType, Inside, CallInv
    <3>2. call' = [call EXCEPT ![t] = d]
      BY <1>4, <2>2
    <3> HIDE DEF d
    <3> QED BY <1>1, <2>1, <3>1, <3>2, OneCaller
  <2>3. ASSUME c.op = "write", NEW p \in Payloads,
               call' = [call EXCEPT ![t].pc = "open", ![t].payload = p]
        PROVE  StoreInv'
    <3> DEFINE d == [c EXCEPT !.pc = "open", !.payload = p]
    <3>1. d \in CallType /\ d.pc \in Inside /\ CallInv(d, file', temp', synced')
      BY <1>1, <2>1, <2>3 DEF CallType, Inside, CallInv, Intended
    <3>2. call' = [call EXCEPT ![t] = d]
      BY <2>3
    <3> HIDE DEF d
    <3> QED BY <1>1, <2>1, <3>1, <3>2, OneCaller
  <2>4. CASE c.op = "repair" /\ Goto(t, "open")
    <3> DEFINE d == [c EXCEPT !.pc = "open"]
    <3>1. d \in CallType /\ d.pc \in Inside /\ CallInv(d, file', temp', synced')
      BY <1>1, <2>1, <2>4 DEF CallType, Inside, CallInv, Intended
    <3>2. call' = [call EXCEPT ![t] = d]
      BY <1>4, <2>4
    <3> HIDE DEF d
    <3> QED BY <1>1, <2>1, <3>1, <3>2, OneCaller
  <2>5. CASE c.op = "delete" /\ Goto(t, "unlink")
    <3> DEFINE d == [c EXCEPT !.pc = "unlink"]
    <3>1. d \in CallType /\ d.pc \in Inside /\ CallInv(d, file', temp', synced')
      BY <1>1, <2>1, <2>5 DEF CallType, Inside, CallInv
    <3>2. call' = [call EXCEPT ![t] = d]
      BY <1>4, <2>5
    <3> HIDE DEF d
    <3> QED BY <1>1, <2>1, <3>1, <3>2, OneCaller
  <2> QED BY <1>6, <2>2, <2>3, <2>4, <2>5 DEF Enter
\* From here on the lock is with t.
<1>7. CASE ReadFile(t)
  <2>1. c.pc = "read" /\ lock = t /\ UNCHANGED <<file, temp, synced, recent>>
    BY <1>1, <1>7 DEF ReadFile, At, Inside
  <2>2. ASSUME NEW p \in Payloads, Answer(t, p), UNCHANGED lock PROVE StoreInv'
    <3> DEFINE d == [c EXCEPT !.pc = "return", !.answer = p]
    <3>1. p # "none"
      BY PayloadAssumption
    <3>2. d \in CallType /\ d.pc \in Inside /\ CallInv(d, file', temp', synced')
      BY <1>1, <2>1, <3>1 DEF CallType, Inside, CallInv
    <3>3. call' = [call EXCEPT ![t] = d]
      BY <1>5, <2>2
    <3> HIDE DEF d
    <3> QED BY <1>1, <2>1, <2>2, <3>2, <3>3, OneCaller
  <2>3. ASSUME c.op = "update", NEW p \in Payloads, NEW u \in Updates, Readable(p),
               call' = [call EXCEPT ![t].pc = "open", ![t].payload = u[p]], UNCHANGED lock
        PROVE  StoreInv'
    <3> DEFINE d == [c EXCEPT !.pc = "open", !.payload = u[p]]
    <3>1. u[p] \in Payloads
      BY PayloadAssumption
    <3>2. p \in {file', Default}
      BY <2>1, <2>3 DEF Readable
    <3>3. d \in CallType /\ d.pc = "open" /\ d.op = "update" /\ d.payload = u[p]
          /\ d.answer = "none"
      BY <1>1, <2>1, <2>3, <3>1 DEF CallType, Inside, CallInv
    <3>4. call' = [call EXCEPT ![t] = d]
      BY <2>3
    <3> HIDE DEF d
    <3>5. Intended(d, file')
      BY <2>3, <3>2, <3>3 DEF Intended
    <3>6. CallInv(d, file', temp', synced') /\ d.pc \in Inside
      BY <3>3, <3>5 DEF CallInv, Inside
    <3> QED BY <1>1, <2>1, <2>3, <3>3, <3>4, <3>6, OneCaller
  <2>4. ASSUME c.op = "ensure_exists", file = NoFile, UNCHANGED lock,
               call' = [call EXCEPT ![t].pc = "open", ![t].payload = Default]
        PROVE  StoreInv'
    <3> DEFINE d == [c EXCEPT !.pc = "open", !.payload = Default]
    <3>1. d \in CallType /\ d.pc \in Inside /\ CallInv(d, file', temp', synced')
      BY <1>1, <2>1, <2>4, PayloadAssumption DEF CallType, Inside, CallInv, Intended
    <3>2. call' = [call EXCEPT ![t] = d]
      BY <2>4
    <3> HIDE DEF d
    <3> QED BY <1>1, <2>1, <2>4, <3>1, <3>2, OneCaller
  <2>5. ASSUME lock' = Nobody, c.op = "ensure_valid",
               call' = [call EXCEPT ![t].op = "repair", ![t].pc = "wait",
                                    ![t].payload = Default]
        PROVE  StoreInv'
    <3> DEFINE d == [c EXCEPT !.op = "repair", !.pc = "wait", !.payload = Default]
    <3>1. d \in CallType /\ d.pc \notin Inside /\ CallInv(d, file', temp', synced')
      BY <1>1, <2>1, <2>5, PayloadAssumption DEF CallType, Inside, CallInv
    <3>2. call' = [call EXCEPT ![t] = d]
      BY <2>5
    <3> HIDE DEF d
    <3> QED BY <1>1, <1>3, <2>1, <2>5, <3>1, <3>2, OneCaller
  <2> QED BY <1>7, <2>2, <2>3, <2>4, <2>5 DEF ReadFile
<1>8. CASE Open(t)
  <2>1. c.pc = "open" /\ lock = t /\ temp' = Damaged /\ UNCHANGED <<file, recent, lock>>
        /\ synced' = FALSE
    BY <1>1, <1>8 DEF Open, At, Inside
  <2> DEFINE d == [c EXCEPT !.pc = "dump"]
  <2>2. d \in CallType /\ d.pc \in Inside /\ CallInv(d, file', temp', synced')
    BY <1>1, <2>1 DEF CallType, Inside, CallInv, Intended, Readable
  <2>3. call' = [call EXCEPT ![t] = d]
    BY <1>4, <1>8 DEF Open
  <2> HIDE DEF d
  <2> QED BY <1>1, <1>2, <2>1, <2>2, <2>3, OneCaller
<1>9. CASE Dump(t)
  <2>1. c.pc = "dump" /\ lock = t /\ temp' = c.payload
        /\ UNCHANGED <<file, synced, recent, lock>>
    BY <1>1, <1>9 DEF Dump, At, Inside
  <2> DEFINE d == [c EXCEPT !.pc = "fsync"]
  <2>2. d \in CallType /\ d.pc \in Inside /\ CallInv(d, file', temp', synced')
    BY <1>1, <2>1 DEF CallType, Inside, CallInv, Intended, Readable
  <2>3. call' = [call EXCEPT ![t] = d]
    BY <1>4, <1>9 DEF Dump
  <2>4. temp' \in Contents
    BY <1>1, <1>2, <2>1 DEF CallType
  <2> HIDE DEF d
  <2> QED BY <1>1, <2>1, <2>2, <2>3, <2>4, OneCaller
<1>10. CASE Fsync(t)
  <2>1. c.pc = "fsync" /\ lock = t /\ synced' = TRUE /\ UNCHANGED <<file, temp, recent, lock>>
    BY <1>1, <1>10 DEF Fsync, At, Inside
  <2> DEFINE d == [c EXCEPT !.pc = "rename"]
  <2>2. d \in CallType /\ d.pc \in Inside /\ CallInv(d, file', temp', synced')
    BY <1>1, <2>1 DEF CallType, Inside, CallInv, Intended, Readable
  <2>3. call' = [call EXCEPT ![t] = d]
    BY <1>4, <1>10 DEF Fsync
  <2> HIDE DEF d
  <2> QED BY <1>1, <2>1, <2>2, <2>3, OneCaller
<1>11. CASE Rename(t)
  <2>1. c.pc = "rename" /\ lock = t /\ file' = temp /\ temp' = NoFile /\ UNCHANGED <<synced, lock>>
        /\ synced /\ recent' = recent \union {temp} /\ temp = c.payload
    BY <1>1, <1>11 DEF Rename, At, Inside, CallInv
  <2> DEFINE d == [c EXCEPT !.pc = "return", !.answer = c.payload]
  <2>2. c.payload # "none" /\ c.payload \in Payloads
    BY <1>1, PayloadAssumption DEF CallType
  <2>3. d \in CallType /\ d.pc \in Inside /\ CallInv(d, file', temp', synced')
    BY <1>1, <2>1, <2>2 DEF CallType, Inside, CallInv
  <2>4. call' = [call EXCEPT ![t] = d]
    BY <1>5, <1>11 DEF Rename
  <2> HIDE DEF d
  <2> QED BY <1>1, <1>2, <2>1, <2>3, <2>4, OneCaller
<1>12. CASE WriteFails(t)
  <2>1. c.pc \in {"open", "dump", "fsync", "rename"} /\ lock = t
        /\ UNCHANGED <<file, temp, synced, recent, lock>>
    BY <1>1, <1>12 DEF WriteFails, Inside
  <2> DEFINE d == [c EXCEPT !.pc = "finally"]
  <2>2. d \in CallType /\ d.pc \in Inside /\ CallInv(d, file', temp', synced')
    BY <1>1, <2>1 DEF CallType, Inside, CallInv
  <2>3. call' = [call EXCEPT ![t] = d]
    BY <1>4, <1>12 DEF WriteFails
  <2> HIDE DEF d
  <2> QED BY <1>1, <2>1, <2>2, <2>3, OneCaller
<1>13. CASE CleanUp(t)
  <2>1. c.pc = "finally" /\ lock = t /\ temp' \in {temp, NoFile}
        /\ UNCHANGED <<file, synced, recent, lock>>
    BY <1>1, <1>13 DEF CleanUp, At, Inside
  <2> DEFINE d == [c EXCEPT !.pc = "return", !.answer = "failed"]
  <2>2. d \in CallType /\ d.pc \in Inside /\ CallInv(d, file', temp', synced')
    BY <1>1, <2>1 DEF CallType, Inside, CallInv
  <2>3. call' = [call EXCEPT ![t] = d]
    BY <1>5, <1>13 DEF CleanUp
  <2> HIDE DEF d
  <2> QED BY <1>1, <1>2, <2>1, <2>2, <2>3, OneCaller
<1>14. CASE Unlink(t)
  <2>1. c.pc = "unlink" /\ lock = t /\ UNCHANGED <<temp, synced, lock>>
    BY <1>1, <1>14 DEF Unlink, At, Inside
  <2>2. PICK a \in {"done", "failed"} : Answer(t, a)
    BY <1>14 DEF Unlink
  <2>3. file' \in recent' /\ recent' \subseteq Contents /\ file' \in Contents
    BY <1>1, <1>2, <1>14 DEF Unlink, Replace
  <2> DEFINE d == [c EXCEPT !.pc = "return", !.answer = a]
  <2>4. d \in CallType /\ d.pc \in Inside /\ CallInv(d, file', temp', synced')
    BY <1>1, <2>1, <2>2 DEF CallType, Inside, CallInv
  <2>5. call' = [call EXCEPT ![t] = d]
    BY <1>5, <2>2
  <2> HIDE DEF d
  <2> QED BY <1>1, <2>1, <2>3, <2>4, <2>5, OneCaller
<1>15. CASE Return(t)
  <2>1. c.pc = "return" /\ lock = t /\ lock' = Nobody /\ UNCHANGED <<file, temp, synced, recent>>
        /\ call' = [call EXCEPT ![t] = NoCall]
    BY <1>1, <1>15 DEF Return, At, Inside
  <2>2. NoCall.pc \notin Inside /\ NoCall \in CallType /\ CallInv(NoCall, file', temp', synced')
    BY NoCallInv DEF Inside, CallInv, NoCall
  <2> QED BY <1>1, <1>3, <2>1, <2>2, OneCaller
<1> QED
  BY <1>6, <1>7, <1>8, <1>9, <1>10, <1>11, <1>12, <1>13, <1>14, <1>15 DEF StoreStep

\* The initial state: no calls, a temporary file of an earlier process at most.
LEMMA StoreInitInv == StoreInit => StoreInv
<1> SUFFICES ASSUME StoreInit PROVE StoreInv
  OBVIOUS
<1>1. call \in [Callers -> CallType] /\ \A t \in Callers : call[t] = NoCall
  BY NoCallInv DEF StoreInit
<1>2. StoreTypeOK
  BY <1>1, CallTypes DEF StoreInit, Contents
<1> QED
  BY <1>1, <1>2, NoCallInv, NobodyAssumption DEF StoreInit, StoreInv, Inside

\* The process ends: nobody is in a call any more.
LEMMA NoCalls ==
  ASSUME StoreInv, lock' = Nobody, call' = [t \in Callers |-> NoCall],
         {file', temp'} \subseteq Contents, synced' \in BOOLEAN,
         recent' \subseteq Contents, file' \in recent'
  PROVE  StoreInv'
<1>1. call' \in [Callers -> CallType] /\ \A t \in Callers : call'[t] = NoCall
  BY NoCallInv
<1>2. StoreTypeOK'
  BY <1>1 DEF StoreTypeOK, CallType, Inside
<1> QED
  BY <1>1, <1>2, NoCallInv, NobodyAssumption DEF StoreInv, Inside

\* Every step of the store keeps the invariant.
LEMMA StoreNextInv == StoreInv /\ [StoreNext]_storeVars => StoreInv'
<1> SUFFICES ASSUME StoreInv, [StoreNext]_storeVars PROVE StoreInv'
  OBVIOUS
<1>1. /\ {file, temp} \subseteq Contents /\ synced \in BOOLEAN /\ recent \subseteq Contents
      /\ call \in [Callers -> CallType] /\ file \in recent
      /\ NoFile \in Contents /\ Damaged \in Contents
  BY CallTypes DEF StoreInv, Contents
<1>2. ASSUME NEW t \in Callers, NEW op \in Operations, Call(t, op) PROVE StoreInv'
  <2> DEFINE d == [NoCall EXCEPT !.op = op, !.pc = "wait"]
  <2>1. /\ call[t].pc = "idle" /\ call' = [call EXCEPT ![t] = d]
        /\ UNCHANGED <<file, temp, synced, recent, lock>>
    BY <1>2 DEF Call
  <2>2. d \in CallType /\ d.pc \notin Inside /\ CallInv(d, file', temp', synced')
    BY NoCallInv DEF CallType, Inside, CallInv, Operations, NoCall
  <2> HIDE DEF d
  <2>3. CASE lock = Nobody
    BY <1>1, <2>1, <2>2, <2>3, NobodyAssumption, OneCaller
  <2>4. CASE lock # Nobody
    <3>1. /\ call' \in [Callers -> CallType] /\ call'[t] = d
          /\ \A s \in Callers \ {t} : call'[s] = call[s]
      BY <1>1, <2>1, <2>2
    <3>2. StoreTypeOK'
      BY <2>1, <3>1 DEF StoreInv, StoreTypeOK, CallType, Inside
    <3>3. lock # t
      BY <2>1 DEF StoreInv, Inside
    <3> QED BY <1>1, <2>1, <2>2, <3>1, <3>2, <3>3 DEF StoreInv
  <2> QED BY <2>3, <2>4
<1>3. ASSUME NEW t \in Callers, StoreStep(t) PROVE StoreInv'
  BY <1>3, StoreStepInv
<1>4. CASE StoreExit
  BY <1>1, <1>4, NoCalls DEF StoreExit
<1>5. CASE PowerCut
  BY <1>1, <1>5, NoCalls DEF PowerCut
<1>6. CASE Settle
  BY <1>1, <1>6 DEF Settle, StoreInv, StoreTypeOK
<1>7. CASE UNCHANGED storeVars
  BY <1>7 DEF storeVars, StoreInv, StoreTypeOK
<1> QED BY <1>2, <1>3, <1>4, <1>5, <1>6, <1>7 DEF StoreNext

\* The invariant of every run, the crashes and power cuts included.
LEMMA StoreAlways == StoreSpec => []StoreInv
BY StoreInitInv, StoreNextInv, PTL DEF StoreSpec

\* The types, for any set of threads and payloads (run JsonStore).
THEOREM StoreTypes == StoreSpec => []StoreTypeOK
<1>1. StoreInv => StoreTypeOK
  BY DEF StoreInv
<1> QED BY <1>1, StoreAlways, PTL

\* "atomic writes" (json_store.py:42), for every payload: neither a step of write(),
\* nor the end of the process between two of them, nor a power cut makes the file
\* anything but a payload, unless it was damaged before.
THEOREM FileStaysWhole == StoreSpec => NeverDamaged
<1>1. ASSUME StoreInv, [StoreNext]_storeVars, Damaged \notin recent
      PROVE  Damaged \notin recent' \union {file'}
  <2>1. file \in recent /\ file' \in recent'
    BY <1>1, StoreNextInv DEF StoreInv
  <2>2. ASSUME NEW t \in Callers, Rename(t) PROVE Damaged \notin recent'
    <3>1. call[t].pc = "rename" /\ CallInv(call[t], file, temp, synced)
      BY <1>1, <2>2 DEF StoreInv, Rename, At
    <3>2. call[t].payload \in Payloads
      BY <1>1, CallTypes DEF StoreInv, CallType
    <3>3. temp \in Payloads /\ synced
      BY <3>1, <3>2 DEF CallInv
    <3> QED BY <1>1, <2>2, <3>3, PayloadAssumption DEF Rename
  <2>3. ASSUME NEW t \in Callers, Unlink(t) PROVE Damaged \notin recent'
    BY <1>1, <2>3, PayloadAssumption DEF Unlink, Replace
  <2>4. ASSUME NEW t \in Callers, StoreStep(t), ~Rename(t), ~Unlink(t)
        PROVE  recent' = recent
    BY <2>4 DEF StoreStep, Enter, ReadFile, Open, Dump, Fsync, WriteFails, CleanUp, Return
  <2>5. StoreExit \/ (\E t \in Callers, op \in Operations : Call(t, op)) \/ UNCHANGED storeVars
          => recent' = recent
    BY DEF StoreExit, Call, storeVars
  <2>6. PowerCut \/ Settle => recent' \subseteq recent
    BY <2>1 DEF PowerCut, Settle
  <2> QED BY <1>1, <2>1, <2>2, <2>3, <2>4, <2>5, <2>6 DEF StoreNext
<1>2. StoreInv /\ [StoreNext]_storeVars
        => [(Damaged \notin recent) => (Damaged \notin recent' \union {file'})]_storeVars
  BY <1>1
<1> QED BY <1>2, StoreAlways, PTL DEF StoreSpec, NeverDamaged

-----------------------------------------------------------------------------
\* The two variables of AtomicFile that are functions here, and how a step of t
\* changes them.
Asked == [t \in Callers |-> call[t].op]
Answered == [t \in Callers |-> call[t].answer]
AskedTo(t, op) == Asked' = [Asked EXCEPT ![t] = op]
AnsweredTo(t, a) == Answered' = [Answered EXCEPT ![t] = a]

\* What a change of one call is to the abstract file.
LEMMA OneAsks ==
  ASSUME call \in [Callers -> CallType], NEW t \in Callers, NEW c \in CallType,
         call' = [call EXCEPT ![t] = c]
  PROVE  /\ \A op : c.op = op => AskedTo(t, op)
         /\ \A a : c.answer = a => AnsweredTo(t, a)
         /\ (c.op = call[t].op => Asked' = Asked)
         /\ (c.answer = call[t].answer => Answered' = Answered)
<1>1. call'[t] = c /\ \A s \in Callers \ {t} : call'[s] = call[s]
  OBVIOUS
<1>2. Asked' = [Asked EXCEPT ![t] = c.op]
  BY <1>1 DEF Asked
<1>3. Answered' = [Answered EXCEPT ![t] = c.answer]
  BY <1>1 DEF Answered
<1>4. c.op = call[t].op => Asked' = Asked
  BY <1>1 DEF Asked
<1>5. c.answer = call[t].answer => Answered' = Answered
  BY <1>1 DEF Answered
<1> QED BY <1>2, <1>3, <1>4, <1>5 DEF AskedTo, AnsweredTo


\* The initial states are initial states of the abstract file.
LEMMA FileInits == StoreInit => File!Init
BY DEF StoreInit, File!Init, NoCall, Contents

\* A step of a call is a step of the abstract file, or nothing to it: reading is Get
\* (or Doubt, when ensure_valid finds nothing valid), the rename is where a write takes
\* effect, what raises is Fail.  Intended says that the payload renamed is the one the
\* call stands for, made from what the file still holds.
LEMMA FileSteps ==
  ASSUME StoreInv, NEW t \in Callers, StoreStep(t)
  PROVE  File!Next \/ UNCHANGED File!fileVars
<1> DEFINE c == call[t]
<1>1. /\ call \in [Callers -> CallType] /\ c \in CallType /\ lock \in Callers \union {Nobody}
      /\ (c.pc \in Inside <=> lock = t) /\ CallInv(c, file, temp, synced)
  BY CallTypes DEF StoreInv
<1>2. ASSUME NEW pc, Goto(t, pc), pc # c.pc, UNCHANGED <<file, recent>>,
             pc \in Inside
      PROVE  UNCHANGED File!fileVars
  <2> DEFINE d == [c EXCEPT !.pc = pc]
  <2>1. d \in CallType /\ d.op = c.op /\ d.answer = c.answer
    BY <1>1, <1>2 DEF CallType
  <2>2. call' = [call EXCEPT ![t] = d]
    BY <1>2 DEF Goto
  <2> HIDE DEF d
  <2>3. Asked' = Asked /\ Answered' = Answered
    BY <1>1, <2>1, <2>2, OneAsks
  <2> QED BY <1>2, <2>3 DEF File!fileVars, Asked, Answered
<1>3. ASSUME NEW a, Answer(t, a), a \in Payloads \union {"failed", "done"}
      PROVE  File!Answer(t, a)
  <2> DEFINE d == [c EXCEPT !.pc = "return", !.answer = a]
  <2>1. d \in CallType /\ d.op = c.op /\ d.answer = a
    BY <1>1, <1>3 DEF CallType, Inside
  <2>2. call' = [call EXCEPT ![t] = d]
    BY <1>3 DEF Answer
  <2> HIDE DEF d
  <2>3. Asked' = Asked /\ AnsweredTo(t, a)
    BY <1>1, <2>1, <2>2, OneAsks
  <2> QED BY <2>3 DEF File!Answer, Asked, Answered, AskedTo, AnsweredTo
<1>5. c.pc # "return" => c.answer = "none"
  BY <1>1 DEF CallInv
<1>6. CASE Enter(t)
  <2>1. c.pc = "wait" /\ UNCHANGED <<file, recent>>
    BY <1>6 DEF Enter, At
  <2>2. ASSUME NEW p \in Payloads, call' = [call EXCEPT ![t].pc = "open", ![t].payload = p]
        PROVE  UNCHANGED File!fileVars
    <3> DEFINE d == [c EXCEPT !.pc = "open", !.payload = p]
    <3>1. d \in CallType /\ d.op = c.op /\ d.answer = c.answer
      BY <1>1 DEF CallType, Inside
    <3>2. call' = [call EXCEPT ![t] = d]
      BY <2>2
    <3> HIDE DEF d
    <3> QED BY <1>1, <2>1, <3>1, <3>2, OneAsks DEF File!fileVars, Asked, Answered
  <2> QED BY <1>2, <1>6, <2>1, <2>2 DEF Enter, Inside
<1>7. CASE ReadFile(t)
  <2>1. c.pc = "read" /\ UNCHANGED <<file, recent>> /\ c.answer = "none"
    BY <1>5, <1>7 DEF ReadFile, At
  <2>2. ASSUME NEW p \in Payloads, Readable(p), Answer(t, p),
               c.op \in {"read", "ensure_exists", "ensure_valid"},
               c.op = "ensure_exists" => file # NoFile,
               c.op = "ensure_valid" => file \in Payloads
        PROVE  File!Get(t)
    BY <1>3, <2>1, <2>2 DEF File!Get, File!Readable, Readable
  <2>3. ASSUME NEW p \in Payloads, call' = [call EXCEPT ![t].pc = "open", ![t].payload = p]
        PROVE  UNCHANGED File!fileVars
    <3> DEFINE d == [c EXCEPT !.pc = "open", !.payload = p]
    <3>1. d \in CallType /\ d.op = c.op /\ d.answer = c.answer
      BY <1>1 DEF CallType, Inside
    <3>2. call' = [call EXCEPT ![t] = d]
      BY <2>3
    <3> HIDE DEF d
    <3> QED BY <1>1, <2>1, <3>1, <3>2, OneAsks DEF File!fileVars, Asked, Answered
  <2>4. ASSUME c.op = "ensure_valid",
               call' = [call EXCEPT ![t].op = "repair", ![t].pc = "wait",
                                    ![t].payload = Default]
        PROVE  File!Doubt(t)
    <3> DEFINE d == [c EXCEPT !.op = "repair", !.pc = "wait", !.payload = Default]
    <3>1. d \in CallType /\ d.op = "repair" /\ d.answer = "none"
      BY <1>1, <2>1, PayloadAssumption DEF CallType
    <3>2. call' = [call EXCEPT ![t] = d]
      BY <2>4
    <3> HIDE DEF d
    <3>3. AskedTo(t, "repair") /\ AnsweredTo(t, "none")
      BY <1>1, <3>1, <3>2, OneAsks
    <3> QED BY <2>1, <2>4, <3>3 DEF File!Doubt, File!Waiting, File!Ask, Asked, Answered, AskedTo, AnsweredTo
  <2>5. ASSUME NEW p \in Payloads, NEW u \in Updates PROVE u[p] \in Payloads
    BY PayloadAssumption
  <2>6. file \in Payloads => Readable(file)
    BY DEF Readable
  <2>7. (\E p \in Payloads : Readable(p) /\ Answer(t, p)) /\ c.op = "read" => File!Get(t)
    BY <2>2
  <2>8. (\E p \in Payloads : Readable(p) /\ Answer(t, p)) /\ c.op = "ensure_exists" /\ file # NoFile
          => File!Get(t)
    BY <2>2
  <2>9. c.op = "ensure_valid" /\ file \in Payloads /\ Answer(t, file) => File!Get(t)
    BY <2>2, <2>6
  <2>10. Default \in Payloads
    BY PayloadAssumption
  <2> QED BY <1>7, <2>3, <2>4, <2>5, <2>7, <2>8, <2>9, <2>10 DEF ReadFile, File!Next
<1>8. CASE Open(t) \/ Dump(t) \/ Fsync(t) \/ WriteFails(t)
  BY <1>2, <1>8 DEF Open, Dump, Fsync, WriteFails, At, Inside
<1>9. CASE Rename(t)
  <2>1. c.pc = "rename" /\ c.answer = "none" /\ synced /\ temp = c.payload /\ Intended(c, file)
    BY <1>1, <1>5, <1>9 DEF Rename, At, CallInv
  <2>2. PICK q \in Payloads : q = c.payload
    BY <1>1 DEF CallType
  <2>3. Answer(t, q)
    BY <1>9, <2>2 DEF Rename, Answer
  <2>4. File!Answer(t, q)
    BY <1>3, <2>2, <2>3
  <2>9. File!Replace(q)
    BY <1>9, <2>1, <2>2 DEF Rename, File!Replace
  <2>5. CASE c.op = "write"
    <3>1. File!Put(t)
      BY <2>1, <2>2, <2>4, <2>5, <2>9 DEF File!Put, File!Waiting
    <3> QED BY <3>1 DEF File!Next
  <2>6. CASE c.op = "update" /\ \E p \in Payloads, u \in Updates :
                                  p \in {file, Default} /\ q = u[p]
    <3>1. PICK p \in Payloads, u \in Updates : p \in {file, Default} /\ q = u[p]
      BY <2>6
    <3>2. File!Replace(u[p]) /\ File!Answer(t, u[p])
      BY <2>4, <2>9, <3>1
    <3>3. File!Readable(p)
      BY <3>1 DEF File!Readable
    <3>4. File!Change(t)
      BY <2>1, <2>6, <3>2, <3>3 DEF File!Change, File!Waiting
    <3> QED BY <3>4 DEF File!Next
  <2>7. CASE c.op = "ensure_exists" /\ file = NoFile /\ q = Default
    <3>1. File!Create(t)
      BY <2>1, <2>4, <2>7, <2>9 DEF File!Create, File!Waiting
    <3> QED BY <3>1 DEF File!Next
  <2>8. CASE c.op = "repair" /\ q = Default
    <3>1. File!Repair(t)
      BY <2>1, <2>4, <2>8, <2>9 DEF File!Repair, File!Waiting
    <3> QED BY <3>1 DEF File!Next
  <2> QED BY <2>1, <2>5, <2>6, <2>7, <2>2, <2>8 DEF Intended
<1>10. ASSUME Answer(t, "failed"), UNCHANGED <<file, recent>>, c.op # "none", c.answer = "none"
       PROVE  File!Fail(t)
  BY <1>3, <1>10 DEF File!Fail
<1>11. CASE CleanUp(t)
  <2>1. c.op # "none" /\ c.answer = "none"
    BY <1>1, <1>11 DEF CleanUp, At, CallInv
  <2> QED BY <1>10, <1>11, <2>1 DEF CleanUp, File!Next
<1>12. CASE Unlink(t)
  <2>1. c.op = "delete" /\ c.answer = "none"
    BY <1>1, <1>12 DEF Unlink, At, CallInv
  <2>2. CASE file # NoFile /\ Replace(NoFile) /\ Answer(t, "done")
    <3>1. File!Delete(t)
      BY <1>3, <2>1, <2>2 DEF File!Delete, File!Waiting, File!Replace, Replace
    <3> QED BY <3>1 DEF File!Next
  <2>3. CASE Answer(t, "failed") /\ UNCHANGED <<file, recent>>
    BY <1>10, <2>1, <2>3 DEF File!Next
  <2> QED BY <1>12, <2>2, <2>3 DEF Unlink
<1>13. CASE Return(t)
  <2>1. c.answer # "none" /\ UNCHANGED <<file, recent>> /\ call' = [call EXCEPT ![t] = NoCall]
    BY <1>1, <1>13 DEF Return, At, CallInv
  <2>2. NoCall.op = "none" /\ NoCall.answer = "none"
    BY DEF NoCall
  <2>3. AskedTo(t, "none") /\ AnsweredTo(t, "none")
    BY <1>1, <2>1, <2>2, NoCallInv, OneAsks
  <2>4. File!Ask(t, "none")
    BY <2>1, <2>3 DEF File!Ask, Asked, Answered, AskedTo, AnsweredTo
  <2> QED BY <2>1, <2>4 DEF File!Next
<1> QED BY <1>6, <1>7, <1>8, <1>9, <1>11, <1>12, <1>13 DEF StoreStep

\* So is every step of the store.
LEMMA FileNexts ==
  StoreInv /\ [StoreNext]_storeVars => [File!Next]_File!fileVars
<1> SUFFICES ASSUME StoreInv, [StoreNext]_storeVars PROVE File!Next \/ UNCHANGED File!fileVars
  OBVIOUS
<1>1. call \in [Callers -> CallType]
  BY CallTypes DEF StoreInv
<1>2. ASSUME NEW t \in Callers, NEW op \in Operations, Call(t, op) PROVE File!Next
  <2> DEFINE d == [NoCall EXCEPT !.op = op, !.pc = "wait"]
  <2>1. d \in CallType /\ d.op = op /\ d.answer = "none"
    BY NoCallInv DEF CallType, NoCall
  <2>2. call' = [call EXCEPT ![t] = d] /\ UNCHANGED <<file, recent>>
    BY <1>2 DEF Call
  <2>3. call[t].op = "none"
    BY <1>2 DEF Call, StoreInv, CallInv
  <2> HIDE DEF d
  <2>4. AskedTo(t, op) /\ AnsweredTo(t, "none")
    BY <1>1, <2>1, <2>2, OneAsks
  <2>5. File!Ask(t, op)
    BY <2>2, <2>4 DEF File!Ask, Asked, Answered, AskedTo, AnsweredTo
  <2> QED BY <2>3, <2>5 DEF File!Next, Operations
<1>3. call' = [t \in Callers |-> NoCall]
      => /\ [t \in Callers |-> call'[t].op] = [t \in Callers |-> "none"]
         /\ [t \in Callers |-> call'[t].answer] = [t \in Callers |-> "none"]
  BY DEF NoCall
<1>4. CASE StoreExit
  BY <1>3, <1>4 DEF StoreExit, File!Next, File!Exit
<1>5. CASE PowerCut
  BY <1>3, <1>5 DEF PowerCut, File!Next, File!PowerCut
<1>6. CASE Settle
  BY <1>6 DEF Settle, File!Next, File!Settle
<1>7. CASE UNCHANGED storeVars
  BY <1>7 DEF storeVars, File!fileVars
<1> QED BY <1>2, <1>4, <1>5, <1>6, <1>7, FileSteps DEF StoreNext

\* "thread-safe in-process access" (json_store.py:46), for any number of threads: each
\* call takes effect at one moment or not at all, an update() nobody comes between.
THEOREM StoreImplementsFile == StoreSpec => ImplementsAtomicFile
<1>1. StoreSpec => [][File!Next]_File!fileVars
  BY StoreAlways, FileNexts, PTL DEF StoreSpec
<1> QED BY <1>1, FileInits, PTL DEF StoreSpec, ImplementsAtomicFile, File!Spec
================================================================================
