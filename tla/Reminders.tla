------------------------------- MODULE Reminders -------------------------------
(***************************************************************************)
(* modules/features/reminders/service: the reminder list in one JSON file, *)
(* changed by the main thread (the user adds, deletes and clears) and by   *)
(* the background thread of memory_background_mixin.py, which every half   *)
(* second marks one due reminder done and speaks it.                       *)
(*                                                                         *)
(* Every operation loads the list, changes its copy and saves the whole    *)
(* list.  JsonStore locks the load and the save, each on its own, so each  *)
(* is a step.  The list is in the order of creation and ids are numbers in *)
(* that order, so the list is a function and "the first due one" a minimum.*)
(***************************************************************************)
EXTENDS Naturals

CONSTANTS
  MaxReminders,  \* bound on the reminders ever created
  ReadsFail      \* may a read fail?  JsonStore then returns the empty list

ASSUME MaxRemindersAssumption == MaxReminders \in Nat
ASSUME ReadsFailAssumption == ReadsFail \in BOOLEAN

Ids == 1 .. MaxReminders
Book == [Ids -> {"absent", "pending", "done"}]
EmptyBook == [r \in Ids |-> "absent"]

VARIABLES
  running,    \* the process is up
  store,      \* the JSON file
  created,    \* reminders made so far
  due,        \* those whose due_at has passed
  main,       \* the main thread: pc, reminder concerned, the list it loaded
  loop,       \* _reminder_loop: the same
  kept,       \* history: added, and neither deleted nor cleared, by commands
              \* that returned
  delivered,  \* history: reminders spoken
  repeated,   \* history: reminders spoken more than once
  exposed     \* history: a save fell between another thread's load and save,
              \* or a read failed

commandHistory == <<kept, delivered, repeated>>
vars == <<running, store, created, due, main, loop, commandHistory, exposed>>

Idle == [pc |-> "idle", target |-> 0, book |-> EmptyBook]
Busy(pcs) == [pc: pcs, target: 0 .. MaxReminders, book: Book]

TypeOK ==
  /\ running \in BOOLEAN
  /\ store \in Book
  /\ created \in 0 .. MaxReminders
  /\ due \subseteq Ids
  /\ main \in {Idle} \union Busy({"add", "delete", "clear"})
  /\ loop \in {Idle} \union Busy({"save", "deliver"})
  /\ main.pc \in {"add", "delete"} => main.target \in Ids
  /\ loop # Idle => loop.target \in Ids
  /\ kept \subseteq Ids
  /\ delivered \subseteq Ids
  /\ repeated \subseteq Ids
  /\ exposed \in BOOLEAN

Init ==
  /\ running = TRUE
  /\ store = EmptyBook
  /\ created = 0
  /\ due = {}
  /\ main = Idle
  /\ loop = Idle
  /\ kept = {}
  /\ delivered = {}
  /\ repeated = {}
  /\ exposed = FALSE

-----------------------------------------------------------------------------
(* JsonStore.  write() replaces the file in one rename, or raises and leaves *)
(* it alone; read() falls back to the default.                               *)

Read(book) ==
  \/ book = store /\ UNCHANGED exposed
  \/ ReadsFail /\ book = EmptyBook /\ exposed' = TRUE

Write(book, otherHoldsAList) ==
  /\ store' = book
  /\ exposed' = (exposed \/ otherHoldsAList)

-----------------------------------------------------------------------------
(* Commands of the main thread.                                            *)

\* add_after_seconds, delete and clear up to the save.  delete of an id that is
\* not in the list returns False and changes nothing.
CommandLoad ==
  /\ running
  /\ main.pc = "idle"
  /\ \E book \in {store, EmptyBook} :
       /\ Read(book)
       /\ \/ /\ created < MaxReminders
             /\ created' = created + 1
             /\ main' = [pc |-> "add", target |-> created + 1, book |-> book]
          \/ /\ \E r \in Ids :
                  /\ book[r] # "absent"
                  /\ main' = [pc |-> "delete", target |-> r, book |-> book]
             /\ UNCHANGED created
          \/ /\ main' = [pc |-> "clear", target |-> 0, book |-> book]
             /\ UNCHANGED created
  /\ UNCHANGED <<running, store, due, loop, commandHistory>>

CommandSave ==
  /\ \/ /\ main.pc = "add"
        /\ Write([main.book EXCEPT ![main.target] = "pending"], loop.pc = "save")
        /\ kept' = kept \union {main.target}
     \/ /\ main.pc = "delete"
        /\ Write([main.book EXCEPT ![main.target] = "absent"], loop.pc = "save")
        /\ kept' = kept \ {main.target}
     \/ /\ main.pc = "clear"
        /\ Write(EmptyBook, loop.pc = "save")
        /\ kept' = {}
  /\ main' = Idle
  /\ UNCHANGED <<running, created, due, loop, delivered, repeated>>

\* The save raises; the caller says that nothing was saved or found.
CommandFails ==
  /\ main.pc # "idle"
  /\ main' = Idle
  /\ UNCHANGED <<running, store, created, due, loop, commandHistory, exposed>>

-----------------------------------------------------------------------------
(* _reminder_loop: check_due_reminders(limit=1), then deliver_due_reminder. *)

DueIn(book) == {r \in due : book[r] = "pending"}

\* A plausible bug: the scan stops at the first pending reminder, due or not.
LoopLoadHeadOnly ==
  /\ running
  /\ loop.pc = "idle"
  /\ \E r \in DueIn(store) :
       /\ \A s \in Ids : s < r => store[s] # "pending"
       /\ loop' = [pc |-> "save", target |-> r, book |-> store]
  /\ UNCHANGED <<running, store, created, due, main, commandHistory, exposed>>

\* With nothing due, or after a failed read, the iteration changes nothing.
LoopLoad ==
  /\ running
  /\ loop.pc = "idle"
  /\ \E r \in DueIn(store) :
       /\ \A s \in DueIn(store) : r <= s
       /\ loop' = [pc |-> "save", target |-> r, book |-> store]
  /\ UNCHANGED <<running, store, created, due, main, commandHistory, exposed>>

\* A plausible bug: the loop saves the due reminders instead of the whole list.
LoopSaveDueOnly ==
  /\ loop.pc = "save"
  /\ Write([EmptyBook EXCEPT ![loop.target] = "done"], main.pc # "idle")
  /\ loop' = [loop EXCEPT !.pc = "deliver", !.book = EmptyBook]
  /\ UNCHANGED <<running, created, due, main, commandHistory>>

LoopSave ==
  /\ loop.pc = "save"
  /\ Write([loop.book EXCEPT ![loop.target] = "done"], main.pc # "idle")
  /\ loop' = [loop EXCEPT !.pc = "deliver", !.book = EmptyBook]
  /\ UNCHANGED <<running, created, due, main, commandHistory>>

\* A plausible bug: a save that raises is caught and the reminder spoken anyway.
LoopSpeaksUnsaved ==
  /\ loop.pc = "save"
  /\ loop' = [loop EXCEPT !.pc = "deliver", !.book = EmptyBook]
  /\ UNCHANGED <<running, store, created, due, main, commandHistory, exposed>>

\* The save raises: log_exception, and the next iteration tries again.
LoopSaveFails ==
  /\ loop.pc = "save"
  /\ loop' = Idle
  /\ UNCHANGED <<running, store, created, due, main, commandHistory, exposed>>

\* The notification is spoken, or raises before it is.
LoopDeliver ==
  /\ loop.pc = "deliver"
  /\ loop' = Idle
  /\ \/ /\ delivered' = delivered \union {loop.target}
        /\ repeated' = repeated \union ({loop.target} \intersect delivered)
     \/ UNCHANGED <<delivered, repeated>>
  /\ UNCHANGED <<running, store, created, due, main, kept, exposed>>

-----------------------------------------------------------------------------
(* The clock, and the end of the process: neither thread is waited for.    *)

Expire(r) ==
  /\ r <= created
  /\ r \notin due
  /\ due' = due \union {r}
  /\ UNCHANGED <<running, store, created, main, loop, commandHistory, exposed>>

Exit ==
  /\ running
  /\ running' = FALSE
  /\ main' = Idle
  /\ loop' = Idle
  /\ UNCHANGED <<store, created, due, commandHistory, exposed>>

\* ReminderService.__init__: ensure_valid() writes back what it could read.
Restart ==
  /\ ~running
  /\ running' = TRUE
  /\ \E book \in {store, EmptyBook} : Read(book) /\ store' = book
  /\ UNCHANGED <<created, due, main, loop, commandHistory>>

Next ==
  \/ CommandLoad
  \/ CommandSave
  \/ CommandFails
  \/ LoopLoad
  \/ LoopSave
  \/ LoopSaveFails
  \/ LoopDeliver
  \/ \E r \in Ids : Expire(r)
  \/ Exit
  \/ Restart

\* The background thread keeps running while the process is up, and the disk does
\* not refuse every save it tries.  Nobody has to command, exit or restart.
Spec ==
  /\ Init
  /\ [][Next]_vars
  /\ WF_vars(LoopLoad)
  /\ SF_vars(LoopSave)
  /\ WF_vars(LoopDeliver)

-----------------------------------------------------------------------------
\* As long as no two threads' load-to-save windows crossed and every read worked,
\* no reminder is spoken twice, whatever saves fail and wherever the process ends:
\* the loop saves "done" before it speaks, and nothing makes "done" pending again.
SpokenAtMostOnce == ~exposed => repeated = {}

\* Under the same condition the file holds exactly the reminders the user was told
\* are saved and was not told are gone, across failed saves, exits and restarts:
\* the loop changes statuses, never the membership of the list.
StoreMatchesCommands ==
  ~exposed => kept = {r \in Ids : store[r] # "absent"}

\* A due reminder is eventually taken by the loop, deleted or cleared: limit=1 and
\* reminders that cannot be saved or spoken do not starve those behind them.  (Not
\* promised to a process that ends, or once the windows have crossed.)
DueReminderIsTaken ==
  \A r \in Ids :
    (r \in due /\ store[r] = "pending") ~>
      (store[r] # "pending" \/ ~running \/ exposed)

\* json_store.py:46, "thread-safe in-process access": a reminder whose add returned
\* stays in the file until a command removes it.
NoReminderLost == \A r \in kept : store[r] # "absent"
=============================================================================
