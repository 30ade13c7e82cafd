------------------------------ MODULE PendingFlow ------------------------------
(* The short dialogues of core/flows/pending_flow: the question that waits for *)
(* an answer (pending_follow_up), the command guess that waits for a yes       *)
(* (pending_confirmation), the commands that ask a question first, and what    *)
(* each reply does to each question.  Wording and languages are left out; a    *)
(* reply is the class its text falls in for the handlers:                      *)
(*   yes, no, cancel    as the parser and the cancel phrases recognise them    *)
(*   second             an ordinal choice, for a guess of two commands         *)
(*   unknown            "I don't know", a default duration for a timer         *)
(*   time               a duration or a time of day                            *)
(*   words              any other text: a name, a message, a topic             *)
EXTENDS Naturals

Replies == {"yes", "no", "cancel", "second", "unknown", "time", "words"}

Durations == {"timer_duration", "focus_duration", "break_duration"}

(* Asked by the callback of a finished timer, from the timer's own thread.     *)
TimerOffers == {"focus_extend_offer", "break_extend_offer"}

Offers == TimerOffers \union
          {"focus_start_offer", "post_focus_break_offer", "break_to_focus_offer"}

Confirmations == {"confirm_save_name", "confirm_memory_clear", "confirm_reminders_clear",
                  "confirm_reminder_delete", "confirm_exit", "confirm_shutdown"}

Contents == {"reminder_time", "reminder_message", "memory_message",
             "memory_person_name", "memory_object_name", "capture_name"}

Repairs == {"clarification_repeat", "conversation_repair"}

QuestionTypes == Durations \union Offers \union Confirmations \union Contents \union Repairs

MaxRetries == 1

(* detail: of a clarification, that it asked for the topic of a query; of      *)
(* reminder_time, that the message is already known.                           *)
FollowUps == [type : QuestionTypes \union {"none"}, retries : 0..MaxRetries, detail : BOOLEAN]

NoFollowUp == [type |-> "none", retries |-> 0, detail |-> FALSE]

Ask(type) == [NoFollowUp EXCEPT !.type = type]

--------------------------------------------------------------------------------
(* Commands                                                                    *)

(* The question a command asks instead of acting at once.                      *)
QuestionOf ==
  [focus_offer     |-> Ask("focus_start_offer"),
   focus_start     |-> Ask("focus_duration"),
   break_start     |-> Ask("break_duration"),
   reminder_create |-> Ask("reminder_time"),
   reminder_at     |-> [Ask("reminder_time") EXCEPT !.detail = TRUE],
   memory_store    |-> Ask("memory_message"),
   remember_person |-> Ask("memory_person_name"),
   remember_object |-> Ask("memory_object_name"),
   memory_clear    |-> Ask("confirm_memory_clear"),
   reminders_clear |-> Ask("confirm_reminders_clear"),
   reminder_delete |-> Ask("confirm_reminder_delete"),
   shutdown        |-> Ask("confirm_shutdown")]

(* A command may also answer that it cannot be done: no such reminder,         *)
(* shutdown commands not allowed.                                              *)
Refusable == {"reminder_delete", "shutdown"}

(* timer_start stands for the commands that start a timer of known length,     *)
(* forget for "forget <something>", status for those that only answer.         *)
Commands == DOMAIN QuestionOf \union {"timer_start", "exit", "forget", "status"}

--------------------------------------------------------------------------------
(* Answers                                                                     *)

Effects == {"nothing", "start_timer", "save_reminder", "save_memory", "save_name",
            "clear_memory", "clear_reminders", "delete_reminder", "exit", "shut_down"}

(* What cannot be taken back, and is therefore asked for first.                *)
Destructive == [confirm_memory_clear    |-> "clear_memory",
                confirm_reminders_clear |-> "clear_reminders",
                confirm_reminder_delete |-> "delete_reminder",
                confirm_shutdown        |-> "shut_down"]

(* An answer may leave the question standing, settle it or ask the next one.   *)
Outcomes == [writes : BOOLEAN, next : FollowUps, does : Effects]

AskAgain     == [writes |-> FALSE, next |-> NoFollowUp, does |-> "nothing"]
AskNext(q)   == [writes |-> TRUE, next |-> q, does |-> "nothing"]
Settle(what) == [writes |-> TRUE, next |-> NoFollowUp, does |-> what]

(* A timer that is already running refuses the start: the question is gone all *)
(* the same.                                                                   *)
StartTimer == {Settle("start_timer"), Settle("nothing")}

_handle_duration_follow_up(type, reply) ==
  IF reply = "time" \/ (reply = "unknown" /\ type # "timer_duration")
  THEN StartTimer ELSE {AskAgain}

(* The offers: a question that follows a yes, one that follows a no.           *)
YesOrNo(reply, afterYes, afterNo) ==
  CASE reply = "yes" -> {AskNext(Ask(afterYes))}
    [] reply = "no"  -> {AskNext(Ask(afterNo))}
    [] OTHER         -> {AskAgain}

_handle_focus_start_offer(reply) == YesOrNo(reply, "focus_duration", "none")

_handle_focus_extend_offer(reply) ==
  YesOrNo(reply, "focus_duration", "post_focus_break_offer")

_handle_post_focus_break_offer(reply) ==
  IF reply = "time" THEN StartTimer ELSE YesOrNo(reply, "break_duration", "none")

_handle_break_extend_offer(reply) ==
  YesOrNo(reply, "break_duration", "break_to_focus_offer")

_handle_break_to_focus_offer(reply) == YesOrNo(reply, "focus_duration", "none")

(* The contents.  A reply is saved when the parser of its kind takes it; yes   *)
(* and no are contents to a reminder, no is a refusal to a memory, neither is  *)
(* a person's name.  found: the question of the moment is still the one that   *)
(* was read, so what it carries (a time, a message, a reminder) is there.      *)
SaveOr(what, others) == {Settle(what), Settle("nothing")} \union others

_handle_reminder_time_follow_up(detail, reply, found) ==
  IF reply # "time" THEN {AskAgain}
  ELSE IF detail /\ found THEN SaveOr("save_reminder", {})
  ELSE {AskNext(Ask("reminder_message"))}

_handle_reminder_message_follow_up(found) ==
  IF found THEN SaveOr("save_reminder", {AskAgain}) ELSE {Settle("nothing")}

_handle_memory_message_follow_up(reply) ==
  IF reply = "no" THEN {Settle("nothing")} ELSE SaveOr("save_memory", {AskAgain})

_handle_memory_object_name_follow_up == SaveOr("save_memory", {AskAgain})

_handle_memory_person_name_follow_up(reply) ==
  IF reply \in {"yes", "no"} THEN {AskAgain} ELSE SaveOr("save_memory", {AskAgain})

_handle_capture_name == {AskNext(Ask("confirm_save_name")), AskAgain}

(* The confirmations.                                                          *)
OnYes(what, reply) ==
  CASE reply = "yes" -> {Settle(what)}
    [] reply = "no"  -> {Settle("nothing")}
    [] OTHER         -> {AskAgain}

_handle_confirm_save_name(reply) == OnYes("save_name", reply)

_handle_confirm_memory_clear(reply) == OnYes("clear_memory", reply)

_handle_confirm_reminders_clear(reply) == OnYes("clear_reminders", reply)

_handle_confirm_reminder_delete(reply, found) ==
  OnYes(IF found THEN "delete_reminder" ELSE "nothing", reply)

_handle_confirm_exit(reply) == OnYes("exit", reply)

_handle_confirm_shutdown(reply) == OnYes("shut_down", reply)

(* What a reply to question q may do, of the questions that always handle it.  *)
handle_pending_follow_up(q, reply, found) ==
  CASE q.type \in Durations               -> _handle_duration_follow_up(q.type, reply)
    [] q.type = "focus_start_offer"       -> _handle_focus_start_offer(reply)
    [] q.type = "focus_extend_offer"      -> _handle_focus_extend_offer(reply)
    [] q.type = "break_extend_offer"      -> _handle_break_extend_offer(reply)
    [] q.type = "break_to_focus_offer"    -> _handle_break_to_focus_offer(reply)
    [] q.type = "post_focus_break_offer"  -> _handle_post_focus_break_offer(reply)
    [] q.type = "reminder_time"           -> _handle_reminder_time_follow_up(q.detail, reply, found)
    [] q.type = "reminder_message"        -> _handle_reminder_message_follow_up(found)
    [] q.type = "memory_message"          -> _handle_memory_message_follow_up(reply)
    [] q.type = "memory_person_name"      -> _handle_memory_person_name_follow_up(reply)
    [] q.type = "memory_object_name"      -> _handle_memory_object_name_follow_up
    [] q.type = "capture_name"            -> _handle_capture_name
    [] q.type = "confirm_save_name"       -> _handle_confirm_save_name(reply)
    [] q.type = "confirm_memory_clear"    -> _handle_confirm_memory_clear(reply)
    [] q.type = "confirm_reminders_clear" -> _handle_confirm_reminders_clear(reply)
    [] q.type = "confirm_reminder_delete" -> _handle_confirm_reminder_delete(reply, found)
    [] q.type = "confirm_exit"            -> _handle_confirm_exit(reply)
    [] q.type = "confirm_shutdown"        -> _handle_confirm_shutdown(reply)
===============================================================================
