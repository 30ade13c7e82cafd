---------------------------- MODULE MCConversation ----------------------------
(* A focus timer that finishes, and a timer the main thread announces, while   *)
(* the user says three of the texts: one of every class the handlers tell      *)
(* apart, and of the commands those that act, ask, start a timer and end.      *)
EXTENDS Conversation

MCNotices == {"focus_timer"}
MCUtterances == {"yes", "no", "cancel", "time", "memory_clear", "timer_start", "status",
                 "forget", "exit", "unclear", "suggest", "no_topic", "cut_off", "wake",
                 "ignored"}
MCSuggestions == {<<"status", "memory_clear">>}

(* Fewer, for the runs that look for one behaviour.                            *)
MCFew == {"yes", "memory_clear", "status"}
===============================================================================
