----------------------------- MODULE Conversation -----------------------------
(***************************************************************************)
(* The conversation loop and what cuts into it.  The main thread           *)
(* (runtime/main_loop/loop.py:43) waits for the wake phrase, opens a       *)
(* command window, hears an utterance, hands it to handle_command          *)
(* (core/assistant_impl/interaction_mixin.py:13), which answers the        *)
(* pending question or routes a new command, and rearms a window by the    *)
(* resume policy.  The threads of timers and of the reminder loop deliver  *)
(* notifications (core/flows/notification_flow) into the same session:     *)
(* they write the pending question, the session's state and its window     *)
(* without a lock that spans two of those writes.                          *)
(*                                                                         *)
(* Speech is one voice at a time (module AudioCoordinator); while someone  *)
(* speaks the microphone is shielded and nothing is heard.  Left out:      *)
(* barge-in (off by default), the spoken acknowledgement of the wake       *)
(* phrase (skipped with a dedicated wake gate), routes that are part       *)
(* dialogue and part action, the Polish request to complete half a topic,  *)
(* the thinking state, who owns the input device (diagnostics only).  Time *)
(* is left out: a window may run out at any moment.                        *)
(***************************************************************************)
EXTENDS PendingFlow, Sequences

CONSTANTS
  Notices,     \* the background deliveries of a run, each made once
  Utterances,  \* what the user may say
  Suggestions, \* the guesses the parser may offer for an unclear text
  MaxTurns     \* bound: utterances heard

Events == {"focus_timer", "break_timer", "plain_timer", "stopped_timer", "reminder"}
Texts == Replies \union Commands \union
         {"chat", "unclear", "suggest", "no_topic", "cut_off", "wake", "ignored"}

ASSUME ConversationAssumption ==
  /\ Notices \subseteq Events
  /\ Utterances \subseteq Texts
  /\ Suggestions \subseteq {s \in Seq(Commands) : s # <<>>}
  /\ MaxTurns \in Nat

VARIABLES
  pc,           \* where the main thread is
  turn,         \* its turn: text heard and what the user was told before,
                \* question read, what the answer does, what the reply asks,
                \* what handle_command returns after it, if it was delivered
  followUp,     \* assistant.pending_follow_up
  confirmation, \* assistant.pending_confirmation: the suggestions
  clarify,      \* _last_clarification_repeat_context: <<>> or <<retry_count>>
  toStandby,    \* _return_to_wake_standby_after_response
  shutdownRequested,
  vstate,       \* state of the voice session
  window,       \* active_window_open()
  phase,        \* active_phase of the main loop
  attempts,     \* its counters of empty and of ignored captures
  delivered,    \* _last_response_delivery_snapshot says "delivered"
  notice,       \* per delivery, where its thread is
  kept,         \* per delivery, has_pending_interaction as it read it
  speaker,      \* who speaks
  told,         \* history: the question the user was last asked, by the main
                \* thread and by anyone; requests in a row to repeat a text,
                \* since the conversation was last cleared
  turns         \* utterances heard

pendingVars == <<followUp, confirmation>>
flagVars == <<clarify, toStandby, shutdownRequested, delivered>>
sessionVars == <<vstate, window>>
loopVars == <<phase, attempts>>
noticeVars == <<notice, kept>>
historyVars == <<told, turns>>
vars == <<pc, turn, pendingVars, flagVars, sessionVars, loopVars, noticeVars,
          speaker, historyVars>>

Nobody == "nobody"
Main == "main"
Deliverers == Notices \union {Main}

NothingTold == [main |-> "none", last |-> "none", repeats |-> 0]
NoTurn == [text |-> "ignored", main |-> "none", last |-> "none", asked |-> NoFollowUp,
           says |-> "none", does |-> "nothing", returns |-> "delivered", ok |-> FALSE]

NoAttempts == [empty |-> 0, ignored |-> 0]

Pending == confirmation # <<>> \/ followUp.type # "none"
Clarifying == followUp.type = "clarification_repeat"

Init ==
  /\ pc = "top"
  /\ turn = NoTurn
  /\ followUp = NoFollowUp
  /\ confirmation = <<>>
  /\ clarify = <<>>
  /\ toStandby = FALSE
  /\ shutdownRequested = FALSE
  /\ vstate = "standby"
  /\ window = FALSE
  /\ phase = "command"
  /\ attempts = NoAttempts
  /\ delivered = FALSE
  /\ notice = [n \in Deliverers |-> "idle"]
  /\ kept = [n \in Deliverers |-> FALSE]
  /\ speaker = Nobody
  /\ told = NothingTold
  /\ turns = 0

-----------------------------------------------------------------------------
(* The main loop: the wake gate, the windows, the capture.                   *)

\* The shield is up: wait.  The session says so unless it already does.
WaitForOutput ==
  /\ pc = "top"
  /\ speaker # Nobody
  /\ vstate' = IF vstate = "shutdown" THEN vstate ELSE "speaking"
  /\ UNCHANGED <<pc, turn, pendingVars, flagVars, window, loopVars, noticeVars,
                 speaker, historyVars>>

\* A window that has run out is seen here.
Top ==
  /\ pc = "top"
  /\ speaker = Nobody
  /\ window' \in {window, FALSE}
  /\ pc' = IF window' THEN "listen" ELSE "standby"
  /\ UNCHANGED <<turn, pendingVars, flagVars, vstate, loopVars, noticeVars, speaker,
                 historyVars>>

Standby ==
  /\ pc = "standby"
  /\ pc' = "gate"
  /\ vstate' = "standby"
  /\ UNCHANGED <<turn, pendingVars, flagVars, window, loopVars, noticeVars,
                 speaker, historyVars>>

\* The wake phrase is heard, or not within its timeout.
Wake ==
  /\ pc = "gate"
  /\ \/ /\ speaker = Nobody
        /\ pc' = "prime"
        /\ vstate' = "wake_detected"
     \/ /\ pc' = "top"
        /\ UNCHANGED vstate
  /\ UNCHANGED <<turn, pendingVars, flagVars, window, loopVars, noticeVars,
                 speaker, historyVars>>

OpenWindow(ph) ==
  /\ window' = TRUE
  /\ vstate' = "listening"
  /\ phase' = ph
  /\ attempts' = NoAttempts

\* After the wake phrase, or when it is heard again in an open window.  The
\* wait for a free microphone gives up after two seconds, so it guards nothing.
Prime ==
  /\ pc \in {"prime", "reprime"}
  /\ pc' = IF pc = "prime" THEN "listen" ELSE "top"
  /\ OpenWindow("command")
  /\ turn' = NoTurn
  /\ UNCHANGED <<pendingVars, flagVars, noticeVars, speaker, historyVars>>

Listen ==
  /\ pc = "listen"
  /\ pc' = "capture"
  /\ vstate' = "listening"
  /\ UNCHANGED <<turn, pendingVars, flagVars, window, loopVars, noticeVars,
                 speaker, historyVars>>

\* A window that ran out, or a notification closed, does not end a capture.
Hear(u) ==
  /\ pc = "capture"
  /\ speaker = Nobody
  /\ turns < MaxTurns
  /\ pc' = "heard"
  /\ turn' = [NoTurn EXCEPT !.text = u, !.main = told.main, !.last = told.last]
  /\ vstate' = "transcribing"
  /\ turns' = turns + 1
  /\ UNCHANGED <<pendingVars, flagVars, window, loopVars, noticeVars, speaker, told>>

RetryLimit == [empty   |-> [command |-> 1, grace |-> 2, follow_up |-> 3],
               ignored |-> [command |-> 1, grace |-> 1, follow_up |-> 3]]

\* Mutant: a retry starts the counters anew.
RetryFreshly(kind) ==
  LET count == attempts[kind] + 1
  IN  \/ /\ window
         /\ count <= RetryLimit[kind][phase]
         /\ pc' = "top"
         /\ vstate' = "listening"
         /\ attempts' = NoAttempts
      \/ /\ pc' = "to_gate"
         /\ attempts' = [attempts EXCEPT ![kind] = count]
         /\ UNCHANGED vstate

\* Mutant: no limit.
RetryWithoutLimit(kind) ==
  /\ attempts' = [attempts EXCEPT ![kind] = @ + 1]
  /\ \/ /\ window
        /\ pc' = "top"
        /\ vstate' = "listening"
     \/ /\ pc' = "to_gate"
        /\ UNCHANGED vstate

\* Try again while enough of the window remains and the limit is not reached.
Retry(kind) ==
  LET count == attempts[kind] + 1
  IN  /\ attempts' = [attempts EXCEPT ![kind] = count]
      /\ \/ /\ window
            /\ count <= RetryLimit[kind][phase]
            /\ pc' = "top"
            /\ vstate' = "listening"
         \/ /\ pc' = "to_gate"
            /\ UNCHANGED vstate

_handle_no_speech_capture ==
  /\ pc = "capture"
  /\ Retry("empty")
  /\ UNCHANGED <<turn, pendingVars, flagVars, window, phase, noticeVars, speaker,
                 historyVars>>

_handle_ignored_active_transcript ==
  /\ pc = "heard"
  /\ turn.text = "ignored"
  /\ Retry("ignored")
  /\ UNCHANGED <<turn, pendingVars, flagVars, window, phase, noticeVars, speaker,
                 historyVars>>

Rewake ==
  /\ pc = "heard"
  /\ turn.text = "wake"
  /\ pc' = "reprime"
  /\ UNCHANGED <<turn, pendingVars, flagVars, sessionVars, loopVars, noticeVars,
                 speaker, historyVars>>

\* The pending question is not cleared: it outlives its window.
_return_to_wake_gate ==
  /\ pc = "to_gate"
  /\ pc' = "top"
  /\ vstate' = "standby"
  /\ window' = FALSE
  /\ phase' = "command"
  /\ attempts' = NoAttempts
  /\ turn' = NoTurn
  /\ UNCHANGED <<pendingVars, flagVars, noticeVars, speaker, historyVars>>

-----------------------------------------------------------------------------
(* Replies.                                                                  *)

\* The notification of a timer that starts, on the main thread.
Announce ==
  /\ pc' = "announce"
  /\ notice' = [notice EXCEPT ![Main] = "check"]
  /\ UNCHANGED turn

\* A handler ends with a reply that asks a question, or "none" ("topic": a
\* clarification_repeat that asks for the topic of a query); what
\* handle_command returns is whether it was delivered, TRUE ("keep") or FALSE
\* ("exit").  The prompt of a cut off question ("repair") is the loop's own.
SayDone(question, returns, does) ==
  /\ pc' = "reply"
  /\ turn' = [turn EXCEPT !.says = question, !.returns = returns, !.does = does]

Say(question, returns) == SayDone(question, returns, "nothing")

_handle_incomplete_open_dialogue_capture ==
  /\ pc = "heard"
  /\ turn.text = "cut_off"
  /\ followUp' = Ask("conversation_repair")
  /\ toStandby' = FALSE
  /\ attempts' = NoAttempts
  /\ Say("conversation_repair", "repair")
  /\ UNCHANGED <<confirmation, clarify, shutdownRequested, delivered, sessionVars,
                 phase, noticeVars, speaker, historyVars>>

BeginReply ==
  /\ pc = "reply"
  /\ pc' = "voice"
  /\ vstate' = "speaking"
  /\ delivered' = FALSE
  /\ UNCHANGED <<turn, pendingVars, clarify, toStandby, shutdownRequested, window,
                 loopVars, noticeVars, speaker, historyVars>>

TakeVoice ==
  /\ pc = "voice"
  /\ speaker = Nobody
  /\ speaker' = Main
  /\ pc' = "speaking"
  /\ UNCHANGED <<turn, pendingVars, flagVars, sessionVars, loopVars, noticeVars,
                 historyVars>>

\* What the user has been told, once the main thread has said the question.  A
\* request to repeat counts while it is pending.
Told(question) ==
  [main    |-> question,
   last    |-> question,
   repeats |-> IF question = "clarification_repeat" /\ Clarifying
               THEN told.repeats + 1 ELSE 0]

\* The reply was played, or the speech service failed.
EndVoice(ok) ==
  /\ pc = "speaking"
  /\ speaker' = Nobody
  /\ pc' = "finish"
  /\ delivered' = ok
  /\ turn' = [turn EXCEPT !.ok = ok]
  /\ told' = IF ok THEN Told(turn.says) ELSE [told EXCEPT !.repeats = 0]
  /\ UNCHANGED <<pendingVars, clarify, toStandby, shutdownRequested, sessionVars,
                 loopVars, noticeVars, turns>>

Continues == turn.returns = "keep" \/ (turn.returns = "delivered" /\ turn.ok)

\* mark_response_finished, the end of handle_command, which forgets the
\* snapshot of the delivery, and the loop's exit when it returns FALSE.
FinishTurn ==
  /\ pc = "finish"
  /\ IF turn.returns = "repair"
     THEN /\ pc' = IF turn.ok THEN "rearm" ELSE "dispatch"
          /\ vstate' = "standby"
          /\ UNCHANGED <<delivered, window>>
     ELSE /\ delivered' = FALSE
          /\ IF Continues
             THEN /\ pc' = "rearm"
                  /\ vstate' = "standby"
                  /\ UNCHANGED window
             ELSE /\ pc' = "off"
                  /\ vstate' = "shutdown"
                  /\ window' = FALSE
  /\ UNCHANGED <<turn, pendingVars, clarify, toStandby, shutdownRequested, loopVars,
                 noticeVars, speaker, historyVars>>

\* Mutant: the flag is left for the next turn.
DecideKeepingFlag ==
  /\ pc = "rearm"
  /\ pc' = IF shutdownRequested \/ toStandby THEN "to_gate"
           ELSE IF Pending THEN "follow_up"
           ELSE IF delivered THEN "grace"
           ELSE "to_gate"
  /\ turn' = NoTurn
  /\ UNCHANGED <<pendingVars, flagVars, sessionVars, loopVars, noticeVars, speaker,
                 historyVars>>

\* ResumePolicyService.decide.
Decide ==
  /\ pc = "rearm"
  /\ pc' = IF shutdownRequested \/ toStandby THEN "to_gate"
           ELSE IF Pending THEN "follow_up"
           ELSE IF delivered THEN "grace"
           ELSE "to_gate"
  /\ toStandby' = (toStandby /\ shutdownRequested)
  /\ turn' = NoTurn
  /\ UNCHANGED <<pendingVars, clarify, shutdownRequested, delivered, sessionVars,
                 loopVars, noticeVars, speaker, historyVars>>

_start_window ==
  /\ pc \in {"follow_up", "grace"}
  /\ OpenWindow(pc)
  /\ pc' = "top"
  /\ UNCHANGED <<turn, pendingVars, flagVars, noticeVars, speaker, historyVars>>

-----------------------------------------------------------------------------
(* handle_command.                                                           *)

Ordinary == turn.text \notin {"ignored", "wake", "cut_off"}

Dispatch ==
  /\ \/ pc = "dispatch"
     \/ pc = "heard" /\ Ordinary
  /\ pc' = "handle"
  /\ vstate' = "routing"
  /\ attempts' = NoAttempts
  /\ UNCHANGED <<turn, pendingVars, flagVars, window, phase, noticeVars, speaker,
                 historyVars>>

\* Without a question the router may take these for a conversation or for none.
Anything   == Replies \union {"cut_off"}
IsCommand  == turn.text \in Commands
Reply      == IF turn.text \in Replies THEN turn.text ELSE "words"

Cancels == turn.text = "cancel" /\ ~Clarifying

\* Heard after the wake phrase, a text that begins as a query of its own ("tell
\* me about", "what is"...) is no answer to the request to repeat or to complete
\* another.  Whether a text of these classes begins so is left open.  The test
\* of the question's source lets every source through that the code gives these
\* two questions, and none at all.
MayBeginAsQuery == {"words", "status", "chat", "unclear", "suggest", "no_topic", "cut_off"}
StaleRepair ==
  turn.text \in MayBeginAsQuery /\ phase = "command" /\ followUp.type \in Repairs

\* What none of the steps of handle_command touches.
HandleFrame == UNCHANGED <<shutdownRequested, delivered, loopVars, noticeVars, speaker,
                           told, turns>>

_cancel_active_request ==
  /\ pc = "handle"
  /\ Cancels
  /\ followUp' = NoFollowUp
  /\ confirmation' = <<>>
  /\ Say("none", "delivered")
  /\ UNCHANGED <<clarify, toStandby, sessionVars>> /\ HandleFrame

_clear_stale_dialogue_follow_up ==
  /\ pc = "handle"
  /\ StaleRepair
  /\ followUp' = NoFollowUp
  /\ told' = [told EXCEPT !.repeats = 0]
  /\ UNCHANGED <<pc, turn, confirmation, flagVars, sessionVars, loopVars, noticeVars,
                 speaker, turns>>

\* A question to repeat or a topic comes before everything else; another
\* question after a new command and after a guess to confirm.  It is read here
\* and answered in a later step.
ReadFollowUp ==
  /\ pc = "handle"
  /\ ~Cancels
  /\ followUp.type # "none"
  /\ Clarifying \/ (~IsCommand /\ confirmation = <<>>)
  /\ pc' = "answer"
  /\ turn' = [turn EXCEPT !.asked = followUp]
  /\ UNCHANGED <<pendingVars, clarify, toStandby, sessionVars>> /\ HandleFrame

\* Mutant: the question is left pending.
InterruptKeepingQuestion ==
  /\ pc = "handle"
  /\ Pending /\ ~Clarifying
  /\ IsCommand
  /\ pc' = "execute"
  /\ confirmation' = <<>>
  /\ UNCHANGED <<turn, followUp, clarify, toStandby, sessionVars>> /\ HandleFrame

interrupt_with_new_intent ==
  /\ pc = "handle"
  /\ Pending /\ ~Clarifying
  /\ IsCommand
  /\ pc' = "execute"
  /\ followUp' = NoFollowUp
  /\ confirmation' = <<>>
  /\ UNCHANGED <<turn, clarify, toStandby, sessionVars>> /\ HandleFrame

\* Yes takes the first guess; without a choice the question is repeated.
handle_pending_confirmation ==
  /\ pc = "handle"
  /\ ~Cancels /\ ~Clarifying /\ ~IsCommand
  /\ confirmation # <<>>
  /\ LET choice == IF Reply = "second" THEN 2 ELSE 1
     IN  IF Reply \in {"yes", "second"} /\ choice <= Len(confirmation)
         THEN /\ confirmation' = <<>>
              /\ pc' = "execute"
              /\ turn' = [turn EXCEPT !.text = confirmation[choice]]
         ELSE IF Reply = "no"
         THEN confirmation' = <<>> /\ Say("none", "delivered")
         ELSE UNCHANGED confirmation /\ Say("confirmation", "delivered")
  /\ UNCHANGED <<followUp, clarify, toStandby, sessionVars>> /\ HandleFrame

NothingPending ==
  /\ pc = "handle"
  /\ ~Pending /\ ~Cancels
  /\ pc' = "route"
  /\ vstate' = "routing"
  /\ UNCHANGED <<turn, pendingVars, clarify, toStandby, window>> /\ HandleFrame

\* The text is completed and handled as a command of its own.
HandleAsDialogue ==
  /\ pc' = "handle"
  /\ turn' = [turn EXCEPT !.text = "chat"]

_handle_clarification_repeat_follow_up ==
  LET q == turn.asked
  IN  /\ pc = "answer"
      /\ q.type = "clarification_repeat"
      /\ \/ /\ Reply \in {"no", "cancel"}
            /\ followUp' = NoFollowUp
            /\ Say("none", "delivered")
            /\ UNCHANGED <<clarify, toStandby>>
         \/ /\ Reply = "yes" /\ q.retries >= MaxRetries
            /\ followUp' = NoFollowUp
            /\ toStandby' = TRUE
            /\ Say("none", "delivered")
            /\ UNCHANGED clarify
         \/ /\ Reply = "yes" /\ q.retries < MaxRetries
            /\ followUp' = [q EXCEPT !.retries = @ + 1]
            /\ Say(IF q.detail THEN "topic" ELSE "clarification_repeat", "delivered")
            /\ UNCHANGED <<clarify, toStandby>>
         \/ /\ Reply \notin {"yes", "no", "cancel"} /\ q.detail
            /\ followUp' = NoFollowUp
            /\ HandleAsDialogue
            /\ UNCHANGED <<clarify, toStandby>>
         \/ /\ Reply \notin {"yes", "no", "cancel"} /\ ~q.detail
            /\ followUp' = NoFollowUp
            /\ clarify' = <<q.retries>>
            /\ pc' = "route"
            /\ UNCHANGED <<turn, toStandby>>
      /\ UNCHANGED <<confirmation, sessionVars>> /\ HandleFrame

_handle_conversation_repair_follow_up ==
  /\ pc = "answer"
  /\ turn.asked.type = "conversation_repair"
  /\ followUp' = NoFollowUp
  /\ IF Reply = "no" THEN Say("none", "delivered") ELSE HandleAsDialogue
  /\ UNCHANGED <<confirmation, clarify, toStandby, sessionVars>> /\ HandleFrame

\* A timer that starts is announced before handle_command returns; anything
\* else ends with a reply.  Yes to an exit or a shutdown ends the loop.
AnswerQuestion ==
  /\ pc = "answer"
  /\ turn.asked.type \notin Repairs
  /\ \E o \in handle_pending_follow_up(turn.asked, Reply, followUp.type = turn.asked.type) :
       /\ followUp' = IF o.writes THEN o.next ELSE followUp
       /\ shutdownRequested' = (shutdownRequested \/ o.does = "shut_down")
       /\ IF o.does = "start_timer"
          THEN Announce
          ELSE /\ SayDone(IF o.writes THEN o.next.type ELSE turn.asked.type,
                          IF o.does \in {"exit", "shut_down"} THEN "exit" ELSE "delivered",
                          o.does)
               /\ UNCHANGED notice
  /\ UNCHANGED <<confirmation, clarify, toStandby, delivered, sessionVars, loopVars,
                 kept, speaker, told, turns>>

\* The handler of a command.
Execute ==
  /\ pc = "execute"
  /\ \/ /\ turn.text \in DOMAIN QuestionOf
        /\ followUp' = QuestionOf[turn.text]
        /\ Say(QuestionOf[turn.text].type, "delivered")
        /\ UNCHANGED <<confirmation, notice>>
     \/ /\ turn.text \in {"status", "forget", "timer_start"} \union Refusable
        /\ Say("none", "delivered")
        /\ UNCHANGED <<pendingVars, notice>>
     \/ /\ turn.text = "timer_start"
        /\ Announce
        /\ UNCHANGED pendingVars
     \/ /\ turn.text = "exit"
        /\ followUp' = NoFollowUp
        /\ confirmation' = <<>>
        /\ Say("none", "exit")
        /\ UNCHANGED notice
  /\ UNCHANGED <<flagVars, sessionVars, loopVars, kept, speaker, historyVars>>

\* The fast lanes clear both; the router's action branch only the guess.
RouteCommand ==
  /\ pc = "route"
  /\ IsCommand
  /\ pc' = "execute"
  /\ confirmation' = <<>>
  /\ followUp' \in {followUp, NoFollowUp}
  /\ UNCHANGED <<turn, clarify, toStandby, sessionVars>> /\ HandleFrame

\* A conversation keeps the loop alive even when its reply was not delivered.
RouteConversation ==
  /\ pc = "route"
  /\ turn.text \in Anything \union {"chat"}
  /\ confirmation' = <<>>
  /\ followUp' = NoFollowUp
  /\ Say("none", "keep")
  /\ UNCHANGED <<clarify, toStandby, sessionVars>> /\ HandleFrame

_ask_for_confirmation ==
  /\ pc = "route"
  /\ turn.text = "suggest"
  /\ confirmation' \in Suggestions
  /\ Say("confirmation", "delivered")
  /\ UNCHANGED <<followUp, clarify, toStandby, sessionVars>> /\ HandleFrame

IncompleteQuery ==
  /\ pc = "route"
  /\ turn.text \in {"no_topic", "cut_off"}
  /\ followUp' = [Ask("clarification_repeat") EXCEPT !.detail = TRUE]
  /\ Say("topic", "delivered")
  /\ UNCHANGED <<confirmation, clarify, toStandby, sessionVars>> /\ HandleFrame

\* A question pending here was put there by a timer since the text was heard.
UnclearWhilePending ==
  /\ pc = "route"
  /\ turn.text \in Anything \union {"unclear"}
  /\ Pending
  /\ Say("none", "keep")
  /\ UNCHANGED <<pendingVars, clarify, toStandby, sessionVars>> /\ HandleFrame

\* Mutant: the retry count of the question just answered is not taken over.
UnclearForgettingRetries ==
  /\ pc = "route"
  /\ turn.text \in Anything \union {"unclear"}
  /\ ~Pending
  /\ clarify' = <<>>
  /\ followUp' = Ask("clarification_repeat")
  /\ Say("clarification_repeat", "delivered")
  /\ UNCHANGED <<confirmation, toStandby, sessionVars>> /\ HandleFrame

\* Ask to repeat, or give up after the last retry.
handle_unclear_route ==
  /\ pc = "route"
  /\ turn.text \in Anything \union {"unclear"}
  /\ ~Pending
  /\ clarify' = <<>>
  /\ IF clarify # <<>> /\ Head(clarify) >= MaxRetries
     THEN /\ toStandby' = TRUE
          /\ Say("none", "delivered")
          /\ UNCHANGED followUp
     ELSE /\ followUp' = [Ask("clarification_repeat") EXCEPT
                            !.retries = IF clarify = <<>> THEN 0 ELSE Head(clarify) + 1]
          /\ Say("clarification_repeat", "delivered")
          /\ UNCHANGED toStandby
  /\ UNCHANGED <<confirmation, sessionVars>> /\ HandleFrame

-----------------------------------------------------------------------------
(* Notifications.                                                            *)

OfferOf(n) == CASE n = "focus_timer" -> "focus_extend_offer"
                [] n = "break_timer" -> "break_extend_offer"
                [] OTHER             -> "none"

Move(n, from, to) ==
  /\ notice[n] = from
  /\ notice' = [notice EXCEPT ![n] = to]

\* Whatever question is pending, a finished timer puts its own in its place.
_on_timer_finished(n) ==
  /\ Move(n, "idle", "check")
  /\ followUp' = IF OfferOf(n) = "none" THEN followUp ELSE Ask(OfferOf(n))
  /\ UNCHANGED <<pc, turn, confirmation, flagVars, sessionVars, loopVars, kept, speaker,
                 historyVars>>

deliver_async_notification(n) ==
  /\ Move(n, "check", "clear")
  /\ kept' = [kept EXCEPT ![n] = Pending]
  /\ UNCHANGED <<pc, turn, pendingVars, flagVars, sessionVars, loopVars, speaker,
                 historyVars>>

\* A question asked since the check goes with the rest.
clear_interaction_context(n) ==
  /\ Move(n, "clear", "show")
  /\ followUp' = IF kept[n] THEN followUp ELSE NoFollowUp
  /\ confirmation' = IF kept[n] THEN confirmation ELSE <<>>
  /\ told' = IF kept[n] THEN told ELSE [told EXCEPT !.repeats = 0]
  /\ vstate' = "standby"
  /\ window' = (window /\ kept[n])
  /\ UNCHANGED <<pc, turn, flagVars, loopVars, kept, speaker, turns>>

_speak_notification(n) ==
  \/ /\ Move(n, "show", "wait")
     /\ vstate' = "speaking"
     /\ UNCHANGED <<speaker, told>>
  \/ /\ Move(n, "wait", "speaking")
     /\ speaker = Nobody
     /\ speaker' = n
     /\ UNCHANGED <<vstate, told>>
  \/ /\ Move(n, "speaking", "settle")
     /\ speaker' = Nobody
     /\ told' = IF OfferOf(n) = "none" THEN told ELSE [told EXCEPT !.last = OfferOf(n)]
     /\ UNCHANGED vstate

\* Mutant: the session is left as it was.
LeaveSpeaking(n) ==
  /\ Move(n, "settle", "done")
  /\ window' = FALSE
  /\ UNCHANGED vstate

\* Standby and a closed window, whatever the main thread has opened meanwhile.
return_to_standby(n) ==
  /\ Move(n, "settle", "done")
  /\ window' = FALSE
  /\ vstate' = "standby"

Notify(n) ==
  \/ n \in Notices /\ _on_timer_finished(n)
  \/ deliver_async_notification(n)
  \/ clear_interaction_context(n)
  \/ /\ _speak_notification(n)
     /\ UNCHANGED <<pc, turn, pendingVars, flagVars, window, loopVars, kept, turns>>
  \/ /\ return_to_standby(n)
     /\ UNCHANGED <<pc, turn, pendingVars, flagVars, loopVars, kept, speaker, historyVars>>

\* The announced timer is running: handle_command returns TRUE.
Announced ==
  /\ pc = "announce"
  /\ notice[Main] = "done"
  /\ pc' = "rearm"
  /\ notice' = [notice EXCEPT ![Main] = "idle"]
  /\ delivered' = FALSE
  /\ turn' = [turn EXCEPT !.ok = FALSE]
  /\ UNCHANGED <<pendingVars, clarify, toStandby, shutdownRequested, sessionVars,
                 loopVars, kept, speaker, historyVars>>

-----------------------------------------------------------------------------
HandleStep ==
  \/ Dispatch
  \/ _cancel_active_request
  \/ _clear_stale_dialogue_follow_up
  \/ ReadFollowUp
  \/ interrupt_with_new_intent
  \/ handle_pending_confirmation
  \/ NothingPending
  \/ _handle_clarification_repeat_follow_up
  \/ _handle_conversation_repair_follow_up
  \/ AnswerQuestion
  \/ Execute
  \/ RouteCommand
  \/ RouteConversation
  \/ _ask_for_confirmation
  \/ IncompleteQuery
  \/ UnclearWhilePending
  \/ handle_unclear_route

\* What the main thread does by itself: all but hearing something.
MainStep ==
  \/ WaitForOutput \/ Top \/ Standby \/ Prime \/ Listen
  \/ _handle_no_speech_capture \/ _handle_ignored_active_transcript \/ Rewake
  \/ _return_to_wake_gate
  \/ _handle_incomplete_open_dialogue_capture
  \/ BeginReply \/ TakeVoice \/ FinishTurn \/ Decide \/ _start_window
  \/ \E ok \in BOOLEAN : EndVoice(ok)
  \/ HandleStep
  \/ Announced

Next ==
  \/ MainStep
  \/ Wake
  \/ \E u \in Utterances : Hear(u)
  \/ \E n \in Deliverers : Notify(n)

\* Threads run; speech and recordings end; nobody has to speak, no timer to
\* finish.
Fairness ==
  /\ WF_vars(MainStep)
  /\ \A n \in Deliverers : WF_vars(notice[n] # "idle" /\ Notify(n))

Spec == Init /\ [][Next]_vars /\ Fairness

-----------------------------------------------------------------------------
MainPCs == {"top", "standby", "gate", "prime", "reprime", "listen", "capture", "heard",
            "to_gate", "dispatch", "handle", "answer", "route", "execute", "reply",
            "voice", "speaking", "finish", "announce", "rearm", "follow_up", "grace", "off"}

Questions == QuestionTypes \union {"none", "confirmation", "topic"}

Turns == [text : Texts, main : Questions, last : Questions, asked : FollowUps,
          says : Questions, does : Effects,
          returns : {"delivered", "keep", "exit", "repair"}, ok : BOOLEAN]

TypeOK ==
  /\ pc \in MainPCs
  /\ turn \in Turns
  /\ followUp \in FollowUps
  /\ confirmation \in Suggestions \union {<<>>}
  /\ clarify \in {<<>>} \union {<<r>> : r \in 0..MaxRetries}
  /\ {toStandby, shutdownRequested, window, delivered} \subseteq BOOLEAN
  /\ vstate \in {"standby", "wake_detected", "listening", "transcribing", "routing",
                 "speaking", "shutdown"}
  /\ phase \in {"command", "follow_up", "grace"}
  /\ attempts \in [empty : 0..4, ignored : 0..4]
  /\ notice \in [Deliverers -> {"idle", "check", "clear", "show", "wait", "speaking",
                               "settle", "done"}]
  /\ kept \in [Deliverers -> BOOLEAN]
  /\ speaker \in Deliverers \union {Nobody}
  /\ told \in [main : Questions, last : Questions, repeats : Nat]
  /\ turns \in 0..MaxTurns

\* A reply is taken as the answer to a question only if that question is the
\* last thing the main thread said, unless a timer has put its offer in since:
\* every command, cancellation or other question in between takes the pending
\* one away (interaction_mixin.py:117, confirmation_mixin.py:35).  So memory is
\* not cleared by a yes after "what time is it".
AnsweredAsAsked ==
  pc = "answer" /\ turn.asked.type \notin TimerOffers \union Repairs
    => turn.main = turn.asked.type

\* While the main thread waits for the wake phrase and no notification is under
\* way, the session is in standby with its window closed: every delivery leaves
\* it so, however it met the main thread (internals.py:196-224).
RestingState ==
  pc = "gate" /\ (\A n \in Deliverers : notice[n] \in {"idle", "done"})
    => vstate = "standby" /\ ~window

\* The wish to return to standby after a reply serves that reply only: it is
\* never left for the next utterance (resume_policy.py:48-49).
StandbyServesOneTurn ==
  pc \in {"top", "standby", "gate", "prime", "reprime", "listen", "capture", "heard"}
    => ~toStandby

\* The user is not asked to repeat a text for ever: the retry count travels from
\* the question through its answer to the next question (follow_up_mixin.py:285,
\* dialogue_flow/orchestrator.py:252-283), so that after MaxRetries + 1 requests
\* in a row the assistant gives up.
RepeatsBounded == told.repeats <= MaxRetries + 1

\* Unless the user keeps talking, the assistant comes back to the wake gate (or
\* ends): no window is retried for ever and nobody waits for a voice for ever.
BackToGate == []<>(pc \in {"gate", "off"})

(* What the documents say and the code does not do.                          *)

\* docs/troubleshooting.md:4049 calls it a safety bug "if memory delete or clear
\* runs without confirmation": what cannot be taken back is done on a yes to its
\* own question, the last one the user was asked.
DestructiveOnlyIfConfirmed ==
  turn.does \in {Destructive[t] : t \in DOMAIN Destructive}
    => turn.text = "yes" /\ turn.last = turn.asked.type

\* resume_policy.py:31 promises "a short grace window open for natural continued
\* conversation": after a reply that was delivered and asks nothing.
GraceAfterReply ==
  [][/\ pc = "rearm" /\ pc' # "rearm"
     /\ turn.ok /\ ~Pending /\ ~toStandby /\ ~shutdownRequested
     => pc' = "grace"]_vars

\* notification_flow/delivery.py:54-57 says that notifications "must also
\* preserve an active confirmation/follow-up conversation": a step of a
\* notification leaves the window of a pending question open.
ConversationPreserved ==
  [][notice' # notice /\ Pending /\ window => window']_vars
===============================================================================
