-------------------------- MODULE ConversationProofs --------------------------
(***************************************************************************)
(* Theorems about Conversation, for any deliveries, utterances, guesses    *)
(* and number of turns.                                                    *)
(***************************************************************************)
EXTENDS Conversation, TLAPS

USE DEF Main, Nobody

-----------------------------------------------------------------------------
(* What the answers of module PendingFlow are.                               *)

\* An answer that does something leaves no question, and none asks to repeat.
Answers == {o \in Outcomes : /\ o.does # "nothing" => o.writes /\ o.next.type = "none"
                             /\ o.next.type # "clarification_repeat"}

Asked == (QuestionTypes \ Repairs) \union {"none"}

\* A question by name.
LEMMA AskType == ASSUME NEW t \in QuestionTypes \union {"none"}
                 PROVE  /\ Ask(t) \in FollowUps
                        /\ Ask(t).type = t
                        /\ NoFollowUp \in FollowUps
                        /\ NoFollowUp.type = "none"
<1>1. NoFollowUp \in FollowUps /\ NoFollowUp.type = "none"
  BY DEF NoFollowUp, FollowUps, MaxRetries
<1> QED BY <1>1 DEF Ask, FollowUps

LEMMA SettleType == ASSUME NEW e \in Effects PROVE {Settle(e)} \subseteq Answers
  BY DEF Settle, Answers, Outcomes, NoFollowUp, FollowUps, MaxRetries

LEMMA AskAgainType == {AskAgain} \subseteq Answers
  BY DEF AskAgain, Answers, Outcomes, NoFollowUp, FollowUps, MaxRetries, Effects

LEMMA AskNextType == ASSUME NEW t \in Asked PROVE {AskNext(Ask(t))} \subseteq Answers
  BY AskType DEF AskNext, Answers, Outcomes, Effects, Asked, Repairs

LEMMA StartTimerType == StartTimer \subseteq Answers
  BY SettleType DEF StartTimer, Effects

LEMMA YesOrNoType ==
  ASSUME NEW reply, NEW t \in Asked, NEW u \in Asked
  PROVE  YesOrNo(reply, t, u) \subseteq Answers
  BY AskNextType, AskAgainType DEF YesOrNo

LEMMA SaveOrType == ASSUME NEW e \in Effects, NEW others, others \subseteq Answers
                    PROVE  SaveOr(e, others) \subseteq Answers
  BY SettleType DEF SaveOr, Effects

LEMMA OnYesType == ASSUME NEW e \in Effects, NEW reply
                   PROVE  OnYes(e, reply) \subseteq Answers
  BY SettleType, AskAgainType DEF OnYes, Effects

\* Every answer to every question leaves a question of the known types, and does
\* one of the known things; if it does anything, no question is left.
LEMMA AnswerType ==
  ASSUME NEW q \in FollowUps, q.type \notin Repairs \union {"none"},
         NEW reply \in Replies, NEW found \in BOOLEAN
  PROVE  handle_pending_follow_up(q, reply, found) \subseteq Answers
<1> DEFINE H == handle_pending_follow_up(q, reply, found)
<1>1. CASE q.type \in Durations
  BY <1>1, StartTimerType, AskAgainType
     DEF handle_pending_follow_up, _handle_duration_follow_up, Durations
<1>2. CASE q.type \in Offers
  <2> SUFFICES ASSUME NEW t \in {"focus_duration", "break_duration", "none",
                                 "post_focus_break_offer", "break_to_focus_offer"}
               PROVE  t \in Asked
    BY <1>2, StartTimerType, YesOrNoType
       DEF handle_pending_follow_up, Offers, TimerOffers, Durations,
           _handle_focus_extend_offer, _handle_focus_start_offer,
           _handle_break_extend_offer, _handle_break_to_focus_offer,
           _handle_post_focus_break_offer
  <2> QED BY DEF Asked, QuestionTypes, Durations, Offers, Repairs
<1>3. CASE q.type \in Contents
  <2>1. {"confirm_save_name", "reminder_message"} \subseteq Asked
    BY DEF Asked, QuestionTypes, Confirmations, Contents, Repairs
  <2>2. {"save_memory", "save_reminder", "nothing"} \subseteq Effects
    BY DEF Effects
  <2> QED
    BY <1>3, <2>1, <2>2, SaveOrType, AskAgainType, AskNextType, SettleType
       DEF handle_pending_follow_up, Contents, Durations,
           _handle_reminder_time_follow_up, _handle_reminder_message_follow_up,
           _handle_memory_message_follow_up, _handle_memory_person_name_follow_up,
           _handle_memory_object_name_follow_up, _handle_capture_name
<1>4. CASE q.type \in Confirmations
  <2>1. {"save_name", "clear_memory", "clear_reminders", "delete_reminder", "nothing",
         "exit", "shut_down"} \subseteq Effects
    BY DEF Effects
  <2> QED
    BY <1>4, <2>1, OnYesType
       DEF handle_pending_follow_up, Confirmations, Durations,
           _handle_confirm_save_name, _handle_confirm_memory_clear,
           _handle_confirm_reminders_clear, _handle_confirm_reminder_delete,
           _handle_confirm_exit, _handle_confirm_shutdown
<1> QED BY <1>1, <1>2, <1>3, <1>4 DEF FollowUps, QuestionTypes

-----------------------------------------------------------------------------
(* Types.                                                                    *)

\* The counters pass their limit only on the way to the wake gate, and the
\* question that is answered is one.
TypeInv ==
  /\ TypeOK
  /\ pc # "to_gate" => attempts \in [empty : 0..3, ignored : 0..3]
  /\ pc = "answer" => turn.asked.type # "none"

LEMMA NoTurnType == NoTurn \in Turns
  BY AskType DEF NoTurn, Turns, Texts, Questions, Effects

LEMMA TypeInit == Init => TypeInv
<1> SUFFICES ASSUME Init PROVE TypeInv
  OBVIOUS
<1> USE DEF Init, TypeOK
<1>1. turn \in Turns /\ followUp \in FollowUps
  BY NoTurnType, AskType
<1>2. told \in [main : Questions, last : Questions, repeats : Nat]
  BY DEF NothingTold, Questions
<1>3. attempts \in [empty : 0..3, ignored : 0..3] /\ attempts \in [empty : 0..4, ignored : 0..4]
  BY DEF NoAttempts
<1>4. {toStandby, shutdownRequested, window, delivered} \subseteq BOOLEAN
  OBVIOUS
<1>5. /\ notice \in [Deliverers -> {"idle", "check", "clear", "show", "wait", "speaking",
                                  "settle", "done"}]
      /\ kept \in [Deliverers -> BOOLEAN]
  OBVIOUS
<1>6. turns \in 0..MaxTurns
  BY ConversationAssumption
<1>7. pc # "answer" /\ pc \in MainPCs
  BY DEF MainPCs
<1> QED
  BY <1>1, <1>2, <1>3, <1>4, <1>5, <1>6, <1>7 DEF TypeInv

\* Members of the types that steps put in by name.
LEMMA Members ==
  /\ {"none", "confirmation", "topic", "clarification_repeat",
      "conversation_repair"} \subseteq Questions
  /\ "chat" \in Texts /\ Commands \subseteq Texts
  /\ "nothing" \in Effects
  /\ {"clarification_repeat", "conversation_repair"} \subseteq QuestionTypes
  /\ QuestionTypes \subseteq Questions
  BY DEF Questions, QuestionTypes, Repairs, Texts, Effects

\* A reply leaves the turn a turn.
LEMMA SayType ==
  ASSUME turn \in Turns, NEW q \in Questions, NEW d \in Effects,
         NEW r \in {"delivered", "keep", "exit", "repair"}, SayDone(q, r, d)
  PROVE  turn' \in Turns /\ pc' = "reply"
  BY DEF SayDone, Turns

\* The questions the commands ask.
LEMMA QuestionOfType ==
  ASSUME NEW c \in DOMAIN QuestionOf
  PROVE  QuestionOf[c] \in FollowUps /\ QuestionOf[c].type \in QuestionTypes \ Repairs
<1>1. {"focus_start_offer", "focus_duration", "break_duration", "reminder_time",
       "memory_message", "memory_person_name", "memory_object_name",
       "confirm_memory_clear", "confirm_reminders_clear", "confirm_reminder_delete",
       "confirm_shutdown"} \subseteq QuestionTypes \ Repairs
  BY DEF QuestionTypes, Offers, Durations, Contents, Confirmations, Repairs
<1>2. Ask("reminder_time") \in FollowUps /\ Ask("reminder_time").type = "reminder_time"
  BY <1>1, AskType
<1>3. /\ [Ask("reminder_time") EXCEPT !.detail = TRUE] \in FollowUps
      /\ [Ask("reminder_time") EXCEPT !.detail = TRUE].type = "reminder_time"
  BY <1>2 DEF FollowUps
<1>4. CASE c = "focus_offer"
  BY <1>1, <1>3, <1>4, AskType DEF QuestionOf
<1>5. CASE c = "focus_start"
  BY <1>1, <1>3, <1>5, AskType DEF QuestionOf
<1>6. CASE c = "break_start"
  BY <1>1, <1>3, <1>6, AskType DEF QuestionOf
<1>7. CASE c = "reminder_create"
  BY <1>1, <1>3, <1>7, AskType DEF QuestionOf
<1>8. CASE c = "reminder_at"
  BY <1>1, <1>3, <1>8, AskType DEF QuestionOf
<1>9. CASE c = "memory_store"
  BY <1>1, <1>3, <1>9, AskType DEF QuestionOf
<1>10. CASE c = "remember_person"
  BY <1>1, <1>3, <1>10, AskType DEF QuestionOf
<1>11. CASE c = "remember_object"
  BY <1>1, <1>3, <1>11, AskType DEF QuestionOf
<1>12. CASE c = "memory_clear"
  BY <1>1, <1>3, <1>12, AskType DEF QuestionOf
<1>13. CASE c = "reminders_clear"
  BY <1>1, <1>3, <1>13, AskType DEF QuestionOf
<1>14. CASE c = "reminder_delete"
  BY <1>1, <1>3, <1>14, AskType DEF QuestionOf
<1>15. CASE c = "shutdown"
  BY <1>1, <1>3, <1>15, AskType DEF QuestionOf
<1> QED BY <1>4, <1>5, <1>6, <1>7, <1>8, <1>9, <1>10, <1>11, <1>12, <1>13, <1>14, <1>15 DEF QuestionOf

\* A guess is a command.
LEMMA GuessType == ASSUME NEW s \in Suggestions, NEW i \in 1..Len(s) PROVE s[i] \in Commands
  BY ConversationAssumption

\* The question for a topic.
LEMMA AskTopicType ==
  /\ [Ask("clarification_repeat") EXCEPT !.detail = TRUE] \in FollowUps
  /\ [Ask("clarification_repeat") EXCEPT !.detail = TRUE].type = "clarification_repeat"
<1>1. Ask("clarification_repeat") \in FollowUps /\ Ask("clarification_repeat").type = "clarification_repeat"
  BY Members, AskType
<1> QED BY <1>1 DEF FollowUps

\* A repeated request to repeat.
LEMMA AskRepeatType ==
  ASSUME NEW r \in 0..MaxRetries
  PROVE  /\ [Ask("clarification_repeat") EXCEPT !.retries = r] \in FollowUps
         /\ [Ask("clarification_repeat") EXCEPT !.retries = r].type = "clarification_repeat"
<1>1. Ask("clarification_repeat") \in FollowUps /\ Ask("clarification_repeat").type = "clarification_repeat"
  BY Members, AskType
<1> QED BY <1>1 DEF FollowUps

LEMMA NoAttemptsType ==
  /\ NoAttempts \in [empty : 0..3, ignored : 0..3]
  /\ NoAttempts \in [empty : 0..4, ignored : 0..4]
  BY DEF NoAttempts

LEMMA TypeNext == TypeInv /\ [Next]_vars => TypeInv'
<1> SUFFICES ASSUME TypeInv, [Next]_vars PROVE TypeInv'
  OBVIOUS
<1> USE DEF TypeInv, TypeOK, MainPCs, pendingVars, flagVars, sessionVars, loopVars,
            noticeVars, historyVars, HandleFrame
<1>1. CASE WaitForOutput
  BY <1>1 DEF WaitForOutput
<1>2. CASE Top
  BY <1>2 DEF Top
<1>3. CASE Standby
  BY <1>3 DEF Standby
<1>4. CASE Wake
  BY <1>4 DEF Wake
<1>5. CASE Prime
  BY <1>5, NoTurnType, NoAttemptsType DEF Prime, OpenWindow
<1>6. CASE Listen
  BY <1>6 DEF Listen
<1>7. CASE _handle_no_speech_capture
  BY <1>7 DEF _handle_no_speech_capture, Retry, RetryLimit
<1>8. CASE _handle_ignored_active_transcript
  BY <1>8 DEF _handle_ignored_active_transcript, Retry, RetryLimit
<1>9. CASE Rewake
  BY <1>9 DEF Rewake
<1>10. CASE _return_to_wake_gate
  BY <1>10, NoTurnType, NoAttemptsType DEF _return_to_wake_gate
<1>11. CASE _handle_incomplete_open_dialogue_capture
  BY <1>11, SayType, Members, AskType, NoAttemptsType DEF _handle_incomplete_open_dialogue_capture, Say
<1>12. CASE BeginReply
  BY <1>12 DEF BeginReply
<1>13. CASE TakeVoice
  BY <1>13 DEF TakeVoice, Deliverers
<1>14. CASE FinishTurn
  BY <1>14 DEF FinishTurn
<1>15. CASE Decide
  BY <1>15, NoTurnType DEF Decide
<1>16. CASE _start_window
  BY <1>16, NoAttemptsType DEF _start_window, OpenWindow
<1>17. CASE Announced
  BY <1>17 DEF Announced, Deliverers, Turns
<1>18. CASE Dispatch
  BY <1>18, NoAttemptsType DEF Dispatch
<1>19. CASE _cancel_active_request
  BY <1>19, SayType, Members, AskType DEF _cancel_active_request, Say
<1>20. CASE _clear_stale_dialogue_follow_up
  BY <1>20, AskType DEF _clear_stale_dialogue_follow_up
<1>21. CASE ReadFollowUp
  BY <1>21 DEF ReadFollowUp, Turns
<1>22. CASE interrupt_with_new_intent
  BY <1>22, AskType DEF interrupt_with_new_intent
<1>23. CASE NothingPending
  BY <1>23 DEF NothingPending
<1>24. CASE _handle_conversation_repair_follow_up
  BY <1>24, SayType, Members, AskType DEF _handle_conversation_repair_follow_up, Say, HandleAsDialogue, Turns
<1>25. CASE RouteCommand
  BY <1>25, AskType DEF RouteCommand
<1>26. CASE RouteConversation
  BY <1>26, SayType, Members, AskType DEF RouteConversation, Say
<1>27. CASE _ask_for_confirmation
  BY <1>27, SayType, Members DEF _ask_for_confirmation, Say
<1>28. CASE IncompleteQuery
  BY <1>28, SayType, Members, AskTopicType DEF IncompleteQuery, Say
<1>29. CASE UnclearWhilePending
  BY <1>29, SayType, Members DEF UnclearWhilePending, Say
<1>30. ASSUME NEW u \in Utterances, Hear(u) PROVE TypeInv'
  <2>1. turn' \in Turns
    BY <1>30, NoTurnType, ConversationAssumption DEF Hear, Turns
  <2>2. turns' \in 0..MaxTurns
    BY <1>30, ConversationAssumption DEF Hear
  <2> QED BY <1>30, <2>1, <2>2 DEF Hear
<1>31. ASSUME NEW ok \in BOOLEAN, EndVoice(ok) PROVE TypeInv'
  <2>1. turn' \in Turns
    BY <1>31 DEF EndVoice, Turns
  <2>2. told' \in [main : Questions, last : Questions, repeats : Nat]
    BY <1>31 DEF EndVoice, Told, Turns
  <2> QED BY <1>31, <2>1, <2>2 DEF EndVoice
<1>32. ASSUME NEW n \in Deliverers, Notify(n) PROVE TypeInv'
  <2>1. OfferOf(n) \in Questions /\ Ask(OfferOf(n)) \in FollowUps /\ NoFollowUp \in FollowUps
    BY AskType DEF OfferOf, Questions, QuestionTypes, Offers, TimerOffers
  <2>2. CASE _on_timer_finished(n)
    BY <2>1, <2>2 DEF _on_timer_finished, Move
  <2>3. CASE deliver_async_notification(n)
    BY <2>3 DEF deliver_async_notification, Move, Pending
  <2>4. CASE clear_interaction_context(n)
    BY <2>1, <2>4 DEF clear_interaction_context, Move
  <2>5. CASE /\ _speak_notification(n)
            /\ UNCHANGED <<pc, turn, pendingVars, flagVars, window, loopVars, kept, turns>>
    BY <2>1, <2>5 DEF _speak_notification, Move
  <2>6. CASE /\ return_to_standby(n)
            /\ UNCHANGED <<pc, turn, pendingVars, flagVars, loopVars, kept, speaker, historyVars>>
    BY <2>6 DEF return_to_standby, Move
  <2> QED BY <1>32, <2>2, <2>3, <2>4, <2>5, <2>6 DEF Notify
<1>33. CASE handle_pending_confirmation
  <2>1. turn' \in Turns
    <3>1. ASSUME NEW i \in 1..Len(confirmation), confirmation \in Suggestions,
                 turn' = [turn EXCEPT !.text = confirmation[i]]
          PROVE  turn' \in Turns
      BY <3>1, GuessType, Members DEF Turns
    <3>2. confirmation \in Suggestions /\ Len(confirmation) \in Nat
      BY <1>33, ConversationAssumption DEF handle_pending_confirmation
    <3> QED BY <1>33, <3>1, <3>2, SayType, Members DEF handle_pending_confirmation, Say
  <2> QED BY <1>33, <2>1 DEF handle_pending_confirmation, Say, SayDone
<1>34. CASE _handle_clarification_repeat_follow_up
  <2>1. turn' \in Turns
    BY <1>34, SayType, Members DEF _handle_clarification_repeat_follow_up, Say, HandleAsDialogue, Turns
  <2>2. followUp' \in FollowUps
    <3>1. turn.asked \in FollowUps
      BY DEF Turns
    <3>2. CASE followUp' = [turn.asked EXCEPT !.retries = @ + 1] /\ turn.asked.retries < MaxRetries
      BY <3>1, <3>2 DEF FollowUps, MaxRetries
    <3> QED BY <1>34, <3>2, AskType DEF _handle_clarification_repeat_follow_up
  <2>3. clarify' \in {<<>>} \union {<<r>> : r \in 0..MaxRetries}
    BY <1>34 DEF _handle_clarification_repeat_follow_up, Turns, FollowUps
  <2> QED BY <1>34, <2>1, <2>2, <2>3 DEF _handle_clarification_repeat_follow_up, Say, SayDone, HandleAsDialogue
<1>35. CASE AnswerQuestion
  <2>1. PICK o \in handle_pending_follow_up(turn.asked, Reply, followUp.type = turn.asked.type) :
          /\ followUp' = IF o.writes THEN o.next ELSE followUp
          /\ shutdownRequested' = (shutdownRequested \/ o.does = "shut_down")
          /\ IF o.does = "start_timer"
             THEN Announce
             ELSE /\ SayDone(IF o.writes THEN o.next.type ELSE turn.asked.type,
                             IF o.does \in {"exit", "shut_down"} THEN "exit" ELSE "delivered",
                             o.does)
                  /\ UNCHANGED notice
    BY <1>35 DEF AnswerQuestion
  <2>2. o \in Answers /\ turn.asked \in FollowUps
    <3>1. turn.asked \in FollowUps /\ turn.asked.type \notin Repairs \union {"none"}
      BY <1>35 DEF AnswerQuestion, Turns
    <3>2. Reply \in Replies
      BY DEF Reply, Replies
    <3> QED BY <3>1, <3>2, AnswerType
  <2>3. turn' \in Turns /\ pc' \in {"announce", "reply"}
    <3>1. (IF o.writes THEN o.next.type ELSE turn.asked.type) \in Questions
      BY <2>2 DEF Answers, Outcomes, FollowUps, Questions
    <3>2. o.does \in Effects
      BY <2>2 DEF Answers, Outcomes
    <3> QED BY <2>1, <3>1, <3>2, SayType DEF Announce
  <2>4. /\ followUp' \in FollowUps
        /\ shutdownRequested' \in BOOLEAN
        /\ notice' \in [Deliverers -> {"idle", "check", "clear", "show", "wait", "speaking",
                                        "settle", "done"}]
    BY <2>1, <2>2 DEF Answers, Outcomes, Announce
  <2> QED BY <1>35, <2>3, <2>4 DEF AnswerQuestion
<1>36. CASE Execute
  <2>1. turn' \in Turns /\ pc' \in {"announce", "reply"}
    BY <1>36, SayType, Members, QuestionOfType DEF Execute, Say, Announce
  <2>2. /\ followUp' \in FollowUps
        /\ confirmation' \in Suggestions \union {<<>>}
        /\ notice' \in [Deliverers -> {"idle", "check", "clear", "show", "wait", "speaking",
                                        "settle", "done"}]
    <3>1. CASE turn.text \in DOMAIN QuestionOf /\ followUp' = QuestionOf[turn.text]
      BY <1>36, <3>1, QuestionOfType DEF Execute, Announce
    <3> QED BY <1>36, <3>1, AskType DEF Execute, Announce, Deliverers
  <2> QED BY <1>36, <2>1, <2>2 DEF Execute
<1>37. CASE handle_unclear_route
  <2>1. turn' \in Turns /\ pc' = "reply"
    BY <1>37, SayType, Members DEF handle_unclear_route, Say
  <2>2. ASSUME clarify # <<>>, ~ (Head(clarify) >= MaxRetries)
        PROVE  Head(clarify) + 1 \in 0..MaxRetries
    BY <2>2 DEF MaxRetries
  <2>3. followUp' \in FollowUps
    BY <1>37, <2>2, AskRepeatType DEF handle_unclear_route, MaxRetries
  <2> QED BY <1>37, <2>1, <2>3 DEF handle_unclear_route
<1>38. CASE UNCHANGED vars
  BY <1>38 DEF vars
<1> QED
  BY <1>1, <1>2, <1>3, <1>4, <1>5, <1>6, <1>7, <1>8, <1>9, <1>10, <1>11, <1>12, <1>13, <1>14, <1>15, <1>16, <1>17, <1>18, <1>19, <1>20, <1>21, <1>22, <1>23, <1>24, <1>25, <1>26, <1>27, <1>28, <1>29, <1>30, <1>31, <1>32, <1>33, <1>34, <1>35, <1>36, <1>37, <1>38
     DEF Next, MainStep, HandleStep

\* Every value has its type, whatever the timers do (run Conversation).
THEOREM TypeCorrect == Spec => []TypeOK
<1>1. Spec => []TypeInv
  BY TypeInit, TypeNext, PTL DEF Spec
<1> QED BY <1>1, PTL DEF TypeInv

LEMMA TypeAlways == Spec => []TypeInv
  BY TypeInit, TypeNext, PTL DEF Spec

-----------------------------------------------------------------------------
(* The wish to return to standby.                                            *)

\* What a reply says of itself.
LEMMA SayWhat ==
  ASSUME turn \in Turns, NEW q, NEW d, NEW r, SayDone(q, r, d)
  PROVE  /\ pc' = "reply"
         /\ turn'.says = q /\ turn'.returns = r
         /\ turn'.asked = turn.asked /\ turn'.main = turn.main
  BY DEF SayDone, Turns

Replying == {"reply", "voice", "speaking", "finish"}

\* The wish is made with a reply, and Decide takes it back; only a reply that
\* ends the loop leaves Decide out, and only that one follows a shutdown.
StandbyInv ==
  /\ toStandby => pc \in Replying \union {"rearm", "off"}
  /\ toStandby /\ pc \in Replying => turn.returns # "repair"
  /\ shutdownRequested => pc = "off" \/ (pc \in Replying /\ turn.returns = "exit")

LEMMA StandbyNext == TypeInv /\ StandbyInv /\ [Next]_vars => StandbyInv'
<1> SUFFICES ASSUME TypeInv, StandbyInv, [Next]_vars PROVE StandbyInv'
  OBVIOUS
<1> USE DEF StandbyInv, Replying, pendingVars, flagVars, sessionVars, loopVars,
            noticeVars, historyVars, HandleFrame
<1>0. /\ turn \in Turns
      /\ toStandby \in BOOLEAN /\ shutdownRequested \in BOOLEAN
  BY DEF TypeInv, TypeOK
<1>1. CASE WaitForOutput \/ Standby \/ Listen \/ Wake \/ Rewake
  BY <1>0, <1>1 DEF WaitForOutput, Standby, Listen, Wake, Rewake
<1>2. CASE Top
  <2>1. pc = "top" /\ pc' \in {"listen", "standby"} /\ UNCHANGED <<turn, toStandby, shutdownRequested>>
    BY <1>2 DEF Top
  <2> QED BY <2>1
<1>3. CASE Prime
  BY <1>0, <1>3 DEF Prime, OpenWindow
<1>4. CASE \E u \in Utterances : Hear(u)
  BY <1>4 DEF Hear
<1>5. CASE \/ _handle_no_speech_capture \/ _handle_ignored_active_transcript
           \/ _return_to_wake_gate \/ _start_window
  BY <1>5 DEF _handle_no_speech_capture, _handle_ignored_active_transcript, Retry,
              _return_to_wake_gate, _start_window, OpenWindow
<1>6. CASE _handle_incomplete_open_dialogue_capture
  BY <1>0, <1>6 DEF _handle_incomplete_open_dialogue_capture, Say, SayDone, Turns
<1>7. CASE BeginReply \/ TakeVoice \/ \E ok \in BOOLEAN : EndVoice(ok)
  BY <1>0, <1>7 DEF BeginReply, TakeVoice, EndVoice, Turns
<1>8. CASE FinishTurn
  BY <1>0, <1>8 DEF FinishTurn, Continues
<1>9. CASE Decide \/ Announced
  BY <1>0, <1>9 DEF Decide, Announced
<1>10. CASE Dispatch \/ _clear_stale_dialogue_follow_up \/ ReadFollowUp
           \/ interrupt_with_new_intent \/ NothingPending \/ RouteCommand
  BY <1>0, <1>10 DEF Dispatch, _clear_stale_dialogue_follow_up, ReadFollowUp,
                    interrupt_with_new_intent, NothingPending, RouteCommand
<1>11. CASE _cancel_active_request \/ RouteConversation \/ _ask_for_confirmation
           \/ IncompleteQuery \/ UnclearWhilePending
  BY <1>0, <1>11 DEF _cancel_active_request, RouteConversation, _ask_for_confirmation,
                    IncompleteQuery, UnclearWhilePending, Say, SayDone, Turns
<1>12. CASE handle_pending_confirmation \/ _handle_conversation_repair_follow_up
  BY <1>0, <1>12 DEF handle_pending_confirmation, _handle_conversation_repair_follow_up,
                     HandleAsDialogue, Say, SayDone, Turns
<1>13. CASE _handle_clarification_repeat_follow_up
  <2>1. ~toStandby /\ ~shutdownRequested /\ ~shutdownRequested'
    BY <1>0, <1>13 DEF _handle_clarification_repeat_follow_up
  <2>2. CASE Say("none", "delivered")
    BY <1>0, <2>1, <2>2, SayWhat DEF Say
  <2>3. CASE toStandby' = toStandby
    BY <1>0, <2>1, <2>3
  <2> QED BY <1>13, <2>2, <2>3 DEF _handle_clarification_repeat_follow_up
<1>14. CASE handle_unclear_route
  BY <1>0, <1>14 DEF handle_unclear_route, Say, SayDone, Turns
<1>15. CASE AnswerQuestion
  <2>1. PICK o \in handle_pending_follow_up(turn.asked, Reply, followUp.type = turn.asked.type) :
          /\ shutdownRequested' = (shutdownRequested \/ o.does = "shut_down")
          /\ IF o.does = "start_timer"
             THEN Announce
             ELSE SayDone(IF o.writes THEN o.next.type ELSE turn.asked.type,
                          IF o.does \in {"exit", "shut_down"} THEN "exit" ELSE "delivered",
                          o.does)
    BY <1>15 DEF AnswerQuestion
  <2> QED BY <1>0, <1>15, <2>1 DEF AnswerQuestion, Announce, SayDone, Turns
<1>16. CASE Execute
  BY <1>0, <1>16 DEF Execute, Announce, Say, SayDone, Turns
<1>17. CASE \E n \in Deliverers : Notify(n)
  BY <1>17 DEF Notify, _on_timer_finished, deliver_async_notification,
               clear_interaction_context, _speak_notification, return_to_standby
<1>18. CASE UNCHANGED vars
  BY <1>18 DEF vars
<1> QED
  BY <1>1, <1>2, <1>3, <1>4, <1>5, <1>6, <1>7, <1>8, <1>9,
     <1>10, <1>11, <1>12, <1>13, <1>14, <1>15, <1>16, <1>17, <1>18 DEF Next, MainStep, HandleStep

\* The wish serves one reply, for every set of utterances (run Conversation).
THEOREM StandbyServed == Spec => []StandbyServesOneTurn
<1>1. Init => StandbyInv
  BY DEF Init, StandbyInv
<1>2. StandbyInv => StandbyServesOneTurn
  BY DEF StandbyInv, StandbyServesOneTurn, Replying
<1> QED BY <1>1, <1>2, StandbyNext, TypeAlways, PTL DEF Spec

-----------------------------------------------------------------------------
(* The session at rest.                                                      *)

Quiet == \A n \in Deliverers : notice[n] \in {"idle", "done"}

\* The main thread goes to the wake gate with a closed window, which only it can
\* open; a notification that comes to its end leaves the session in standby.
RestInv ==
  /\ pc \in {"standby", "gate"} => ~window
  /\ pc = "gate" /\ Quiet => vstate = "standby"

LEMMA RestNext == TypeInv /\ RestInv /\ [Next]_vars => RestInv'
<1> SUFFICES ASSUME TypeInv, RestInv, [Next]_vars PROVE RestInv'
  OBVIOUS
<1> USE DEF RestInv, Quiet, pendingVars, flagVars, sessionVars, loopVars,
            noticeVars, historyVars, HandleFrame
<1>1. /\ window \in BOOLEAN
      /\ notice \in [Deliverers -> {"idle", "check", "clear", "show", "wait", "speaking",
                                    "settle", "done"}]
  BY DEF TypeInv, TypeOK
<1>2. CASE Top
  BY <1>1, <1>2 DEF Top
<1>3. CASE Standby
  BY <1>1, <1>3 DEF Standby
<1>4. CASE Wake
  BY <1>1, <1>4 DEF Wake
<1>5. ASSUME NEW n \in Deliverers, Notify(n) PROVE RestInv'
  <2>1. CASE _on_timer_finished(n) \/ deliver_async_notification(n) \/ clear_interaction_context(n)
    <3>1. notice'[n] \notin {"idle", "done"}
      BY <1>1, <2>1 DEF _on_timer_finished, deliver_async_notification,
                        clear_interaction_context, Move
    <3>2. pc' = pc /\ (window' => window)
      BY <1>1, <2>1 DEF _on_timer_finished, deliver_async_notification, clear_interaction_context
    <3> QED BY <3>1, <3>2
  <2>2. CASE /\ _speak_notification(n)
            /\ UNCHANGED <<pc, turn, pendingVars, flagVars, window, loopVars, kept, turns>>
    <3>1. notice'[n] \notin {"idle", "done"}
      BY <1>1, <2>2 DEF _speak_notification, Move
    <3> QED BY <2>2, <3>1
  <2>3. CASE /\ return_to_standby(n)
            /\ UNCHANGED <<pc, turn, pendingVars, flagVars, loopVars, kept, speaker, historyVars>>
    BY <2>3 DEF return_to_standby
  <2> QED BY <1>5, <2>1, <2>2, <2>3 DEF Notify
<1>6. CASE UNCHANGED vars
  BY <1>6 DEF vars
<1>7. CASE \/ WaitForOutput \/ Prime \/ Listen \/ \E u \in Utterances : Hear(u)
          \/ _handle_no_speech_capture \/ _handle_ignored_active_transcript \/ Rewake
          \/ _return_to_wake_gate \/ _start_window
          \/ _handle_incomplete_open_dialogue_capture
          \/ BeginReply \/ TakeVoice \/ FinishTurn \/ Decide
          \/ (\E ok \in BOOLEAN : EndVoice(ok)) \/ HandleStep \/ Announced
  <2>1. pc' \notin {"standby", "gate"}
    <3>1. CASE HandleStep
      BY <3>1 DEF HandleStep, Dispatch, _cancel_active_request,
         _clear_stale_dialogue_follow_up, ReadFollowUp, interrupt_with_new_intent,
         handle_pending_confirmation, NothingPending, _handle_clarification_repeat_follow_up,
         _handle_conversation_repair_follow_up, AnswerQuestion, Execute, RouteCommand,
         RouteConversation, _ask_for_confirmation, IncompleteQuery, UnclearWhilePending,
         handle_unclear_route, Announce, Say, SayDone, HandleAsDialogue
    <3> QED
      BY <1>7, <3>1 DEF WaitForOutput, Prime, Listen, Hear, _handle_no_speech_capture,
         _handle_ignored_active_transcript, Rewake, _return_to_wake_gate, _start_window,
         _handle_incomplete_open_dialogue_capture, BeginReply, TakeVoice, FinishTurn,
         Decide, EndVoice, Announced, Retry, Say, SayDone
  <2> QED BY <2>1
<1> QED
  BY <1>2, <1>3, <1>4, <1>5, <1>6, <1>7 DEF Next, MainStep

\* The session rests in standby with its window closed, for every number of
\* deliveries (run Conversation).
THEOREM Rests == Spec => []RestingState
<1>1. Init => RestInv
  BY DEF Init, RestInv
<1>2. RestInv => RestingState
  BY DEF RestInv, RestingState, Quiet
<1> QED BY <1>1, <1>2, RestNext, TypeAlways, PTL DEF Spec

-----------------------------------------------------------------------------
(* An answer belongs to the question that was asked.                         *)

\* The questions only the main thread asks.
MainAsks == QuestionTypes \ (TimerOffers \union Repairs)

Waiting == {"top", "standby", "gate", "prime", "reprime", "listen", "capture", "to_gate",
            "rearm", "follow_up", "grace"}

\* Where the main thread is when question q is pending: it is about to say it,
\* or q is the last thing it said.  If the reply fails the loop ends.
AskedOf(q) ==
  \/ pc \in {"reply", "voice", "speaking"} /\ turn.says = q /\ turn.returns = "delivered"
  \/ pc = "finish" /\ turn.returns = "delivered" /\ (turn.ok => told.main = q)
  \/ pc \in {"heard", "dispatch", "handle", "answer"} /\ turn.main = q /\ told.main = q
  \/ pc \in Waiting /\ told.main = q
  \/ pc = "off"

\* Only one question of the main thread is pending at a time, a guess included,
\* and none when a command is carried out or a text is routed.
AskedInv ==
  /\ followUp.type \in MainAsks => AskedOf(followUp.type) /\ confirmation = <<>>
  /\ followUp.type = "clarification_repeat" => confirmation = <<>>
  /\ pc = "answer" =>
       /\ confirmation = <<>>
       /\ turn.asked.type \in MainAsks => turn.main = turn.asked.type
       /\ followUp.type \in MainAsks => followUp.type = turn.asked.type
  /\ pc \in {"route", "execute", "announce"} =>
       confirmation = <<>> /\ followUp.type \notin MainAsks
  /\ pc = "route" => followUp.type # "clarification_repeat"

\* The names that matter here.
LEMMA AskNames ==
  /\ {"none", "clarification_repeat", "conversation_repair", "confirmation"}
       \intersect MainAsks = {}
  /\ TimerOffers \intersect MainAsks = {}
  /\ "clarification_repeat" \notin TimerOffers
  BY DEF MainAsks, QuestionTypes, TimerOffers, Repairs, Durations, Offers, Confirmations, Contents

LEMMA AskedNext == TypeInv /\ AskedInv /\ [Next]_vars => AskedInv'
<1> SUFFICES ASSUME TypeInv, AskedInv, [Next]_vars PROVE AskedInv'
  OBVIOUS
<1> USE DEF AskedInv, AskedOf, Waiting, pendingVars, flagVars, sessionVars, loopVars,
            noticeVars, historyVars, HandleFrame
<1>0. /\ turn \in Turns
      /\ followUp \in FollowUps
      /\ NoFollowUp.type = "none"
      /\ told \in [main : Questions, last : Questions, repeats : Nat]
  BY AskType DEF TypeInv, TypeOK
<1>1. CASE WaitForOutput \/ Standby \/ Listen \/ Wake \/ Rewake
  BY <1>0, <1>1 DEF WaitForOutput, Standby, Listen, Wake, Rewake
<1>2. CASE Prime
  BY <1>0, <1>2 DEF Prime, OpenWindow
<1>3. CASE _handle_no_speech_capture \/ _handle_ignored_active_transcript \/ _return_to_wake_gate
  BY <1>0, <1>3 DEF _handle_no_speech_capture, _handle_ignored_active_transcript, _return_to_wake_gate, Retry
<1>4. CASE Decide \/ _start_window
  BY <1>0, <1>4 DEF Decide, _start_window, OpenWindow
<1>5. CASE _handle_incomplete_open_dialogue_capture
  BY <1>0, <1>5, SayWhat, AskType, AskNames, Members DEF _handle_incomplete_open_dialogue_capture, Say
<1>6. CASE BeginReply \/ TakeVoice
  BY <1>0, <1>6 DEF BeginReply, TakeVoice
<1>7. CASE FinishTurn
  BY <1>0, <1>7 DEF FinishTurn, Continues
<1>8. CASE Announced
  BY <1>0, <1>8 DEF Announced, Turns
<1>9. CASE Dispatch \/ interrupt_with_new_intent \/ NothingPending \/ RouteCommand \/ _clear_stale_dialogue_follow_up
  BY <1>0, <1>9, AskNames DEF Dispatch, interrupt_with_new_intent, NothingPending, RouteCommand, _clear_stale_dialogue_follow_up, Pending
<1>10. CASE ReadFollowUp
  BY <1>0, <1>10, AskNames DEF ReadFollowUp, Turns, Clarifying
<1>11. CASE _cancel_active_request \/ RouteConversation
  BY <1>0, <1>11, SayWhat, AskNames DEF _cancel_active_request, RouteConversation, Say
<1>12. CASE handle_pending_confirmation
  BY <1>0, <1>12, SayWhat, AskNames DEF handle_pending_confirmation, Say, Clarifying, Turns
<1>13. CASE _handle_clarification_repeat_follow_up
  BY <1>0, <1>13, SayWhat, AskNames DEF _handle_clarification_repeat_follow_up, Say, HandleAsDialogue, Turns, FollowUps
<1>14. CASE _handle_conversation_repair_follow_up
  BY <1>0, <1>14, SayWhat, AskNames DEF _handle_conversation_repair_follow_up, Say, HandleAsDialogue, Turns
<1>15. CASE Execute
  BY <1>0, <1>15, SayWhat, AskNames DEF Execute, Say, Announce
<1>16. CASE _ask_for_confirmation
  BY <1>0, <1>16, SayWhat, AskNames DEF _ask_for_confirmation, Say
<1>17. CASE IncompleteQuery
  BY <1>0, <1>17, SayWhat, AskNames, AskTopicType DEF IncompleteQuery, Say
<1>18. CASE UnclearWhilePending
  BY <1>0, <1>18, SayWhat, AskNames DEF UnclearWhilePending, Say
<1>19. CASE handle_unclear_route
  <2>1. pc' = "reply" /\ confirmation' = <<>>
    BY <1>0, <1>19, SayWhat DEF handle_unclear_route, Say, Pending
  <2>2. followUp'.type \in {"none", "clarification_repeat"}
    BY <1>0, <1>19, Members, AskType DEF handle_unclear_route, Pending, FollowUps
  <2> QED BY <2>1, <2>2, AskNames
<1>20. CASE Top
  <2>1. pc = "top" /\ pc' \in {"listen", "standby"} /\ UNCHANGED <<turn, followUp, confirmation, told>>
    BY <1>20 DEF Top
  <2> QED BY <2>1
<1>21. ASSUME NEW u \in Utterances, Hear(u) PROVE AskedInv'
  <2>1. turn'.main = told.main
    BY <1>21, NoTurnType DEF Hear, Turns
  <2> QED BY <1>21, <2>1 DEF Hear
<1>22. ASSUME NEW ok \in BOOLEAN, EndVoice(ok) PROVE AskedInv'
  <2>1. /\ turn'.ok = ok /\ turn'.returns = turn.returns
        /\ ok => told'.main = turn.says
    BY <1>0, <1>22 DEF EndVoice, Told, Turns
  <2> QED BY <1>22, <2>1 DEF EndVoice
<1>23. CASE AnswerQuestion
  <2>1. PICK o \in handle_pending_follow_up(turn.asked, Reply, followUp.type = turn.asked.type) :
          /\ followUp' = IF o.writes THEN o.next ELSE followUp
          /\ IF o.does = "start_timer"
             THEN Announce
             ELSE SayDone(IF o.writes THEN o.next.type ELSE turn.asked.type,
                          IF o.does \in {"exit", "shut_down"} THEN "exit" ELSE "delivered",
                          o.does)
    BY <1>23 DEF AnswerQuestion
  <2>2. o \in Answers
    <3>1. turn.asked \in FollowUps /\ turn.asked.type \notin Repairs \union {"none"}
      BY <1>0, <1>23 DEF AnswerQuestion, TypeInv, Turns
    <3>2. Reply \in Replies
      BY DEF Reply, Replies
    <3> QED BY <2>1, <3>1, <3>2, AnswerType
  <2>3. pc = "answer" /\ UNCHANGED <<confirmation, told>>
    BY <1>23 DEF AnswerQuestion
  <2>4. pc' \in {"announce", "reply"}
    BY <2>1 DEF Announce, SayDone
  <2>5. CASE o.writes
    <3>1. followUp' = o.next /\ (o.does = "nothing" \/ followUp'.type = "none")
      BY <2>1, <2>2, <2>5 DEF Answers
    <3> QED BY <1>0, <2>1, <2>3, <2>4, <2>5, <3>1, SayWhat, AskNames
  <2>6. CASE ~o.writes
    <3>1. followUp' = followUp /\ o.does = "nothing"
      BY <2>1, <2>2, <2>6 DEF Answers, Outcomes
    <3>2. SayDone(turn.asked.type, "delivered", "nothing")
      BY <2>1, <2>6, <3>1
    <3> QED BY <1>0, <2>3, <3>1, <3>2, SayWhat, AskNames
  <2> QED BY <2>5, <2>6
<1>24. ASSUME NEW n \in Deliverers, Notify(n) PROVE AskedInv'
  <2>1. /\ pc' = pc /\ turn' = turn /\ told'.main = told.main
    BY <1>0, <1>24 DEF Notify, _on_timer_finished, deliver_async_notification,
         clear_interaction_context, _speak_notification, return_to_standby
  <2>2. /\ confirmation' \in {confirmation, <<>>}
        /\ \/ followUp' = followUp
           \/ followUp'.type \in TimerOffers \union {"none"}
    <3>1. OfferOf(n) = "none" \/ (OfferOf(n) \in TimerOffers /\ Ask(OfferOf(n)).type = OfferOf(n))
      BY AskType DEF OfferOf, TimerOffers, QuestionTypes, Offers
    <3> QED
      BY <1>0, <1>24, <3>1 DEF Notify, _on_timer_finished, deliver_async_notification,
         clear_interaction_context, _speak_notification, return_to_standby
  <2> QED BY <2>1, <2>2, AskNames
<1>25. CASE UNCHANGED vars
  BY <1>25 DEF vars
<1> QED
  BY <1>1, <1>2, <1>3, <1>4, <1>5, <1>6, <1>7, <1>8, <1>9, <1>10, <1>11, <1>12, <1>13,
     <1>14, <1>15, <1>16, <1>17, <1>18, <1>19, <1>20, <1>21, <1>22, <1>23, <1>24, <1>25
     DEF Next, MainStep, HandleStep

\* A reply answers the last question the main thread asked, unless a timer has
\* put its own in (run Conversation).
THEOREM AnswersWhatWasAsked == Spec => []AnsweredAsAsked
<1>1. Init => AskedInv
  BY AskType, AskNames DEF Init, AskedInv
<1>2. TypeInv /\ AskedInv => AnsweredAsAsked
  BY DEF TypeInv, TypeOK, AskedInv, AnsweredAsAsked, MainAsks, Turns, FollowUps
<1> QED BY <1>1, <1>2, AskedNext, TypeAlways, PTL DEF Spec

-----------------------------------------------------------------------------
(* The user is not asked to repeat for ever.                                 *)

\* The main thread asks for a repetition that has not been heard yet.
Repeating == pc \in {"reply", "voice", "speaking"} /\ turn.says = "clarification_repeat"

\* The requests the user has heard are at most those that question q counts.
CountedBy(q) == clarify = <<>> /\ told.repeats <= q.retries + 1

\* Where requests were heard and nothing is pending, either the count is on its
\* way to the next question, or a reply that is none will be said or has been
\* announced, after which the requests are not in a row any more.
RepeatsForgotten ==
  \/ told.repeats = 0
  \/ Pending \/ clarify # <<>>
  \/ pc \in {"reply", "voice", "speaking", "execute"}
  \/ pc = "announce" /\ (notice[Main] = "check" \/ (notice[Main] = "clear" /\ ~kept[Main]))
  \/ pc \in {"handle", "route"} /\ turn.text = "chat"

RepeatInv ==
  /\ told.repeats <= MaxRetries + 1
  /\ clarify # <<>> => told.repeats <= Head(clarify) + 1
  /\ Repeating => clarify = <<>>
  /\ Clarifying /\ Repeating => ~followUp.detail /\ told.repeats <= followUp.retries
  /\ Clarifying /\ ~followUp.detail => CountedBy(followUp)
  /\ pc = "answer" /\ turn.asked.type = "clarification_repeat" /\ ~turn.asked.detail
       => CountedBy(turn.asked)
  /\ RepeatsForgotten

LEMMA RepeatNext == TypeInv /\ RepeatInv /\ [Next]_vars => RepeatInv'
<1> SUFFICES ASSUME TypeInv, RepeatInv, [Next]_vars PROVE RepeatInv'
  OBVIOUS
<1> USE DEF RepeatInv, RepeatsForgotten, Repeating, CountedBy, Clarifying, Pending, MaxRetries,
            pendingVars, flagVars, sessionVars, loopVars, noticeVars, historyVars, HandleFrame
<1>0. /\ turn \in Turns
      /\ followUp \in FollowUps
      /\ clarify \in {<<>>} \union {<<r>> : r \in 0..MaxRetries}
      /\ NoFollowUp.type = "none"
      /\ told \in [main : Questions, last : Questions, repeats : Nat]
      /\ notice \in [Deliverers -> {"idle", "check", "clear", "show", "wait", "speaking",
                                    "settle", "done"}]
      /\ kept \in [Deliverers -> BOOLEAN]
  BY AskType DEF TypeInv, TypeOK
<1>1. CASE WaitForOutput \/ Standby \/ Listen \/ Wake \/ Rewake
  BY <1>0, <1>1 DEF WaitForOutput, Standby, Listen, Wake, Rewake
<1>2. CASE Prime
  BY <1>0, <1>2 DEF Prime, OpenWindow
<1>3. CASE _handle_no_speech_capture \/ _handle_ignored_active_transcript \/ _return_to_wake_gate
  BY <1>0, <1>3 DEF _handle_no_speech_capture, _handle_ignored_active_transcript, _return_to_wake_gate, Retry
<1>4. CASE Decide \/ _start_window
  BY <1>0, <1>4 DEF Decide, _start_window, OpenWindow
<1>5. CASE _handle_incomplete_open_dialogue_capture
  BY <1>0, <1>5, SayWhat, AskType, AskNames, Members DEF _handle_incomplete_open_dialogue_capture, Say
<1>6. CASE BeginReply \/ TakeVoice
  BY <1>0, <1>6 DEF BeginReply, TakeVoice
<1>7. CASE FinishTurn
  BY <1>0, <1>7 DEF FinishTurn, Continues
<1>8. CASE Announced
  BY <1>0, <1>8 DEF Announced, Turns
<1>9. CASE Dispatch \/ interrupt_with_new_intent \/ NothingPending \/ RouteCommand
  BY <1>0, <1>9, AskNames DEF Dispatch, interrupt_with_new_intent, NothingPending, RouteCommand
<1>10. CASE ReadFollowUp
  BY <1>0, <1>10, AskNames DEF ReadFollowUp, Turns
<1>11. CASE _cancel_active_request \/ RouteConversation
  BY <1>0, <1>11, SayWhat, AskNames DEF _cancel_active_request, RouteConversation, Say
<1>12. CASE handle_pending_confirmation
  BY <1>0, <1>12, SayWhat, AskNames DEF handle_pending_confirmation, Say, Turns
<1>13. CASE _handle_clarification_repeat_follow_up
  <2> DEFINE q == turn.asked
  <2>1. /\ pc = "answer" /\ q.type = "clarification_repeat" /\ q \in FollowUps
        /\ UNCHANGED <<confirmation, told, notice, kept>>
    BY <1>0, <1>13 DEF _handle_clarification_repeat_follow_up, Turns
  <2>2. CASE followUp' = NoFollowUp /\ Say("none", "delivered") /\ UNCHANGED clarify
    BY <1>0, <2>1, <2>2, SayWhat DEF Say
  <2>3. CASE /\ q.retries < MaxRetries
             /\ followUp' = [q EXCEPT !.retries = @ + 1]
             /\ Say(IF q.detail THEN "topic" ELSE "clarification_repeat", "delivered")
             /\ UNCHANGED clarify
    <3>1. /\ followUp'.type = "clarification_repeat"
          /\ followUp'.detail = q.detail
          /\ followUp'.retries = q.retries + 1
      BY <2>1, <2>3 DEF FollowUps
    <3>2. pc' = "reply" /\ turn'.says = IF q.detail THEN "topic" ELSE "clarification_repeat"
      BY <1>0, <2>3, SayWhat DEF Say
    <3>3. q.retries \in Nat /\ q.detail \in BOOLEAN
      BY <2>1 DEF FollowUps
    <3> QED BY <1>0, <2>1, <2>3, <3>1, <3>2, <3>3
  <2>4. CASE q.detail /\ followUp' = NoFollowUp /\ HandleAsDialogue /\ UNCHANGED clarify
    BY <1>0, <2>1, <2>4 DEF HandleAsDialogue, Turns
  <2>5. CASE ~q.detail /\ followUp' = NoFollowUp /\ clarify' = <<q.retries>> /\ pc' = "route"
    <3>1. clarify' # <<>> /\ Head(clarify') = q.retries
      BY <2>5
    <3> QED BY <1>0, <2>1, <2>5, <3>1
  <2> QED BY <1>13, <2>2, <2>3, <2>4, <2>5 DEF _handle_clarification_repeat_follow_up
<1>14. CASE _handle_conversation_repair_follow_up
  BY <1>0, <1>14, SayWhat, AskNames DEF _handle_conversation_repair_follow_up, Say, HandleAsDialogue, Turns
<1>15. CASE Execute
  <2>1. /\ pc = "execute" /\ UNCHANGED <<clarify, kept, told>>
    BY <1>15 DEF Execute
  <2>2. CASE /\ turn.text \in DOMAIN QuestionOf
             /\ followUp' = QuestionOf[turn.text]
             /\ Say(QuestionOf[turn.text].type, "delivered")
    <3>1. followUp'.type # "clarification_repeat" /\ followUp'.type = QuestionOf[turn.text].type
      BY <2>2, QuestionOfType DEF Repairs
    <3>2. pc' = "reply" /\ turn'.says = followUp'.type
      BY <1>0, <2>2, <3>1, SayWhat DEF Say
    <3> QED BY <1>0, <2>1, <3>1, <3>2
  <2>3. CASE \/ Say("none", "delivered") /\ UNCHANGED pendingVars
             \/ Say("none", "exit") /\ followUp' = NoFollowUp /\ confirmation' = <<>>
    <3>1. pc' = "reply" /\ turn'.says = "none"
      BY <1>0, <2>3, SayWhat DEF Say
    <3> QED BY <1>0, <2>1, <2>3, <3>1
  <2>4. CASE Announce /\ UNCHANGED pendingVars
    BY <1>0, <2>1, <2>4 DEF Announce, Deliverers
  <2> QED BY <1>15, <2>2, <2>3, <2>4 DEF Execute
<1>16. CASE _ask_for_confirmation
  BY <1>0, <1>16, SayWhat, AskNames DEF _ask_for_confirmation, Say
<1>17. CASE IncompleteQuery
  BY <1>0, <1>17, SayWhat, AskNames, AskTopicType DEF IncompleteQuery, Say
<1>18. CASE UnclearWhilePending
  BY <1>0, <1>18, SayWhat, AskNames DEF UnclearWhilePending, Say
<1>19. CASE handle_unclear_route
  <2>1. /\ pc = "route" /\ ~Pending /\ clarify' = <<>>
        /\ UNCHANGED <<told, notice, kept>>
    BY <1>19 DEF handle_unclear_route
  <2>2. clarify # <<>> \/ told.repeats = 0
    <3>1. turn.text # "chat"
      BY <1>19 DEF handle_unclear_route, Anything, Replies
    <3> QED BY <2>1, <3>1
  <2>3. CASE Say("none", "delivered") /\ UNCHANGED followUp
    BY <1>0, <2>1, <2>3, SayWhat DEF Say
  <2>4. CASE /\ ~(clarify # <<>> /\ Head(clarify) >= MaxRetries)
             /\ followUp' = [Ask("clarification_repeat") EXCEPT
                               !.retries = IF clarify = <<>> THEN 0 ELSE Head(clarify) + 1]
             /\ Say("clarification_repeat", "delivered")
    <3> DEFINE k == IF clarify = <<>> THEN 0 ELSE Head(clarify) + 1
    <3>1. k \in Nat /\ told.repeats <= k
      BY <1>0, <2>2
    <3>2. followUp'.retries = k /\ followUp'.detail = FALSE /\ followUp'.type = "clarification_repeat"
      BY <2>4 DEF Ask, NoFollowUp
    <3>3. pc' = "reply" /\ turn'.says = "clarification_repeat"
      BY <1>0, <2>4, SayWhat DEF Say
    <3> HIDE DEF k
    <3> QED BY <1>0, <2>1, <3>1, <3>2, <3>3
  <2> QED BY <1>19, <2>3, <2>4 DEF handle_unclear_route
<1>20. CASE Top
  BY <1>0, <1>20 DEF Top
<1>21. ASSUME NEW u \in Utterances, Hear(u) PROVE RepeatInv'
  BY <1>0, <1>21 DEF Hear
<1>22. ASSUME NEW ok \in BOOLEAN, EndVoice(ok) PROVE RepeatInv'
  <2>1. /\ pc = "speaking" /\ pc' = "finish"
        /\ UNCHANGED <<followUp, confirmation, clarify, notice, kept>>
    BY <1>22 DEF EndVoice
  <2>2. /\ ok /\ Repeating /\ Clarifying => told'.repeats = told.repeats + 1
        /\ ~(ok /\ Repeating /\ Clarifying) => told'.repeats = 0
    BY <1>0, <1>22, <2>1 DEF EndVoice, Told
  <2>3. told.repeats \in Nat /\ followUp.retries \in 0..MaxRetries
    BY <1>0 DEF FollowUps
  <2> QED BY <1>0, <2>1, <2>2, <2>3
<1>23. CASE AnswerQuestion
  <2>1. PICK o \in handle_pending_follow_up(turn.asked, Reply, followUp.type = turn.asked.type) :
          /\ followUp' = IF o.writes THEN o.next ELSE followUp
          /\ IF o.does = "start_timer"
             THEN Announce
             ELSE SayDone(IF o.writes THEN o.next.type ELSE turn.asked.type,
                          IF o.does \in {"exit", "shut_down"} THEN "exit" ELSE "delivered",
                          o.does)
    BY <1>23 DEF AnswerQuestion
  <2>2. turn.asked \in FollowUps /\ turn.asked.type \notin Repairs \union {"none"}
    BY <1>0, <1>23 DEF AnswerQuestion, TypeInv, Turns
  <2>3. o \in Answers
    <3>1. Reply \in Replies
      BY DEF Reply, Replies
    <3> QED BY <2>1, <2>2, <3>1, AnswerType
  <2>4. pc = "answer" /\ UNCHANGED <<confirmation, clarify, kept, told>>
    BY <1>23 DEF AnswerQuestion
  <2>5. followUp' = followUp \/ followUp'.type # "clarification_repeat"
    BY <2>1, <2>3 DEF Answers
  <2>6. CASE Announce
    BY <1>0, <2>4, <2>5, <2>6 DEF Announce, Deliverers
  <2>7. CASE SayDone(IF o.writes THEN o.next.type ELSE turn.asked.type,
                     IF o.does \in {"exit", "shut_down"} THEN "exit" ELSE "delivered",
                     o.does)
    <3>1. pc' = "reply" /\ turn'.says # "clarification_repeat"
      BY <1>0, <2>2, <2>3, <2>7, SayWhat DEF Answers, Repairs
    <3> QED BY <1>0, <2>4, <2>5, <3>1
  <2> QED BY <2>1, <2>6, <2>7
<1>24. ASSUME NEW n \in Deliverers, Notify(n) PROVE RepeatInv'
  <2>1. OfferOf(n) = "none" \/ (OfferOf(n) \in TimerOffers /\ Ask(OfferOf(n)).type = OfferOf(n))
    BY AskType DEF OfferOf, TimerOffers, QuestionTypes, Offers
  <2>2. Main \notin Notices
    BY ConversationAssumption DEF Events
  <2>3. CASE n \in Notices /\ _on_timer_finished(n)
    BY <1>0, <2>1, <2>2, <2>3, AskNames DEF _on_timer_finished, Move, TimerOffers
  <2>4. CASE deliver_async_notification(n)
    <3>1. /\ UNCHANGED <<pc, turn, followUp, confirmation, clarify, told>>
          /\ notice[n] = "check" /\ notice' = [notice EXCEPT ![n] = "clear"]
          /\ kept' = [kept EXCEPT ![n] = Pending]
      BY <2>4 DEF deliver_async_notification, Move
    <3>2. CASE n = Main
      <4>1. notice'[Main] = "clear" /\ kept'[Main] = Pending
        BY <1>0, <3>1, <3>2
      <4> QED BY <3>1, <4>1
    <3>3. CASE n # Main
      <4>1. notice'[Main] = notice[Main] /\ kept'[Main] = kept[Main]
        BY <1>0, <3>1, <3>3 DEF Deliverers
      <4> QED BY <3>1, <4>1
    <3> QED BY <3>2, <3>3
  <2>5. CASE clear_interaction_context(n)
    <3>1. /\ UNCHANGED <<pc, turn, clarify, kept>>
          /\ notice[n] = "clear" /\ notice' = [notice EXCEPT ![n] = "show"]
      BY <2>5 DEF clear_interaction_context, Move
    <3>2. CASE kept[n]
      <4>1. UNCHANGED <<followUp, confirmation, told>>
        BY <2>5, <3>2 DEF clear_interaction_context
      <4>2. n = Main \/ notice'[Main] = notice[Main]
        BY <1>0, <3>1 DEF Deliverers
      <4> QED BY <3>1, <3>2, <4>1, <4>2
    <3>3. CASE ~kept[n]
      <4>1. followUp' = NoFollowUp /\ told'.repeats = 0
        BY <1>0, <2>5, <3>3 DEF clear_interaction_context
      <4>2. clarify # <<>> => Head(clarify) \in Nat
        BY <1>0
      <4>3. turn.asked.retries \in Nat
        BY <1>0 DEF Turns, FollowUps
      <4> QED BY <1>0, <3>1, <4>1, <4>2, <4>3
    <3> QED BY <3>2, <3>3
  <2>6. CASE /\ _speak_notification(n)
            /\ UNCHANGED <<pc, turn, pendingVars, flagVars, window, loopVars, kept, turns>>
    <3>1. /\ notice[n] \notin {"check", "clear"} /\ notice'[n] \notin {"check", "clear"}
          /\ \A m \in Deliverers : m # n => notice'[m] = notice[m]
      BY <1>0, <2>6 DEF _speak_notification, Move
    <3>2. told'.repeats = told.repeats
      BY <1>0, <2>6 DEF _speak_notification
    <3>3. Main = n \/ notice'[Main] = notice[Main]
      BY <3>1 DEF Deliverers
    <3> QED BY <2>6, <3>1, <3>2, <3>3
  <2>7. CASE /\ return_to_standby(n)
            /\ UNCHANGED <<pc, turn, pendingVars, flagVars, loopVars, kept, speaker, historyVars>>
    BY <1>0, <2>7 DEF return_to_standby, Move
  <2> QED BY <1>24, <2>3, <2>4, <2>5, <2>6, <2>7 DEF Notify
<1>25. CASE _clear_stale_dialogue_follow_up
  <2>1. followUp' = NoFollowUp /\ told'.repeats = 0 /\ clarify' = clarify /\ pc' = "handle"
    BY <1>0, <1>25 DEF _clear_stale_dialogue_follow_up
  <2>2. clarify # <<>> => Head(clarify) \in Nat
    BY <1>0
  <2> QED BY <1>0, <2>1, <2>2
<1>26. CASE UNCHANGED vars
  BY <1>26 DEF vars
<1> QED
  BY <1>1, <1>2, <1>3, <1>4, <1>5, <1>6, <1>7, <1>8, <1>9, <1>10, <1>11, <1>12, <1>13,
     <1>14, <1>15, <1>16, <1>17, <1>18, <1>19, <1>20, <1>21, <1>22, <1>23, <1>24, <1>25,
     <1>26
     DEF Next, MainStep, HandleStep

\* The requests to repeat are bounded, whatever the user says and whatever the
\* timers do in between (run Conversation).
THEOREM RepeatsEnd == Spec => []RepeatsBounded
<1>1. Init => RepeatInv
  BY AskType, AskNames DEF Init, RepeatInv, RepeatsForgotten, Repeating, Clarifying, NothingTold, MaxRetries
<1>2. RepeatInv => RepeatsBounded
  BY DEF RepeatInv, RepeatsBounded
<1> QED BY <1>1, <1>2, RepeatNext, TypeAlways, PTL DEF Spec

===============================================================================
