SPECIFICATION Spec
CONSTANT MaxTimers = 2
CONSTANT Requests = {"focus", "break", "timer", "other"}
CONSTANT TurnModes = {"conversation_answer", "vision_action"}
CHECK_DEADLOCK FALSE
INVARIANT TypeOK
INVARIANT EachTimerEndsOnce
INVARIANT FinishedByOwnWorker
INVARIANT NothingLeftOn
PROPERTY TimerEnds
