SPECIFICATION Spec
CONSTANTS
  Notices <- MCNotices
  Utterances <- MCUtterances
  Suggestions <- MCSuggestions
  MaxTurns = 3
INVARIANT TypeOK
INVARIANT AnsweredAsAsked
INVARIANT RestingState
INVARIANT StandbyServesOneTurn
 
PROPERTY BackToGate
CHECK_DEADLOCK FALSE
