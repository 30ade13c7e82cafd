SPECIFICATION Spec
CONSTANTS
  Notices <- MCNotices
  Utterances <- MCFew
  Suggestions <- MCSuggestions
  MaxTurns = 2
INVARIANT DestructiveOnlyIfConfirmed
CHECK_DEADLOCK FALSE
