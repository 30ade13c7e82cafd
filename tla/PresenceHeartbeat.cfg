SPECIFICATION Spec
CONSTANTS
  MaxTurns = 2
  MaxHeartbeats = 2
INVARIANT OnePhraseAtATime
INVARIANT AtMostOneLatePhrase
INVARIANT StopReachesPlayingPhrase
PROPERTY HeartbeatEnds
