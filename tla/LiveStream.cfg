SPECIFICATION StreamSpec
CONSTANTS
  MaxTurns = 1
  MaxHeartbeats = 1
  MaxChunks = 4
  QueueSize = 2
INVARIANT StreamTypeOK
INVARIANT ChunksKept
INVARIANT OneChunkAfterInterrupt
PROPERTY TurnEnds
