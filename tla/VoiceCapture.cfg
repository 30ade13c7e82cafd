SPECIFICATION Spec
CONSTANTS
  Readers <- MCReaders
  Bridge = "bridge"
  SampleCounts <- MCSampleCounts
  MaxSampleCount = 5
  MaxFrames = 2
  ChunkSamples = 2
  QueueSize = 1
  PreRoll = 2
  MinSpeech = 4
  MinSilence = 3
  MaxChunks = 3
  MaxCaptures = 2
INVARIANT TypeOK
INVARIANT RetentionExact
INVARIANT CaptureContiguous
INVARIANT OnlyLastChunkSelfHeard
INVARIANT SpeechStateExact
PROPERTY ImplementsFrameLog
CHECK_DEADLOCK FALSE
