SPECIFICATION FairSpec
CONSTANTS
  Keys = {k1}
  Jobs = {j1, j2}
  Requesters = {prefetch}
  NoJob = NoJob
  NoKey = NoKey
INVARIANT UnfinishedIsPending
INVARIANT OnlyStopLosesAJob
PROPERTY EveryJobFinishes
PROPERTY SpeakReturns
