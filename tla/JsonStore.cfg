SPECIFICATION FairStoreSpec
CONSTANTS
  Callers = {c1, c2}
  empty = empty
  full = full
  Payloads <- MCPayloads
  Updates <- MCUpdates
  Default = empty
  NoFile = NoFile
  Damaged = Damaged
  Nobody = Nobody
PROPERTY NeverDamaged
PROPERTY ImplementsAtomicFile
PROPERTY LockGivenBack
