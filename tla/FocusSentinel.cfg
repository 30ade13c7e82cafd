SPECIFICATION Spec
CONSTANTS
  Workers = {"w1", "w2"}
  Scans = {"s1", "s2"}
  Threads = 3
  Micros = {"m"}
  Debounce = 1
  StaleHold = 1
  ScanTimeout = 0
INVARIANT PausedOnlyForLiveScan
PROPERTY PauseEnds
PROPERTY AbsenceAnswered
PROPERTY FaceResets
\* The session may be over.
CHECK_DEADLOCK FALSE
