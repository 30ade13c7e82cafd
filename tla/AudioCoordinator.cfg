SPECIFICATION Spec
CONSTANTS
  o1 = o1
  o2 = o2
  o3 = o3
  h1 = h1
  h2 = h2
  Outputs <- MCOutputs
  HoldTokens <- MCHoldTokens
  HoldSeconds <- MCHoldSeconds
  MaxNow = 3
SYMMETRY Symmetry
INVARIANT ShieldExact
CHECK_DEADLOCK FALSE
