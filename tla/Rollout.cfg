SPECIFICATION Spec
CONSTANTS
  Old = {old}
  Runs = {r1, r2}
  Settings <- MCSettings
  MaxErrors = 1
  MaxOverlaps = 1
INVARIANTS
  TypeOK
  KeepsServing
PROPERTY
  SuccessLeavesOne
CHECK_DEADLOCK FALSE
