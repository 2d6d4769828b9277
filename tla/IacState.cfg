SPECIFICATION Spec
CONSTANTS
  Runs = {c1, c2, c3}
  Disturbances = {"crash", "refused", "resend", "rollback", "force"}
  MaxKinds = 3
  None = None
SYMMETRY Symmetry
INVARIANTS
  TypeOK
  VersionsAreReadable
  HolderKeepsLock
  SerialsFollow
CHECK_DEADLOCK FALSE
