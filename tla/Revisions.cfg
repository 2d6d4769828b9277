SPECIFICATION Spec
CONSTANTS
  Deps = {1, 2, 3, 4}
  Existing = 1
  UserDeps = {2, 3}
  Images = {A, B}
  ListLimit = 2
  MaxRootDepth = 1
  None = None
  MaxKinds = 2
  Faults <- OneEach
INVARIANTS
  TypeOK
  OneLiveRevision
  RolledBackOnce
  RollbacksChangeTheImage
  NoForgottenWatch
CHECK_DEADLOCK FALSE
