SPECIFICATION Spec
CONSTANTS
  h1 = h1
  Jobs = {j1, j2}
  Hosts = {h1}
  Limit <- MCLimit
  BuildServer <- MCBuildServer
  BuildOnHost = TRUE
  Checked = {j1}
  Commits = {1, 2}
  GracePolls = 1
  TimeoutPolls = 2
  MaxEvents = 1
  Here = Here
  Any = Any
  None = None
INVARIANTS
  TypeOK
  AdmittedWithinLimit
  ChecksPassBeforeBuild
PROPERTY
  EveryDeployIsDecided
CHECK_DEADLOCK FALSE
