\* Any command line, one thread of the target, one of another process.
SPECIFICATION FairSpec
CONSTANTS
  Threads = {main}
  Others = {other}
  Hooks <- MCHooks
  Prologues <- MCPrologues
  Lines <- MCLines
  Files <- MCFiles
INVARIANTS
  AttachTypeOK
  StubsApart
  HookFindsOriginal
  OriginalReached
  NoneLeftSuspended
  DocumentedLineAccepted
PROPERTIES
  TargetReleased
  ImplementsLaunch
CHECK_DEADLOCK FALSE
