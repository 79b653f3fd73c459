SPECIFICATION Spec
CONSTANTS
  a = a
  b = b
  Threads = {a, b}
  Templates = {"template"}
  Names = {"test"}
  SetupSteps = 2
  MaxCalls = 3
  None = None
CHECK_DEADLOCK FALSE
INVARIANTS
  TypeOK
  EnsuredComplete
  HolderHasDatabase
PROPERTIES
  EnsureReturns
  ImplementsPromise
