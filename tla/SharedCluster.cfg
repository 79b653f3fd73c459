SPECIFICATION Spec
CONSTANTS
  t1 = t1
  t2 = t2
  handle = handle
  cluster = cluster
  Threads = {t1, t2}
  Singletons = {handle, cluster}
  None = None
  Root = TRUE
  Nesting = TRUE
  Attempts = 2
  MaxCalls = 2
  MaxScopes = 8
SYMMETRY Symmetry
INVARIANTS
  TypeOK
  PublishedStaysUp
  LockAccounted
  CallbackStopsServer
  DataOutlivesServer
PROPERTY ImplementsService
