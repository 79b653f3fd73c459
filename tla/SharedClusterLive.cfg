SPECIFICATION FairSpec
CONSTANTS
  t1 = t1
  t2 = t2
  handle = handle
  cluster = cluster
  Threads = {t1, t2}
  Singletons = {handle}
  None = None
  Root = FALSE
  Nesting = FALSE
  Attempts = 2
  MaxCalls = 2
  MaxScopes = 8
PROPERTY CallersAnswered
