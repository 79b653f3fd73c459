SPECIFICATION FairSpec
CONSTANTS
  t1 = t1
  t2 = t2
  handle = handle
  cluster = cluster
  Threads = {t1, t2}
  Singletons = {handle}
  None = None
  Root = FALSE
  Nesting = TRUE
  Attempts = 1
  MaxCalls = 2
  MaxScopes = 8
PROPERTY CallersAnswered
