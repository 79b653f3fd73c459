SPECIFICATION FairSpec
CONSTANTS
  Procs = {p1, p2}
  Slots = {s1}
  Explicit = {e1}
  Unguarded = {e1}
  None = None
  Watcher = Watcher
  WatcherOn = TRUE
CHECK_DEADLOCK FALSE
INVARIANT InstallKept
PROPERTIES
  WatchedServerStops
  WatchersEnd
  GuardReleased
