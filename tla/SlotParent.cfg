SPECIFICATION ParentSpec
CONSTANTS
  Procs = {p1, p2}
  Slots = {s1}
  Explicit = {}
  Unguarded = {}
  None = None
  Watcher = Watcher
  WatcherOn = TRUE
CHECK_DEADLOCK FALSE
INVARIANT LiveClusterKeepsData
