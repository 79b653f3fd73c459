SPECIFICATION Spec
CONSTANTS
  Procs = {p1, p2}
  Slots = {s1, s2}
  Explicit = {}
  Unguarded = {}
  None = None
  Watcher = Watcher
  WatcherOn = TRUE
SYMMETRY Symmetry
CHECK_DEADLOCK FALSE
INVARIANTS
  TypeOK
  OwnedSlotIntact
  LiveClusterKeepsData
PROPERTIES
  SparesServers
  ImplementsLease
