SPECIFICATION Spec
CONSTANTS
  server = server
  x = x
  y = y
  p1 = p1
  p2 = p2
  p3 = p3
  Procs = {server, x, y}
  Server = server
  Pids = {p1, p2, p3}
  None = None
SYMMETRY Symmetry
CHECK_DEADLOCK FALSE
INVARIANTS
  TypeOK
  OnlyOursTouched
  JobCoversServer
  WalksAgree
