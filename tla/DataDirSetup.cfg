SPECIFICATION Spec
CONSTANTS
  g1 = g1
  g2 = g2
  g3 = g3
  Generated = {g1, g2, g3}
  PgPassword = PgPassword
  Ports = {5001, 5002, 5003}
  None = None
INVARIANTS
  TypeOK
  StoredPasswordOpens
  RunningReachable
  PayloadClosed
PROPERTIES
  DataKept
