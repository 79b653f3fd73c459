SPECIFICATION Spec
CONSTANTS
  p1 = p1
  p2 = p2
  a1 = a1
  a2 = a2
  Procs = {p1, p2}
  Versions = {1}
  Accepts <- MCAccepts
  Files = {"initdb", "share"}
  Initdb = "initdb"
  ExtensionFiles = {"so"}
  Archives = {a1, a2}
  Contents <- MCContents
  Manifest <- MCManifest
  Declared <- MCDeclared
  None = None
CONSTRAINTS
  SlottedAfterFailure
  SlottedBesideStripped
SYMMETRY Permutation
INVARIANTS
  TypeOK
  MarkedEntryPristine
  HitTreeWhole
  ExtensionsAsDeclared
  NoWaitCycle
