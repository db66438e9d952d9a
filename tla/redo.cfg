SPECIFICATION Spec
CONSTANTS
  c1 = c1
  p1 = p1
  p2 = p2
  Clients = {c1}
  Pages = {p1, p2}
  Faults = {"kill", "power"}
  DblSize = 2
  GarbageLsns = {5}
  MtrLen = 2
  MaxLsn = 3
  MaxCrashes = 2
INVARIANT TypeOK
INVARIANT RecoveryPossible
INVARIANT WriteAhead
INVARIANT PagesMatchLog
PROPERTY LogIsDurable
SYMMETRY RedoSymmetry
CHECK_DEADLOCK FALSE
