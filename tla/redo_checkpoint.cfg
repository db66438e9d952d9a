SPECIFICATION Spec
CONSTANTS
  c1 = c1
  p1 = p1
  p2 = p2
  Clients = {c1}
  Pages = {p1, p2}
  Faults = {"kill", "power"}
  DblSize = 1
  GarbageLsns = {}
  MtrLen = 2
  MaxLsn = 3
  MaxCrashes = 1
INVARIANT RecoveryIsComplete
SYMMETRY RedoSymmetry
CHECK_DEADLOCK FALSE
