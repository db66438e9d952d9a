SPECIFICATION Spec
CONSTANTS
  c1 = c1
  c2 = c2
  c3 = c3
  Clients = {c1, c2}
  Keys = {1}
  InitialVal = 1
  Vals = {1, 2}
  MaxTrxId = 5
  IntMax = 7
  HandleLimit = 1
  MaxUndo = 2
SYMMETRY MvccSymmetry
INVARIANT RollbackGoesOn
