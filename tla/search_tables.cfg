SPECIFICATION SpecSearch
CONSTANTS
  t1 = t1
  t2 = t2
  t3 = t3
  p1 = p1
  tab1 = tab1
  Trx = {t1, t2, t3}
  ReadCommitted = {t1, t2, t3}
  Tables = {tab1}
  Pages = {p1}
  TableOf <- OneTableOf
  NoTable = NoTable
  NoTrx = NoTrx
  InitialRec <- AllMarked
  ReadRequests <- PointReads
  MaxKey = 2
  LOCK_MAX_DEPTH_IN_DEADLOCK_CHECK = 1
  LOCK_MAX_N_STEPS_IN_DEADLOCK_CHECK = 1000000
  LOCK_RELEASE_KERNEL_INTERVAL = 2
  MaxLocks = 4
  MaxUndo = 0
SYMMETRY Symmetry
INVARIANTS
  TableLocksExclude NoConflictingGranted NoOvertaking WaitersAreBlocked WaitStateConsistent NoWaitCycle SearchIsLinear
PROPERTY SearchImplementsLockSys
