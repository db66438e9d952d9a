SPECIFICATION SpecSearch
CONSTANTS
  t1 = t1
  t2 = t2
  t3 = t3
  tab1 = tab1
  p1 = p1
  Trx = {t1, t2}
  ReadCommitted = {t2}
  Tables = {}
  Pages = {p1}
  TableOf <- NoTableOf
  NoTable = NoTable
  NoTrx = NoTrx
  InitialRec <- AllMarked
  ReadRequests <- ExclusiveNextKey
  MaxKey = 3
  LOCK_MAX_DEPTH_IN_DEADLOCK_CHECK = 200
  LOCK_MAX_N_STEPS_IN_DEADLOCK_CHECK = 1000000
  LOCK_RELEASE_KERNEL_INTERVAL = 1
  MaxLocks = 2
  MaxUndo = 1
INVARIANTS
  TypeOK ImplicitLockExcludes NoDanglingLock FastPathAgrees LockInv
PROPERTY ExclusiveGapKept
