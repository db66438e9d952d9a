SPECIFICATION SpecWait
CONSTANTS
  t1 = t1
  t2 = t2
  t3 = t3
  p1 = p1
  Trx = {t1, t2}
  Slots = {0, 1}
  NoSlot = NoSlot
  ReadCommitted = {}
  Tables = {}
  Pages = {p1}
  TableOf <- NoTableOf
  NoTable = NoTable
  NoTrx = NoTrx
  InitialRec <- AllLive
  ReadRequests <- ExclusivePoint
  MaxKey = 3
  LOCK_MAX_DEPTH_IN_DEADLOCK_CHECK = 200
  LOCK_MAX_N_STEPS_IN_DEADLOCK_CHECK = 1000000
  LOCK_RELEASE_KERNEL_INTERVAL = 2
  MaxLocks = 4
  MaxUndo = 1
PROPERTY
  VictimRollsBack
