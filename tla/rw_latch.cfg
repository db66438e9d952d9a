SPECIFICATION FairSpec
CONSTANTS
  t1 = t1
  t2 = t2
  io = io
  Threads = {t1, t2, io}
  Handlers = {io}
  NoThread = NoThread
  X_LOCK_DECR = 4
  MaxNest = 2
  NowaitNest = 2
PROPERTY EveryWaitEnds
INVARIANT TypeOK
INVARIANT MutualExclusion
INVARIANT LockWordCounts
INVARIANT RecursiveFlagValid
INVARIANT NoLostSignal
