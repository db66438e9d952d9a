SPECIFICATION Spec
CONSTANTS
  t1 = t1
  t2 = t2
  io = io
  Threads = {t1, t2, io}
  Handlers = {io}
  NoThread = NoThread
  X_LOCK_DECR = 4
  MaxNest = 3
  NowaitNest = 3
SYMMETRY Symm
INVARIANT LockWordValid
