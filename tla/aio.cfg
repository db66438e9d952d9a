SPECIFICATION Spec
CONSTANTS
  s1 = s1
  s2 = s2
  Submitters = {s1, s2}
  NumQueues = 2
  Threads = {s1, s2, 1, 2}
  N = 2
  MaxPos = 12
  ReqLen = 2
  MaxRequests = 3
  MaxPartial = 1
INVARIANT SlotExclusive
INVARIANT ReservedCount
INVARIANT ShutdownIsClean
PROPERTY ChannelIsFifo
SYMMETRY SubmitterSymmetry
