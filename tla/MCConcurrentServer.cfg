SPECIFICATION FairSpec
CONSTANTS
  Worker = {w1, w2}
  Size = 2
  Fd = {f1, f2, f3, f4}
  NoFd = NoFd
INVARIANTS OneHolder StopReachesHandlers
PROPERTIES RingIsFifo ShutdownEnds QueueIsServed
