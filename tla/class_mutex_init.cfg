\* Two processes for one slot, as eleven for ten.
CONSTANTS
  t1 = t1
  t2 = t2
  t3 = t3
  A = A
  B = B
  Threads <- ThreeThreads
  Procs <- TwoProcs
  ProcOf <- ThreeThreadsProc
  MaxProcs = 1
  MaxTry = 2
  CountMod = 4
  MaxDepth = 1
  NULL = NULL
  Nobody = Nobody
SPECIFICATION Spec
INVARIANT InitMeansLock
