\* One process of two threads and one of one, a slot for each.
CONSTANTS
  t1 = t1
  t2 = t2
  t3 = t3
  A = A
  B = B
  Threads <- ThreeThreads
  Procs <- TwoProcs
  ProcOf <- ThreeThreadsProc
  MaxProcs = 2
  MaxTry = 2
  CountMod = 4
  MaxDepth = 2
  NULL = NULL
  Nobody = Nobody
SPECIFICATION Spec
INVARIANTS
  MutualExclusion
PROPERTIES
  ImplementsRecursiveLock
SYMMETRY Siblings
