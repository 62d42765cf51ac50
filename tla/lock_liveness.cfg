\* A table of one slot: whichever process comes second finds it full.
CONSTANTS
  t1 = t1
  t2 = t2
  t3 = t3
  A = A
  B = B
  Threads <- ThreeThreads
  Procs <- TwoProcs
  ProcOf <- ThreeThreadsProc
  MaxProcs = 1
  MaxTry = 2
  CountMod = 4
  MaxDepth = 1
  NULL = NULL
  Nobody = Nobody
SPECIFICATION FairSpec
PROPERTIES
  SyscallReturns
  FreeLockTaken
