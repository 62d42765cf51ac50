\* bestoffer with two tries per LockMutex; two programs that read the number in
\* turn, two loads.  The module may stop for good: after the last unload or a
\* load that failed.
CONSTANTS
  Main = Main
  Thd1 = Thd1
  Thd2 = Thd2
  Pid = Pid
  Threads <- MCThreads
  Procs <- MCProcs
  ProcOf <- MCProcOf
  MaxProcs = 1
  MaxTry = 2
  CountMod = 4
  MaxDepth = 2
  NULL = NULL
  Nobody = Nobody
  Readers = {u1, u2}
  Garbage <- MCGarbage
  NoText = NoText
  Overlap = FALSE
  Positions <- MCPositions
  Vacant <- MCVacant
  MaxLoads = 2
SPECIFICATION ClassSpec
INVARIANTS
  OfferWhole
  NumberRight
  TableRestored
PROPERTIES
  RunsIndefinitely
CHECK_DEADLOCK FALSE
