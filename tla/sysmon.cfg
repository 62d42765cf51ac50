\* One administrator; reads and uid writes come from anyone.
CONSTANTS
  t1 = t1
  t2 = t2
  Tasks <- MCTasks
  Admins = {a1}
  UidOf <- MCUidOf
  Uids <- MCUids
  IntMod = 8
  NumProbes = 2
  NoArgs <- MCNoArgs
  LogBound = 2
  Nobody = Nobody
SPECIFICATION FairSpec
INVARIANTS
  LinesWhole
  OffMeansQuiet
  GoneWhenUnloaded
PROPERTIES
  CallReturns
