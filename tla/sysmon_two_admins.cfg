\* Two administrators: what only one jprobe at a time comes to (monitor.c:19).
CONSTANTS
  t1 = t1
  t2 = t2
  Tasks <- MCTasks
  Admins = {a1, a2}
  UidOf <- MCUidOf
  Uids <- MCUids
  IntMod = 8
  NumProbes = 2
  NoArgs <- MCNoArgs
  LogBound = 2
  Nobody = Nobody
SPECIFICATION Spec
INVARIANT
  BufferExclusive
