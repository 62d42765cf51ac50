\* Seven or eight requests at a time, on a tree of six nodes.
CONSTANTS
  MaxId = 9
  MaxOff = 1
  Owners = {1, 2}
  Workloads <- MCWorkloads
SPECIFICATION Spec
INVARIANTS
  NoAbort
  CountsExact
  PathStable
  RightFile
  HiddenGone
  NobodyStranded
  LocksAgree
CHECK_DEADLOCK FALSE
