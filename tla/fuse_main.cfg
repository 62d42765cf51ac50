CONSTANTS
  r1 = r1
  r2 = r2
  w1 = w1
  w2 = w2
  w3 = w3
  p1 = p1
  p2 = p2
  o1 = o1
  o2 = o2
  c1 = c1
  c2 = c2
  c3 = c3
  Workers = {w1, w2, w3}
  Reqs = {r1, r2}
  Nobody = Nobody
  Sessions <- MCSessions
  MaxAvail = 2
  Lengths = {1, 4}
  Page = 2
  MaxRequests = 3
  Programs = {p1, p2}
  Users <- MCUsers
  Setups <- MCSetups
  Names = {"a", "b", "c"}
  Length <- MCLength
  DirPage = 72
  Openers = {o1, o2}
  Timeout = 1
  MaxTime = 3
  MaxVersion = 2
  Commands <- MCCommands
  Prog <- MCProg
  Dev <- MCDev
  Callers = {c1, c2, c3}
  LockOwners = {"a", "b"}
  Fds = {"f", "g"}
  Unlocked = Unlocked
  UlockCalls <- MCUlockCalls
SPECIFICATION Spec
INVARIANTS
  NoDangling
  RightBytes
  MountsKept
  SessionPaired
  CallsKept
  SameLayout
  ListedOnce
  FreshPages
  MountAsGiven
  OptionsUsed
  UlockKept
PROPERTIES
  Served
  InterruptKept
  LoopEnds
CHECK_DEADLOCK FALSE
