SPECIFICATION FairSpec
CONSTANTS
  p1 = p1
  p2 = p2
  p3 = p3
  Procs = {p1, p2, p3}
  NoLock = NoLock
  MaxEvents = 3
  MaxCrashes = 1
  MaxFailures = 1
INVARIANTS OneHolder AckedIsReplayed
PROPERTIES LockComesFree
