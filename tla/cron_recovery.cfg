SPECIFICATION FairSpec
CONSTANTS
  Second = 1
  Day = 4
  WeekLength = 2
  WindowDays = 2
  JobIds = {j1}
  RunIds = {r1, r2}
  NoRun = NoRun
  NoJob = NoJob
  JobDefs <- MixedDefs
  MaxNow = 2
  Horizon = 1
  MaxRevision = 1
  MaxRestarts = 1
  MaxStoreErrors = 1
CONSTRAINT RecoveryBounds
PROPERTIES StartedRunIsRecorded DueIsRecorded OrphanIsReleased
CHECK_DEADLOCK FALSE
