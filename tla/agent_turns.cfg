SPECIFICATION Spec
CONSTANTS
  ChatMsgs = {m1, m2}
  CronMsgs = {c1}
  GoalMsg = GoalMsg
  TuiProvider = TuiProvider
  TurnIds = {t1, t2, t3}
  NoCopy = NoCopy
  UserOps = {}
  ModelOps = {}
  MaxUserOps = 0
  MaxFailures = 1
  MaxClears = 1
  MaxRewinds = 1
SYMMETRY Symmetry
INVARIANTS TurnsOverlapOnlyAfterClear EachMessageInOnePlace CronRunsApart
CHECK_DEADLOCK FALSE
