SPECIFICATION FairSpec
CONSTANTS
  ChatMsgs = {m1}
  CronMsgs = {c1}
  GoalMsg = GoalMsg
  TuiProvider = TuiProvider
  TurnIds = {t1, t2}
  NoCopy = NoCopy
  UserOps = {"set"}
  ModelOps = {"complete"}
  MaxUserOps = 1
  MaxFailures = 1
  MaxClears = 0
  MaxRewinds = 0
PROPERTIES SubmittedIsEntered CronEndIsReported ActiveGoalIsPursued
CHECK_DEADLOCK FALSE
