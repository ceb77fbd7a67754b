SPECIFICATION FairSpec
CONSTANTS
  t1 = t1
  t2 = t2
  c1 = c1
  s1 = s1
  s2 = s2
  s3 = s3
  Texts = {t1, t2}
  Controls = {c1}
  Sessions = {s1, s2, s3}
  NoThread = NoThread
  None = None
  MaxCalls = 2
  MaxRestarts = 1
  Keys <- ChatKeys
  Origins <- ChatOrigins
INVARIANTS
  WaitingIsAnswerable
  OneSessionPerChat
  MapSurvivesRestart
  DenialHolds
PROPERTIES
  InputUnblocks
\* All messages answered, or a turn waiting for an answer that nobody gives.
CHECK_DEADLOCK FALSE
