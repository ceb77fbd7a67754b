SPECIFICATION FairSpec
CONSTANTS
  w1 = w1
  w2 = w2
  s1 = s1
  Watchers = {w1, w2}
  Stoppers = {s1}
  Host = Host
  None = None
  Kinds = {"piped", "pty"}
  MaxCrashes = 1
INVARIANTS
  WatchReportedAtMostOnce
  EventSeesAllOutput
  SettledStatusIsFinal
PROPERTIES
  WatchIsReported
\* The process and its calls come to an end.
CHECK_DEADLOCK FALSE
