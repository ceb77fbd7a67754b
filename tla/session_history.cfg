SPECIFICATION Spec
CONSTANTS
  Files = {}
  Contents = {}
  Missing = Missing
  None = None
  MaxLog = 5
  MaxEvents = 1
  MaxTrouble = 1
  MaxCompactions = 1
PROPERTY HistoryIsKept
\* The log is full.
CHECK_DEADLOCK FALSE
