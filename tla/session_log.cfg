SPECIFICATION Spec
CONSTANTS
  Files = {f}
  Contents = {a, b}
  Missing = Missing
  None = None
  MaxLog = 6
  MaxEvents = 0
  MaxTrouble = 1
  MaxCompactions = 0
SYMMETRY ContentsAreAlike
INVARIANT TypeOK
PROPERTIES
  RestoresFiles
  KeepsEdits
\* The log is full.
CHECK_DEADLOCK FALSE
