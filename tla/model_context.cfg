SPECIFICATION Spec
CONSTANTS
  Ids = {a, b}
  None = None
  MaxHistory = 8
  MaxCalls = 2
  MaxCompactions = 1
SYMMETRY IdsAreAlike
INVARIANTS TypeOK CallsAreAnswered ToldOnce
\* The history is full.
CHECK_DEADLOCK FALSE
