SPECIFICATION Spec
CONSTANTS
  Runs <- TheRuns
  Workers = {w1, w2}
  None = None
INVARIANT SuccessIsComplete
CHECK_DEADLOCK FALSE
