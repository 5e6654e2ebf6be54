SPECIFICATION Spec
CONSTANTS
  w1 = w1
  w2 = w2
  op = op
  NumSteps = 2
  MaxAttempts = 1
  Retired = {0}
  Workers = {w1, w2}
  Tickers = {w1, w2}
  Operators = {op}
  Ops = {"cancel", "retry"}
  MaxRetries = 1
  CrashPoints = {"saveStep", "start"}
  SlowSteps = FALSE
  EagerTicks = TRUE
SYMMETRY Symm
INVARIANTS OneExecutor RetryBudget UndoneOnce
CHECK_DEADLOCK FALSE
