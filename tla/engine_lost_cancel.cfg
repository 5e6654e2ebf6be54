SPECIFICATION Spec
CONSTANTS
  w1 = w1
  w2 = w2
  op = op
  NumSteps = 2
  MaxAttempts = 1
  Retired = {}
  Workers = {w1}
  Tickers = {w1}
  Operators = {op}
  Ops = {"cancel"}
  MaxRetries = 0
  CrashPoints = {}
  SlowSteps = FALSE
  EagerTicks = FALSE
INVARIANTS CancelUnwinds
CHECK_DEADLOCK FALSE
