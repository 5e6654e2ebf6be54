SPECIFICATION FairSpec
CONSTANTS
  w1 = w1
  w2 = w2
  op = op
  NumSteps = 2
  MaxAttempts = 1
  Retired = {}
  Workers = {w1, w2}
  Tickers = {w1, w2}
  Operators = {op}
  Ops = {}
  MaxRetries = 0
  CrashPoints = {"saveRun"}
  SlowSteps = FALSE
  EagerTicks = FALSE
PROPERTIES Terminates
CHECK_DEADLOCK FALSE
