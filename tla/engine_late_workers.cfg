SPECIFICATION Spec
CONSTANTS
  w1 = w1
  w2 = w2
  op = op
  NumSteps = 2
  MaxAttempts = 2
  Retired = {}
  Workers = {w1, w2}
  Tickers = {w1, w2}
  Operators = {op}
  Ops = {"cancel"}
  MaxRetries = 0
  CrashPoints = {}
  SlowSteps = TRUE
  EagerTicks = TRUE
SYMMETRY Symm
INVARIANTS TypeOK OutputsKept InputsReady NeverUndoneTwice
CHECK_DEADLOCK FALSE
