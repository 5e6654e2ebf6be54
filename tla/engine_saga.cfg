SPECIFICATION FairSpec
CONSTANTS
  w1 = w1
  w2 = w2
  op = op
  NumSteps = 2
  MaxAttempts = 2
  Retired = {1}
  Workers = {w1, w2}
  Tickers = {w1}
  Operators = {op}
  Ops = {"pause", "resume"}
  MaxRetries = 0
  CrashPoints <- ClaimedPoints
  SlowSteps = FALSE
  EagerTicks = FALSE
INVARIANTS AnnouncedOnce
PROPERTIES ClaimsImplementSaga Terminates
CHECK_DEADLOCK FALSE
