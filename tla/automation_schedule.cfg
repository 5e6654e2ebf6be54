SPECIFICATION FairSpec
CONSTANTS
  r1 = r1
  r2 = r2
  s1 = s1
  s2 = s2
  c1 = c1
  t1 = t1
  e1 = e1
  Rules = {r1}
  Sweepers = {s1, s2}
  Callers = {c1}
  Tickers = {t1}
  Editors = {e1}
  Period = 1
  Horizon = 2
  MaxEvents = 1
INVARIANTS TypeOK OneActiveTick OnceRunsOnce
PROPERTIES EveryOutcomeRecorded DueRuleServed
CHECK_DEADLOCK FALSE
