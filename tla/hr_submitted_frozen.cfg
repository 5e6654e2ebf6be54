SPECIFICATION Spec
CONSTANTS
  o1 = o1
  o2 = o2
  k1 = k1
  Headcount = 2
  Operators = {o1}
  Kiosks = {k1}
  Enrolled = {1}
  Claimants = {1}
  Times = {"t"}
  NoTime = ""
  Window <- ShiftWindow
  Entries <- TwoEntries
  MaxClicks = 4
PROPERTIES SubmittedFiguresFrozen
CHECK_DEADLOCK FALSE
