SPECIFICATION Spec
CONSTANTS
  a = a
  b = b
  w1 = w1
  w2 = w2
  o1 = o1
  o2 = o2
  Scans = {a, b}
  Upload <- TwoScans
  Numbers = {1, 2}
  Readings <- Twins
  TakenNumbers = {}
  Workers = {w1}
  Operators = {o1}
  MAX_OCR_ATTEMPTS = 2
  MaxClicks = 2
  MaxKills = 1
  KillPoints = {"link", "ocr"}
INVARIANTS TypeOK CommittedIsRegistered RegisterMatchesItems BatchMatchesItems 
PROPERTIES LeftOnlyByOldCopies
CHECK_DEADLOCK FALSE
