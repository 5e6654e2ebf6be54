SPECIFICATION Spec
CONSTANTS
  d1 = d1
  d2 = d2
  s1 = s1
  s2 = s2
  o1 = o1
  acme = acme
  Docs = {d1, d2}
  Slots = {s1, s2}
  Operators = {o1}
  Sellers = {acme}
  Readings <- FewReadings
  MaxPosts = 2
  MaxMessages = 2
  MaxClicks = 1
  ClosedDocs = {d2}
  FailPoints = {"publish"}
  CompanySetUp = FALSE
INVARIANTS TypeOK StatusJustified AnswersAreTrue
PROPERTIES LostOnlyToOldCopies
SYMMETRY SlotSymmetry
CHECK_DEADLOCK FALSE
