SPECIFICATION Spec
SYMMETRY RequestSymmetry
CONSTANTS
  p1 = p1
  p2 = p2
  p3 = p3
  jul = jul
  aug = aug
  Requests = {p1, p2, p3}
  Months = {jul, aug}
  ImportNumbers = {2}
  MaxRequests = 4
  MaxSuffix = 2
  FailPoints = {"create", "store", "reconcile"}
INVARIANTS TypeOK CounterIsHighest NoGap LinesMatchHeader DocumentsKept
PROPERTIES NumberKept DecisionsKept
