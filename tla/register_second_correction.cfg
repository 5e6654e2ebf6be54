SPECIFICATION Spec
CONSTANTS
  p1 = p1
  p2 = p2
  p3 = p3
  jul = jul
  aug = aug
  Requests = {p1}
  Months = {jul}
  ImportNumbers = {}
  MaxRequests = 3
  MaxSuffix = 2
  FailPoints = {}
INVARIANTS KeyIsFree
