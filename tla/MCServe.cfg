SPECIFICATION Spec
CONSTANTS
  Requests = {"q", "r"}
  Writers = {"g", "h"}
  Orders <- MCOrders
  None = None
INVARIANTS TypeOK WritersAreExclusive ResponsesVary NilMeansDrained
PROPERTY CancelEndsIt
CHECK_DEADLOCK FALSE
