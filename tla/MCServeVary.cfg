SPECIFICATION Spec
CONSTANTS
  Requests = {"q", "r"}
  Writers = {"g", "h"}
  Orders <- MCOrders
  None = None
INVARIANT EncodedResponsesVary
CHECK_DEADLOCK FALSE
