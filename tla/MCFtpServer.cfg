SPECIFICATION Spec
CONSTANTS
  Slots = 2
  NumFds = 5
  MaxConns = 3
  Requests = {"list", "get", "put", "missing", "silent"}
CHECK_DEADLOCK FALSE
INVARIANTS TypeOK OwnUnlessLapped DescriptorBalance SurvivesGoodClients
