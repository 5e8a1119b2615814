CONSTANTS
  Procs = {p1, p2}
  Starts <- MCStarts
  Requests <- MCRequests
  MaxCalls = 2
SPECIFICATION Spec
CHECK_DEADLOCK FALSE
INVARIANT LabelJustified
INVARIANT PolicyHonoured
PROPERTY RouteReturns
