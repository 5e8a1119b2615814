CONSTANTS
  Procs = {p1, p2}
  Files <- MCFiles
  Nonces = 1
  Retries = 1
  Calls <- MCCalls
  Starts <- MCStarts
  MaxCalls = 2
  MaxCrashes = 1
  MaxRot = 1
SPECIFICATION Spec
CHECK_DEADLOCK FALSE
INVARIANT ReturnedVerified
INVARIANT VisibleWhole
PROPERTY GoodNeverLost
PROPERTY CallReturns
