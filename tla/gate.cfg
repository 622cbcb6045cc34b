SPECIFICATION MCSpec
CONSTANTS
  r1 = r1
  r2 = r2
  r3 = r3
  r4 = r4
  u1 = u1
  c1 = c1
  None = None
  Requests <- MCRequests
  Users <- MCUsers
  Clients <- MCClients
  Jobs <- MCJobs
  Limit <- MCLimit
  Steps <- MCSteps
  Lifetime = 1
  WindowMs = 1000
  MaxTime = 1000
SYMMETRY Symmetry
CHECK_DEADLOCK FALSE
INVARIANTS
  Inv
  LogoutEndsBoth
  RevokedStaysOut
  RefusalHasCause
  BudgetHolds
