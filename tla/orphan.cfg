SPECIFICATION Spec
CONSTANTS
  r1 = r1
  r2 = r2
  r3 = r3
  r4 = r4
  e1 = e1
  e2 = e2
  Requests <- MCRequests
  Emails <- MCEmails
  PoolMax = 2
CHECK_DEADLOCK FALSE
INVARIANTS
  EveryUserHasAccount
