SPECIFICATION StatementSpec
CONSTANTS
  r1 = r1
  r2 = r2
  Requests <- MCRequests
  UserCount = 3
  Accounts <- MCAccounts
  Opening <- MCOpening
  MaxInt = 4
  Jobs <- MCJobs
  PoolMax = 2
  Free = Free
CHECK_DEADLOCK FALSE
INVARIANTS
  UserKnown
