SPECIFICATION MCSpec
CONSTANTS
  r1 = r1
  r2 = r2
  r3 = r3
  r4 = r4
  Requests <- MCRequests
  UserCount = 3
  Accounts <- MCAccounts
  Opening <- MCOpening
  MaxInt = 3
  Jobs <- MCJobs
  PoolMax = 3
  Free = Free
CHECK_DEADLOCK FALSE
INVARIANTS
  Inv
  NoLockCycle
  SomebodyCanStep
  HistoryExplainsBalance
PROPERTIES
  ImplementsLedger
  EveryRequestAnswered
