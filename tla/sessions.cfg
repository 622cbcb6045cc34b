SPECIFICATION Spec
CONSTANTS
  r1 = r1
  r2 = r2
  r3 = r3
  u1 = u1
  u2 = u2
  t1 = t1
  Nobody = Nobody
  Requests <- MCRequests
  Users <- MCUsers
  Seeds <- MCSeeds
SYMMETRY Symmetry
CHECK_DEADLOCK FALSE
INVARIANTS
  TypeOK
  Inv
  ReplayIsRefused
  DeactivationEndsSessions
  DeactivatedCannotLogin
  SessionsLast
