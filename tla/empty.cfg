SPECIFICATION Spec
CONSTANTS
  r1 = r1
  r2 = r2
  r3 = r3
  u1 = u1
  u2 = u2
  e1 = e1
  e2 = e2
  e3 = e3
  p1 = p1
  Null = Null
  Absent = Absent
  Nothing = Nothing
  Requests <- MCRequests
  Users <- MCUsers
  Emails <- MCEmails
  Phones <- MCPhones
  Jobs <- MCJobs
SYMMETRY Symmetry
CHECK_DEADLOCK FALSE
INVARIANTS
  EmptyPatchIsRefused
