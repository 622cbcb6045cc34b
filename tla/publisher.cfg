SPECIFICATION Spec
CONSTANTS
  n1 = n1
  n2 = n2
  n3 = n3
  n4 = n4
  None = None
  Notices <- MCNotices
SYMMETRY Symmetry
CHECK_DEADLOCK FALSE
INVARIANTS
  Inv
  LossHasCause
  OneChannelOnceWarm
PROPERTIES
  ImplementsOutbox
