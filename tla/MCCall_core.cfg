SPECIFICATION Spec
CONSTANTS
  Users = {a, b}
  a = a
  b = b
  c1 = c1
  c2 = c2
  CallIds = {c1, c2}
  Slots = {1}
  LogMax = 1
  Kinds = {"audio"}
  None = None
SYMMETRY Symm
VIEW WithoutLog
CONSTRAINT FewSignals
INVARIANTS TypeOK RingAnswerable NoStrandedIce
PROPERTY NotHijacked
CHECK_DEADLOCK FALSE
