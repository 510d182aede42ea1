SPECIFICATION Spec
CONSTANTS
  a = a
  b = b
  p = p
  q = q
  g = g
  d = d
  e = e
  k1 = k1
  k2 = k2
  Accounts = {a, b}
  Peers = {p, q}
  Groups = {g}
  Devices = {d, e}
  Slots = {k1, k2}
  None = None
SYMMETRY Symm
INVARIANTS SpinnerHasHandler OnlyLateFindMisleads
CHECK_DEADLOCK FALSE
