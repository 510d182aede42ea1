SPECIFICATION SendingSpec
CONSTANTS
  p = p
  q = q
  m1 = m1
  m2 = m2
  Devices = {p, q}
  Primary = p
  Refs = {m1, m2}
  LowWater = 1
  Target = 1
  MaxKeyId = 2
  Upkeeps = {1, 2}
  MaxEnds = 1
  Nil = Nil
CONSTRAINT OneAtATime
INVARIANTS Decryptable DeliveredTrue
CHECK_DEADLOCK FALSE
