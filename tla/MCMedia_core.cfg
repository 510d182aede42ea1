SPECIFICATION Spec
CONSTANTS
  a1 = a1
  a2 = a2
  c1 = c1
  c2 = c2
  i1 = i1
  i2 = i2
  x = x
  y = y
  Accounts = {a1, a2}
  Calls = {c1, c2}
  MaxTokens = 3
  Items = {i1, i2}
  Data = {x, y}
  None = None
ACTION_CONSTRAINT Focus
INVARIANTS TypeOK OwnToken
PROPERTIES KeepsPromise CallsEnd
CHECK_DEADLOCK FALSE
