SPECIFICATION Spec
CONSTANTS
  p = p
  q = q
  gr = gr
  u1 = u1
  u2 = u2
  s1 = s1
  s2 = s2
  r1 = r1
  r2 = r2
  k1 = k1
  k2 = k2
  Senders = {p, q}
  Groups = {gr}
  TTL = 3
  Throttle = 1
  Idle = 2
  Users = {u1, u2}
  StatusIds = {s1, s2}
  StatusTTL = 2
  ReportIds = {r1, r2}
  Ops = {k1, k2}
  None = None
CONSTRAINT OneStore
INVARIANT ShownIsLive
PROPERTIES OnlyEarlyLoadWipes NotRevived IndicatorLapses
CHECK_DEADLOCK FALSE
