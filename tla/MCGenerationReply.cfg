SPECIFICATION LiveSpec
CONSTANTS
  Users = {u1}
  Sessions = {s1, s2}
  Turns = {t1, t2}
  Owner <- MCOwner
  None = None
  GenKeyLapses = FALSE
  CreKeyLapses = FALSE
  MaxDeaths = 0
  BrokerFails = FALSE
  u1 = u1
  s1 = s1
  s2 = s2
  t1 = t1
  t2 = t2
PROPERTIES
  AcceptedSendGetsAResult
CHECK_DEADLOCK FALSE
