SPECIFICATION LiveSpec
CONSTANTS
  Users = {u1}
  Sessions = {s1}
  Turns = {t1, t2}
  Owner <- MCOwner
  None = None
  GenKeyLapses = FALSE
  CreKeyLapses = FALSE
  MaxDeaths = 1
  BrokerFails = TRUE
  u1 = u1
  s1 = s1
  t1 = t1
  t2 = t2
PROPERTIES
  RefinesConversation
  LockoutEnds
CHECK_DEADLOCK FALSE
