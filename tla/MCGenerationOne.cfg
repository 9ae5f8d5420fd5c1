SPECIFICATION Spec
CONSTANTS
  Users = {u1}
  Sessions = {s1}
  Turns = {t1, t2, t3}
  Owner <- MCOwner
  None = None
  GenKeyLapses = FALSE
  CreKeyLapses = FALSE
  MaxDeaths = 0
  BrokerFails = FALSE
  u1 = u1
  s1 = s1
  t1 = t1
  t2 = t2
  t3 = t3
SYMMETRY Symmetry
INVARIANTS
  OneGenerationPerUser
CHECK_DEADLOCK FALSE
