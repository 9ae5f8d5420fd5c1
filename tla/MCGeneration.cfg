SPECIFICATION Spec
CONSTANTS
  Users = {u1}
  Sessions = {s1, s2}
  Turns = {t1, t2}
  Owner <- MCOwner
  None = None
  GenKeyLapses = TRUE
  CreKeyLapses = FALSE
  MaxDeaths = 1
  BrokerFails = TRUE
  u1 = u1
  s1 = s1
  s2 = s2
  t1 = t1
  t2 = t2
SYMMETRY Symmetry
INVARIANTS
  TypeOK
  OneGenerationWhileGuarded
  OneHandlerPerUser
  SuccessIsBackedByTheChat
  NothingOutlivesItsSession
  FailedTurnsStaySilent
  OnlyCancelledOrFailedLeakTheKey
PROPERTIES
  GuardLostOnlyToStrayRelease
  AsksTheNewestQuestion
CHECK_DEADLOCK FALSE
