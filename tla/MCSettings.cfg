\* Accounts and saves together.
CONSTANTS
  Users = {u1, u2}
  Requests = {o1, o2}
  Saves = {v1, v2}
  Values = {"default", "own"}
  None = None
SPECIFICATION SettingsSpec
SYMMETRY Interchangeable
CHECK_DEADLOCK FALSE
INVARIANTS
  TypeOK
  SessionsHaveUsers
  OthersAreSignedOut
  AttributionExists
  OnlyTheDeletedAreRefused
PROPERTIES
  SuperusersStay
  OnlySentFieldsChange
