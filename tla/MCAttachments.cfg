SPECIFICATION LiveSpec
CONSTANTS
  Attachments = {a1}
  Pages = {pg1}
  Runs = {r1}
  MaxSends = 2
  Watched = {a1}
  Removable = {a1}
  Old = {a1}
  None = None
  KeysLapse = FALSE
  MaxDeaths = 1
  a1 = a1
  r1 = r1
  pg1 = pg1
INVARIANTS
  TypeOK
  ContentHasItsRow
  ContentOnce
  FilesBelongToTheirMessage
PROPERTIES
  EveryRunIsDecided
CHECK_DEADLOCK FALSE
