SPECIFICATION Spec
CONSTANTS
  Attachments = {a1}
  Pages = {pg1}
  Runs = {r1}
  MaxSends = 0
  Watched = {a1}
  Removable = {a1}
  Old = {}
  None = None
  KeysLapse = FALSE
  MaxDeaths = 0
  a1 = a1
  r1 = r1
  pg1 = pg1
SYMMETRY Symmetry
INVARIANTS
  DeletedIsRefused
CHECK_DEADLOCK FALSE
