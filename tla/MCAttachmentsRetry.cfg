SPECIFICATION Spec
CONSTANTS
  Attachments = {a1}
  Pages = {pg1, pg2}
  Runs = {r1, r2}
  MaxSends = 0
  Watched = {}
  Removable = {}
  Old = {}
  None = None
  KeysLapse = FALSE
  MaxDeaths = 0
  a1 = a1
  r1 = r1
  r2 = r2
  pg1 = pg1
  pg2 = pg2
SYMMETRY Symmetry
INVARIANTS
  ReadyMeansEveryPageSent
CHECK_DEADLOCK FALSE
