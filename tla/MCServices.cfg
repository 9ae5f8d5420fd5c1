CONSTANTS
  f1 = f1
  f2 = f2
  c1 = c1
  c2 = c2
  Files = {f1, f2}
  Chats = {c1, c2}
  Slots = 1
  StatusPollLimit = 1
  MaxRows = 2
  MaxSends = 1
  MaxOpens = 1
  NoSend = NoSend
  r1 = r1
  r2 = r2
  s1 = s1
  k1 = k1
  k2 = k2
  q1 = q1
  q2 = q2
  q3 = q3
  w1 = w1
  w2 = w2
  Readers = {r1, r2}
  Setters = {s1}
  Confirms = {k1, k2}
  MaxPictures = 2
  MaxAsks = 2
  Callers = {q1, q2}
  Quota = 2
  MaxHits = 4
  MaxCuts = 2
  Requests = {q1, q2, q3}
  Workers = {w1, w2}
  RunsIn <- MCRunsIn
  Personal = TRUE
  NoRequest = NoRequest
  Materials <- MCMaterials
  Priced = {"steel"}
  MaxPositions = 2
  BlockHeight = 9
  Blocks = 3
  MaxAnswer = 3
  MaxEdits = 1
  Shapes <- MCShapes
  MaxGroups = 14
  MaxSections = 2
  ChatIds = {1, 2, 3}
  PerPage = 1
  MaxClock = 2
  MaxAsked = 3
  MaxFlying = 2
  MaxWrites = 2
SPECIFICATION ServicesSpec
INVARIANTS
  TypeOK
  BusyIsTold
  StrandedFiles
  NoneIsExplained
  OncePerRequest
  WindowsEnd
  OneRequestOpen
  OfferIsTheAnswer
  OnlyOldPolylinesAreMissed
  PagesDoNotSkip
  ShownIsCurrent
PROPERTIES
  RefinesUploadPool
  DoneFilesTravel
CHECK_DEADLOCK FALSE
