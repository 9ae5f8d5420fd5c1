\* Two overlapping saves.
CONSTANTS
  Users = {u1}
  Requests = {o1}
  Saves = {v1, v2}
  Values = {"default", "own"}
  None = None
SPECIFICATION SettingsSpec
CHECK_DEADLOCK FALSE
INVARIANT LastWriteWins
