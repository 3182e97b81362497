SPECIFICATION LiveSpec
CONSTANTS
  Event = {e1}
  Repo = {p1}
  Workspace = {w1}
  NoWorkspace = NoWorkspace
  Request = {q1}
  MaxQueue = 2
  MaxChanges = 3
PROPERTIES PageCatchesUp
CHECK_DEADLOCK FALSE
