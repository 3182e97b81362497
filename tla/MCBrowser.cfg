SPECIFICATION BrowserSpec
CONSTANTS
  \* LiveFeed
  Event = {e1}
  Repo = {p1}
  Workspace = {w1, w2}
  NoWorkspace = NoWorkspace
  Request = {c1, c2}
  MaxQueue = 2
  MaxChanges = 3
  \* PageIdentity
  User = {a, b}
  NoUser = NoUser
  Space = {v1}
  NoSpace = NoSpace
  Call = {c1, c2}
  MaxPageTurns = 2
  \* Principals
  Person = {a, b}
  Nobody = Nobody
  Cookie = {s1, s2}
  NoCookie = NoCookie
  Asking = {c1, c2}
  MaxTurns = 3
  \* Links
  LinkDays = {6, 7, 8}
  RangeLimit = 2
  MaxParams = 1
  \* SavedViews
  MaxViews = 2
  ViewSpace = {u1}
  NoSpaceYet = NoSpaceYet
  Dialog = {c1, c2}
  NoDialog = NoDialog
  ViewCap = 1
  \* Radar
  RadarReviewer = {w1, w2}
  RadarCheck = {k1}
  HeadSha = {c1, c2}
  MaxReviewRows = 2
  MaxCheckRows = 2
  MaxStamp = 2
SYMMETRY Alike
INVARIANTS BrowserTypeOK StreamMissesNothing AnswersSafe
PROPERTIES PageSafe
CHECK_DEADLOCK FALSE
