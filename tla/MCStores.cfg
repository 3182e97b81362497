SPECIFICATION StoresSpec
CONSTANTS
  \* Sessions
  Browser = {b1, b2}
  NoBrowser = NoBrowser
  Account = {u1}
  NoAccount = NoAccount
  Session = {s1, s2}
  NoSession = NoSession
  SignIn = {f1, f2}
  NoSignIn = NoSignIn
  Flow = {g1, g2}
  NoFlow = NoFlow
  Callback = {c1, c2}
  \* SyncRuns
  Workspace = {w1}
  Repository = {p1}
  Happening = {e1}
  Run = {i1, i2}
  NoRun = NoRun
  Overlap = 1
  Window = 2
  EndOfTime = 4
  \* Shares
  Pin = {p1, p2}
  Visitor = {v1}
  MaxStreams = 1
  MaxTokens = 2
  MaxTurns = 2
  \* ReviewClaims
  Reviewer = {u1, u2}
  NoReviewer = NoReviewer
  Watched = {u1}
  MaxRevisions = 2
  MaxCommits = 2
  \* Activity
  Issue = {issue1}
  MergedPull = {merge1}
  Review = {review1}
  Delivery = {d1, d2}
  NoDelivery = NoDelivery
  Writer = {t1, t2}
  MaxAt = 2
  MaxSignals = 1
  \* WallSignals
  WallHook = {d1, d2}
  Serving = {h1, h2}
  Key = {k1, k2}
  MaxObserved = 2
  \* Workspaces
  Person = {u1}
  GitHubAccount = {g1, g2}
  NoGitHubAccount = NoGitHubAccount
  TeamApp = {t1}
  JournalApp = {g1}
  NoApp = NoApp
  Joining = {q1}
  Reading = {r1}
  MaxGrants = 2
  MaxInstalled = 1
  \* WallSignals: one life
  MaxSteps = 4
  MaxInstant = 4
  \* Activity: ids of changes
  PushedHead = {h1, h2}
  MaxMoment = 3
  MaxRecorded = 3
INVARIANTS StoresTypeOK SharesSafe
PROPERTIES AccountsSafe ImportsSafe ReviewsSafe EventsSafe
CHECK_DEADLOCK FALSE
