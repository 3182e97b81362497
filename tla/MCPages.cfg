SPECIFICATION PagesSpec
CONSTANTS
  \* WebhookSettings
  Member = {m1, m2}
  Pinnable = {p1}
  Hook = {h1, h2}
  Saving = {c1, c2}
  MaxHooks = 1
  \* WebhookConsole
  NumHooks = 2
  MaxIssued = 3
  \* InboundHooks
  Inbound = {i1, i2}
  Slug = {s1}
  Token = {t1, t2}
  Making = {c1, c2}
  Posting = {x1, x2}
  Message = {n1}
  NoMessage = NoMessage
  MaxInbound = 1
  KeptReceipts = 1
  MaxPosts = 2
  \* PublicFeed
  PubEvent = {e1}
  PubReader = {r1}
  PubStream = {s1, s2}
  PubHook = {d1}
  MaxConnections = 1
  MaxQueued = 1
  PubEnd = 2
  \* Upkeep: limits
  Client = {c1, c2}
  Replica = {p1}
  Hit = {q1, q2}
  Limit = 1
  MaxKeys = 1
  Length = 1
  EndOfTicks = 1
  MaxHits = 5
  \* Upkeep: retention
  Announced = {e1}
  Dispatch = {d1, d2}
  RadarPull = {g1}
  Keeper = {k1, k2}
  RowBatch = 1
  MaxBatches = 2
  MaxUpdates = 2
  \* Weekly: digests
  WeekTicks = 3
  FirstTick = 6
  LastTick = 13
  Offsets <- OffWest
  Shift = 11
  MaxSettings = 1
  \* Weekly: one that is sent
  Reposed = {p1, p2}
  SourceKey = {s1, s2}
  NoKey = NoKey
  MaxScopeMoves = 2
  \* Weekly: recaps
  RecapWeek = {w1, w2}
  Words = {t1, t2}
  NoWords = NoWords
  Queries = 2
  Answers = {s1, s2}
  NoAnswer = NoAnswer
  MaxScopes = 2
  MaxEdits = 3
  \* PulsePages
  Past = {1, 2, 3}
  PastAt <- PastTimes
  PastIn <- PastRepos
  PageSize = 1
  BoardKey = {k1, k2}
  LongAgo = {k1}
  MaxMoves = 2
  \* PulseSums
  SumDays = {3, 5, 7, 8}
  SumIds = {1, 2}
  SumOrgs = {1, 2}
  SumRepos = {1, 2}
  MaxSumRows = 2
  DailyUpTo = 2
  \* GitHubListings
  Listable = {1, 2, 3, 4, 5}
  PageLen = 2
  MaxListPages = 3
  MaxListMoves = 2
  \* HealthPage
  Service = {c1, c2}
  ServiceCap = 2
  MaxListed = 2
  \* Startup
  Process = {c1, c2}
  NoProcess = NoProcess
  Releases = {1, 2, 3}
  MaxStarts = 3
  \* Startup: import of a file
  Organization = {1, 2}
  OldDelivery = {1, 2}
  Copier = {c1, c2}
  NoCopier = NoCopier
  MaxCopies = 2
  \* Outbound
  Outside = {o1, o2}
  Inside = {n1}
  BodyLimit = 1
  MaxChunks = 2
  \* HookForm
  EventType = {e1, e2}
  Narrow = e1
  MaxUrl = 1
  MaxFormEdits = 2
SYMMETRY Interchangeable
INVARIANTS PagesTypeOK WebhooksSafe ServerSafe PeriodsSafe
CHECK_DEADLOCK FALSE
