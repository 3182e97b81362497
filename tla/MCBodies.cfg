SPECIFICATION BodiesSpec
CONSTANTS
  \* WebhookDelivery
  h1 = h1
  Delivery = {d1, d2}
  Digest = {d2}
  Hook = {h1}
  HookOf <- OneHook
  Worker = {w1, w2}
  Lease = {l1, l2, l3}
  NoLease = NoLease
  MaxAttempts = 2
  Concurrency = 1
  MaxFaults = 1
  MaxEdits = 1
  \* Templates
  TemplateLength = 5
  ExpressionLength = 5
  BlockDepth = 2
  LoopItems = 2
  StepLimit = 4
  OutputLimit = 10
  \* Filters
  Typed <- SomePatterns
  FilterLists = {"repositories"}
  MaxPatterns = 2
SYMMETRY Symmetric
INVARIANTS TypeOK LeaseProtects LeaseHeld RetryBudget SentWithAccess BodiesSafe
PROPERTIES SettledStays PromiseKept
