SPECIFICATION FairSpec
CONSTANTS
  s1 = s1
  quick = quick
  slow = slow
  Probe = {p1}
  Service = {s1}
  ServiceOf <- OneService
  Rules = {quick, slow}
  FailAfter <- FailSoon
  RecoverAfter <- TwoPasses
  Worker = {w1}
  Lease = {l1, l2}
  NoLease = NoLease
  Concurrency = 1
  MaxCount = 2
  MaxFaults = 1
  MaxEdits = 2
PROPERTIES IncidentFollows
