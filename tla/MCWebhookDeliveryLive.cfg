SPECIFICATION FairSpec
CONSTANTS
  h1 = h1
  Delivery = {d1, d2}
  Digest = {d2}
  Hook = {h1}
  HookOf <- OneHook
  Worker = {w1}
  Lease = {l1, l2, l3}
  NoLease = NoLease
  MaxAttempts = 2
  Concurrency = 1
  MaxFaults = 1
  MaxEdits = 1
PROPERTIES PendingSettles
