SPECIFICATION FairSpec
CONSTANTS
  Hook = {1}
  Key = {k1, k2}
  Replica = {r1, r2}
  NoReplica = NoReplica
  Emitted <- Alerts
  BatchLimit = 2
  MaxEvents = 4
  MaxFaults = 0
  MaxEdits = 0
PROPERTIES EventsRouted
CHECK_DEADLOCK FALSE
