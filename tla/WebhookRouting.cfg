SPECIFICATION Spec
CONSTANTS
  Hook = {1}
  Key = {k1}
  Replica = {r1, r2}
  NoReplica = NoReplica
  Emitted <- Kind
  BatchLimit = 2
  MaxEvents = 4
  MaxFaults = 1
  MaxEdits = 1
SYMMETRY Interchangeable
INVARIANTS TypeOK CooldownSpacing SkipExplained
CHECK_DEADLOCK FALSE
