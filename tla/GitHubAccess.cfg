SPECIFICATION AccessSpec
CONSTANTS
  User = {u1}
  NoUser = NoUser
  Repo = {p1}
  Worker = {w1}
  Handler = {h1, h2}
  MaxAttempts = 2
  MaxChanges = 2
  MaxActs = 4
SYMMETRY Interchangeable
INVARIANTS TypeOK FencedListing CurrentGrantOnly ChangesReread
CHECK_DEADLOCK FALSE
