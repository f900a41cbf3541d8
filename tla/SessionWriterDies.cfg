SPECIFICATION Spec
CONSTANTS
  Calls = {c1, c2}
  Fanouts = {}
  Requests = {"publish1"}
  IdSpace = 4
  MaxAllocs = 2
  WriteErrors = TRUE
SYMMETRY Symmetry
INVARIANTS
  ClosedResolvesWaiters
CHECK_DEADLOCK FALSE
