SPECIFICATION Spec
CONSTANTS
  Calls = {c1, c2}
  Fanouts = {}
  Requests = {"publish2"}
  IdSpace = 4
  MaxAllocs = 2
  WriteErrors = FALSE
SYMMETRY Symmetry
PROPERTIES
  PubcompNeverMissed
CHECK_DEADLOCK FALSE
