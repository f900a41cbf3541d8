SPECIFICATION Spec
CONSTANTS
  Calls = {c1, c2}
  Fanouts = {}
  Requests = {"publish1", "publish2", "subscribe"}
  IdSpace = 4
  MaxAllocs = 3
  WriteErrors = TRUE
SYMMETRY Symmetry
INVARIANTS
  TypeOK
  SuccessIsOwnAck
  ClosedIsReal

PROPERTIES
  FirstAnswerNeverMissed
CHECK_DEADLOCK FALSE
