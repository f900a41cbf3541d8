SPECIFICATION FairSpec
CONSTANTS
  Calls = {c1}
  Fanouts = {f1}
  Requests = {"publish0", "publish1", "publish2", "subscribe", "unsubscribe"}
  IdSpace = 4
  MaxAllocs = 2
  WriteErrors = TRUE
INVARIANTS
  TypeOK
  SuccessIsOwnAck
  ClosedIsReal
  InflightUntilFlowEnds
PROPERTIES
  FirstAnswerNeverMissed
  CallsReturn
CHECK_DEADLOCK FALSE
