SPECIFICATION Spec
CONSTANTS
  Literals = {"", "a", "$"}
  Dollars = {"$"}
  Mixed = {"a+"}
  MaxTopicLen = 5
  MaxLevels = 3
  Inputs <- SmallInputs
  WireLen <- SmallWireLen
INVARIANTS
  TypeOK
  MatchesCorrectly
  AcceptsExactly
  RoundTrip
CHECK_DEADLOCK FALSE
