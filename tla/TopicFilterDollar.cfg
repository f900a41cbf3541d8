SPECIFICATION Spec
CONSTANTS
  Literals = {"", "a", "$"}
  Dollars = {"$"}
  Mixed = {"a+"}
  MaxTopicLen = 5
  MaxLevels = 3
  Inputs <- SmallInputs
  WireLen <- SmallWireLen
INVARIANTS
  HidesDollarTopics
CHECK_DEADLOCK FALSE
