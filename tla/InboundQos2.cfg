SPECIFICATION FairSpec
CONSTANTS
  Msgs <- MCMsgs
  Ids <- MCIds
  IdOf <- MCIdOf
  MaxConns = 2
  Faulty = {1}
INVARIANT TypeOK
PROPERTIES
  ExactlyOnceSpec
  FlowsComplete
CHECK_DEADLOCK FALSE
