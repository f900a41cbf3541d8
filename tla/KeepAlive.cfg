SPECIFICATION FairSpec
CONSTANTS
  KeepAlives = {0, 1, 2, 3}
  max_keep_alive = 2
  Half = 5
  MaxDelay = 2
  connect_timeout = 3
  CONNECT_RECEIVE_TIMEOUT = 2
  MaxInFlight = 2
INVARIANTS
  TypeOK
  PunctualStays
  VanishedIsDropped
  IdleWithinPolicy
PROPERTIES
  HandshakeEnds
CHECK_DEADLOCK FALSE
