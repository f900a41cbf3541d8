SPECIFICATION FairSpec
CONSTANTS
  MaxCmds = 3
  Role = "server"
  WriteErrors = TRUE
  KeepAlive = TRUE
INVARIANTS
  TypeOK
  WireOrder
PROPERTIES
  ReaderLeaves
  WriterEnds
CHECK_DEADLOCK FALSE
